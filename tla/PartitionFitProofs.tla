------------------------ MODULE PartitionFitProofs ------------------------
(***************************************************************************)
(* Proofs about PartitionFit for scripts of any length: what the operator  *)
(* has read of a script is what Slurm would read of it, but for scripts it *)
(* misreads, so that a job goes to a partition if and, but for missing     *)
(* limits, only if it has enough.                                          *)
(***************************************************************************)
EXTENDS PartitionFit, TLAPS

AllScripts == Scripts \cup {ContainerScript(request) : request \in Requests}

(* The lines that are read, and the tokens of the last of them.            *)
LinesRead == Len(input.script) - Len(script)
Line == input.script[LinesRead].tokens
TokensRead == IF LinesRead = 0 THEN 0 ELSE Len(Line) - Len(params)

(* The parser is somewhere in the heading of the script, and what it has   *)
(* not read is what follows there.                                         *)
InputOK ==
    /\ input.script \in AllScripts /\ input.cluster \in Clusters /\ input.config \in Configs
    /\ input.script \in Seq(Lines)

PositionOK ==
    /\ script \in Seq(Lines) /\ Len(script) <= Len(input.script)
    /\ \A i \in 1..Len(script) : script[i] = input.script[LinesRead + i]
    /\ 1..LinesRead \subseteq Heading(input.script)
    /\ params \in Seq(Tokens)
    /\ IF LinesRead = 0 THEN params = <<>>
       ELSE /\ Len(params) <= Len(Line)
            /\ \A i \in 1..Len(params) : params[i] = Line[TokensRead + i]
    /\ state \in {"read", "labelled", "scheduled", "pending"} =>
         params = <<>> /\ (script # <<>> => EndsHeading(script[1]))

ParserInv == TypeOK /\ InputOK /\ PositionOK

----------------------------------------------------------------------------
(* What is in a script *)

LEMMA ShortSequences ==
    ASSUME NEW S, NEW x \in S, NEW y \in S, NEW z \in S
    PROVE  <<>> \in Seq(S) /\ <<x>> \in Seq(S) /\ <<x, y>> \in Seq(S) /\ <<x, y, z>> \in Seq(S)
OBVIOUS

LEMMA NamesAre == Names = {"nodes", "time", "mem", "cpus"}
BY DEF Names, Nothing

LEMMA OptionsAre == Options = {"nodes", "time", "mem", "cpus", "tasks"}
BY DEF Options

LEMMA ValuesAre ==
    /\ Text \in Values /\ Text.fields = <<>> /\ ~Text.dash
    /\ \A n \in Nat : /\ Number(n) \in Values /\ Number(n).fields = <<n>> /\ ~Number(n).dash
                      /\ Time(n) \in Values /\ Time(n).fields = <<0, n>> /\ ~Time(n).dash
                      /\ Number(n).mark = "none" /\ Time(n).mark = "none"
<1>1. Text \in Values /\ Text.fields = <<>> /\ ~Text.dash
  BY ShortSequences DEF Text, Value, Values
<1>2. ASSUME NEW n \in Nat
      PROVE  /\ Number(n) \in Values /\ Number(n).fields = <<n>> /\ ~Number(n).dash
             /\ Time(n) \in Values /\ Time(n).fields = <<0, n>> /\ ~Time(n).dash
             /\ Number(n).mark = "none" /\ Time(n).mark = "none"
  <2>1. <<n>> \in Seq(Nat) /\ <<0, n>> \in Seq(Nat)
    BY ShortSequences
  <2>2. /\ Number(n) = [dash |-> FALSE, fields |-> <<n>>, mark |-> "none"]
        /\ Time(n) = [dash |-> FALSE, fields |-> <<0, n>>, mark |-> "none"]
    BY DEF Number, Time, Value
  <2>3. Len(<<n>>) = 1 /\ Len(<<0, n>>) = 2
    OBVIOUS
  <2>4. Number(n) \in Values
    <3>1. /\ Number(n) \in [dash : BOOLEAN, fields : Seq(Nat), mark : {"none", "M", "G", "infinite"}]
          /\ Number(n).fields = <<n>> /\ ~Number(n).dash
      BY <2>1, <2>2
    <3>2. Len(Number(n).fields) \in 0..3
      BY <2>3, <3>1
    <3>3. QED
      BY <3>1, <3>2 DEF Values
  <2>5. Time(n) \in Values
    <3>1. /\ Time(n) \in [dash : BOOLEAN, fields : Seq(Nat), mark : {"none", "M", "G", "infinite"}]
          /\ Time(n).fields = <<0, n>> /\ ~Time(n).dash
      BY <2>1, <2>2
    <3>2. Len(Time(n).fields) \in 0..3
      BY <2>3, <3>1
    <3>3. QED
      BY <3>1, <3>2 DEF Values
  <2>6. QED
    BY <2>2, <2>4, <2>5
<1>3. QED
  BY <1>1, <1>2

LEMMA TokensOfLine ==
    ASSUME NEW s \in Seq(Lines), NEW l \in DOMAIN s
    PROVE  s[l].tokens \in Seq(Tokens)
<1>1. s[l] \in Lines
  OBVIOUS
<1>2. QED
  BY <1>1 DEF Lines

LEMMA RunIsLine ==
    ASSUME NEW command \in Commands
    PROVE  /\ Run(command) \in Lines /\ Run(command).kind = "command"
           /\ Run(command).tokens[1].name = command
<1>1. Word(command) \in Tokens /\ Word(command).name = command
  BY ValuesAre DEF Word, Token, Tokens, TokenNames
<1>2. <<Word(command)>> \in Seq(Tokens)
  BY <1>1, ShortSequences
<1>3. QED
  BY <1>1, <1>2 DEF Run, Lines

LEMMA OptionIsLine ==
    ASSUME NEW name \in Options, NEW n \in Nat, NEW value \in Values
    PROVE  OptionLine(name, n, value) \in Seq(Lines)
<1>1. Assignment(name, value) \in Tokens
  BY DEF Assignment, Token, Tokens, TokenNames
<1>2. <<Assignment(name, value)>> \in Seq(Tokens)
  BY <1>1, ShortSequences
<1>3. Directive(<<Assignment(name, value)>>) \in Lines
  BY <1>2 DEF Directive, Lines
<1>4. QED
  BY <1>3, ShortSequences DEF OptionLine

(* The options of the script of a container, and the commands behind them. *)
ContainerOptions(request) ==
    <<Skipped>>
    \o OptionLine("time", request.time, Time(request.time))
    \o OptionLine("mem", request.mem, Number(request.mem))
    \o OptionLine("nodes", request.nodes, Number(request.nodes))
    \o OptionLine("cpus", request.cpus, Number(request.cpus))

ContainerCommands(request) ==
    IF request.local THEN LocalImage(request) ELSE RemoteImage(request)

LEMMA ContainerIsScript ==
    ASSUME NEW request \in Requests
    PROVE  /\ ContainerScript(request) = ContainerOptions(request) \o ContainerCommands(request)
           /\ ContainerOptions(request) \in Seq(Lines)
           /\ ContainerCommands(request) \in Seq(Lines)
           /\ ContainerScript(request) \in Seq(Lines)
<1>1. /\ request.time \in Nat /\ request.mem \in Nat /\ request.nodes \in Nat
      /\ request.cpus \in Nat
  BY InputsAssumption
<1>2. Skipped \in Lines
  BY DEF Skipped, Lines
<1>3. /\ OptionLine("time", request.time, Time(request.time)) \in Seq(Lines)
      /\ OptionLine("mem", request.mem, Number(request.mem)) \in Seq(Lines)
      /\ OptionLine("nodes", request.nodes, Number(request.nodes)) \in Seq(Lines)
      /\ OptionLine("cpus", request.cpus, Number(request.cpus)) \in Seq(Lines)
  <2>1. \A n \in Nat : Number(n) \in Values /\ Time(n) \in Values
    BY ValuesAre
  <2>2. OptionLine("time", request.time, Time(request.time)) \in Seq(Lines)
    BY <1>1, <2>1, OptionIsLine, OptionsAre
  <2>3. OptionLine("mem", request.mem, Number(request.mem)) \in Seq(Lines)
    BY <1>1, <2>1, OptionIsLine, OptionsAre
  <2>4. OptionLine("nodes", request.nodes, Number(request.nodes)) \in Seq(Lines)
    BY <1>1, <2>1, OptionIsLine, OptionsAre
  <2>5. OptionLine("cpus", request.cpus, Number(request.cpus)) \in Seq(Lines)
    BY <1>1, <2>1, OptionIsLine, OptionsAre
  <2>6. QED
    BY <2>2, <2>3, <2>4, <2>5
<1>4. ContainerOptions(request) \in Seq(Lines)
  BY <1>2, <1>3 DEF ContainerOptions
<1>5. ContainerCommands(request) \in Seq(Lines)
  <2>1. /\ Run("run") \in Lines /\ Run("verify") \in Lines /\ Run("pull") \in Lines
        /\ Run("pull -U") \in Lines /\ Run("rm") \in Lines
    BY RunIsLine DEF Commands
  <2>2. LocalImage(request) \in Seq(Lines)
    BY <2>1, ShortSequences DEF LocalImage
  <2>3. RemoteImage(request) \in Seq(Lines)
    BY <2>1, ShortSequences DEF RemoteImage
  <2>4. QED
    BY <2>2, <2>3 DEF ContainerCommands
<1>6. ContainerScript(request) = ContainerOptions(request) \o ContainerCommands(request)
  BY DEF ContainerScript, ContainerOptions, ContainerCommands
<1>7. QED
  BY <1>4, <1>5, <1>6

LEMMA ScriptsAreLines == AllScripts \subseteq Seq(Lines)
BY InputsAssumption, ContainerIsScript DEF AllScripts

----------------------------------------------------------------------------
(* The parser stays in the heading *)

LEMMA ValidFields ==
    ASSUME NEW v \in Values, NEW name, IsValid(name, v)
    PROVE  /\ name \in {"nodes", "mem", "cpus", "tasks"} => v.fields # <<>> /\ v.fields[1] \in Nat
           /\ v.fields \in Seq(Nat) /\ v.dash \in BOOLEAN
           /\ name \in {"mem", "cpus", "tasks"} => v.mark = "none"
<1>1. v.fields \in Seq(Nat) /\ v.dash \in BOOLEAN
  BY DEF Values
<1>2. CASE name = "nodes"
  BY <1>1, <1>2 DEF IsValid, IsNodes
<1>3. CASE name \in {"mem", "cpus", "tasks"}
  <2>1. Len(v.fields) = 1 /\ v.mark = "none"
    BY <1>3 DEF IsValid, IsNumber
  <2>2. QED
    BY <1>1, <1>3, <2>1
<1>4. QED
  BY <1>1, <1>2, <1>3

LEMMA ParamIsToken ==
    ASSUME ParserInv, params # <<>>
    PROVE  /\ Head(params) \in Tokens /\ Head(params) = params[1]
           /\ Len(params) > 1 => params[2] \in Tokens
           /\ ~TakesNext \/ Len(params) > 1 => ParamValue \in Values
<1>1. params \in Seq(Tokens)
  BY DEF ParserInv, PositionOK
<1>2. Head(params) \in Tokens /\ Head(params) = params[1]
  BY <1>1
<1>3. Len(params) > 1 => params[2] \in Tokens
  BY <1>1
<1>4. QED
  BY <1>2, <1>3, ValuesAre DEF ParamValue, Tokens

LEMMA DurationIsNat ==
    ASSUME NEW v \in Values
    PROVE  ParseDuration(v) \in Nat
<1>1. \A i \in 1..4 : Field(v, i) \in Nat
  BY DEF Field, Values
<1>2. QED
  BY <1>1 DEF ParseDuration, Day, Hour, Minute

LEMMA AppliedType ==
    ASSUME NEW res \in [Names -> Nat], NEW name, NEW v \in Values, IsValid(name, v)
    PROVE  ApplySbatchParam(res, name, v) \in [Names -> Nat]
<1>1. ParseDuration(v) \in Nat
  BY DurationIsNat
<1>2. name \in {"nodes", "mem", "cpus", "tasks"} => v.fields[1] \in Nat
  BY ValidFields
<1>3. TimesCPUs(res, v.fields[1]) \in Nat \/ name \notin {"cpus", "tasks"}
  BY <1>2, NamesAre DEF TimesCPUs
<1>4. QED
  BY <1>1, <1>2, <1>3 DEF ApplySbatchParam

LEMMA InputStays ==
    ASSUME [Next]_vars
    PROVE  input' = input
BY DEF Next, NextLine, ReadParam, RefuseParam, Panic, ScriptRead, LabelNode, Schedule, Done, vars

LEMMA LabelsType ==
    ASSUME NEW c \in Clusters, NEW config \in Configs
    PROVE  /\ Resources(c, config) \in [nodes : Nat, time : Nat, mem : Nat \cup {Unlimited}, cpus : Nat]
           /\ \A name \in Names : Resources(c, config)[name] =
                IF IsConfigured(config, name) THEN config.manual[name] ELSE ParseResources(c)[name]
<1>1. /\ c.maxTime \in Limit /\ c.maxCPUsPerNode \in Limit /\ c.maxMemPerNode \in Limit
      /\ c.maxNodes \in Limit /\ c.totalNodes \in Nat /\ c.totalCPUs \in Nat
      /\ config.manual \in [Names -> Nat]
  BY InputsAssumption
<1>2. ParseResources(c) \in [nodes : Nat, time : Nat, mem : Nat \cup {Unlimited}, cpus : Nat]
  BY <1>1 DEF ParseResources, OrTotal, Limit, Unlimited
<1> DEFINE r == Resources(c, config)
<1>3. \A name \in Names : r[name] = IF IsConfigured(config, name) THEN config.manual[name]
                                    ELSE ParseResources(c)[name]
  BY DEF Resources
<1>4. r = [nodes |-> r["nodes"], time |-> r["time"], mem |-> r["mem"], cpus |-> r["cpus"]]
  BY NamesAre DEF Resources
<1>5. r["nodes"] \in Nat /\ r["time"] \in Nat /\ r["mem"] \in Nat \cup {Unlimited} /\ r["cpus"] \in Nat
  BY <1>1, <1>2, <1>3, NamesAre
<1>6. QED
  BY <1>3, <1>4, <1>5

LEMMA TypesStay ==
    ASSUME ParserInv, [Next]_vars
    PROVE  TypeOK' /\ InputOK'
<1>1. InputOK'
  BY InputStays DEF ParserInv, InputOK
<1> USE DEF ParserInv, TypeOK
<1>2. CASE NextLine \/ RefuseParam \/ Panic \/ ScriptRead \/ Schedule \/ Done \/ UNCHANGED vars
  BY <1>1, <1>2 DEF NextLine, RefuseParam, Panic, ScriptRead, Schedule, Done, vars
<1>3. CASE ReadParam
  <2>1. ParamValue \in Values
    BY <1>3, ParamIsToken DEF ReadParam
  <2>2. resources' \in [Names -> Nat]
    BY <1>3, <2>1, AppliedType DEF ReadParam
  <2>3. QED
    BY <1>1, <1>3, <2>2 DEF ReadParam
<1>4. CASE LabelNode
  BY <1>1, <1>4, LabelsType DEF LabelNode, InputOK
<1>5. QED
  BY <1>1, <1>2, <1>3, <1>4 DEF Next

LEMMA Rest ==
    ASSUME NEW S, NEW s \in Seq(S), NEW k \in 1..Len(s)
    PROVE  /\ SubSeq(s, k + 1, Len(s)) \in Seq(S)
           /\ Len(SubSeq(s, k + 1, Len(s))) = Len(s) - k
           /\ \A i \in 1..(Len(s) - k) : SubSeq(s, k + 1, Len(s))[i] = s[k + i]
OBVIOUS

LEMMA TailIsRest ==
    ASSUME NEW S, NEW s \in Seq(S), s # <<>>
    PROVE  /\ Tail(s) \in Seq(S) /\ Len(Tail(s)) = Len(s) - 1 /\ Len(s) \in Nat \ {0}
           /\ \A i \in 1..(Len(s) - 1) : Tail(s)[i] = s[1 + i]
           /\ Head(s) = s[1] /\ s[1] \in S
OBVIOUS

LEMMA LineIsTokens ==
    ASSUME InputOK, PositionOK, LinesRead # 0
    PROVE  LinesRead \in 1..Len(input.script) /\ Line \in Seq(Tokens)
<1>1. /\ input.script \in Seq(Lines) /\ script \in Seq(Lines)
      /\ Len(script) <= Len(input.script)
  BY DEF InputOK, PositionOK
<1>2. LinesRead \in 1..Len(input.script)
  BY <1>1 DEF LinesRead
<1>3. input.script[LinesRead] \in Lines
  BY <1>1, <1>2
<1>4. QED
  BY <1>2, <1>3 DEF Line, Lines

(* The next line is part of the heading, and begins with its first token.  *)
LEMMA NextLinePosition ==
    ASSUME ParserInv, NextLine
    PROVE  /\ PositionOK' /\ LinesRead' = LinesRead + 1 /\ TokensRead' = 0
           /\ Line' = params' /\ LinesRead \in Nat /\ params' \in Seq(Tokens)
           /\ Line' \in Directives(input.script) /\ LinesRead + 1 \in Heading(input.script)
<1> DEFINE s == input.script
<1>1. /\ script \in Seq(Lines) /\ Len(script) <= Len(s) /\ s \in Seq(Lines) /\ script # <<>>
      /\ \A i \in 1..Len(script) : script[i] = s[LinesRead + i]
      /\ 1..LinesRead \subseteq Heading(s) /\ state = "reading" /\ state' = "reading"
      /\ input' = input /\ script' = Tail(script) /\ params' = Head(script).tokens
      /\ Head(script).kind # "command"
  BY DEF ParserInv, PositionOK, InputOK, NextLine, EndsHeading
<1>2. /\ Tail(script) \in Seq(Lines) /\ Len(Tail(script)) = Len(script) - 1
      /\ Len(script) \in Nat \ {0} /\ Head(script) = script[1] /\ script[1] \in Lines
      /\ \A i \in 1..(Len(script) - 1) : Tail(script)[i] = script[1 + i]
  BY <1>1, TailIsRest
<1>3. /\ LinesRead \in Nat /\ LinesRead' = LinesRead + 1 /\ LinesRead + 1 <= Len(s)
      /\ Len(s) \in Nat
  BY <1>1, <1>2 DEF LinesRead
<1>4. s[LinesRead + 1] = Head(script)
  BY <1>1, <1>2
<1>5. LinesRead + 1 \in Heading(s)
  <2>1. \A j \in 1..(LinesRead + 1) : s[j].kind # "command"
    BY <1>1, <1>3, <1>4 DEF Heading
  <2>2. QED
    BY <1>1, <1>3, <2>1 DEF Heading
<1>6. 1..(LinesRead + 1) \subseteq Heading(s)
  BY <1>1, <1>3, <1>5
<1>7. Line' = params'
  BY <1>1, <1>3, <1>4 DEF Line
<1>8. params' \in Seq(Tokens)
  BY <1>1, <1>2 DEF Lines
<1>9. TokensRead' = 0
  BY <1>3, <1>7, <1>8 DEF TokensRead
<1>10. \A i \in 1..Len(script') : script'[i] = s[LinesRead' + i]
  <2>1. script' = Tail(script) /\ Len(script') = Len(script) - 1
    BY <1>1, <1>2
  <2>2. ASSUME NEW i \in 1..(Len(script) - 1) PROVE Tail(script)[i] = s[(LinesRead + 1) + i]
    <3>1. 1 + i \in 1..Len(script) /\ LinesRead + (1 + i) = (LinesRead + 1) + i
      BY <1>2, <1>3
    <3>2. Tail(script)[i] = script[1 + i]
      BY <1>2
    <3>3. script[1 + i] = s[LinesRead + (1 + i)]
      BY <1>1, <3>1, Zenon
    <3>4. QED
      BY <3>1, <3>2, <3>3
  <2>3. LinesRead' = LinesRead + 1
    BY <1>3
  <2>4. QED
    BY <2>1, <2>2, <2>3
<1>11. \A i \in 1..Len(params') : params'[i] = Line'[TokensRead' + i]
  BY <1>7, <1>8, <1>9
<1>12. Line' \in Directives(input.script)
  BY <1>1, <1>3, <1>5 DEF Line, Directives
<1>13. PositionOK'
  BY <1>1, <1>2, <1>3, <1>6, <1>7, <1>8, <1>9, <1>10, <1>11 DEF PositionOK
<1>14. QED
  BY <1>3, <1>5, <1>7, <1>8, <1>9, <1>12, <1>13

Width == IF TakesNext THEN 2 ELSE 1

(* A parameter moves the parser one or two tokens on in its line.          *)
LEMMA ReadParamPosition ==
    ASSUME ParserInv, ReadParam
    PROVE  /\ PositionOK' /\ LinesRead' = LinesRead /\ Line' = Line /\ LinesRead # 0
           /\ TokensRead' = TokensRead + Width /\ TokensRead \in Nat
           /\ TokensRead + Width <= Len(Line) /\ Len(Line) \in Nat
           /\ \A i \in 1..Width : params[i] = Line[TokensRead + i]
           /\ Head(params) = Line[TokensRead + 1]
           /\ params' # <<>> => /\ params'[1] = Line[TokensRead + Width + 1]
                               /\ TokensRead + Width + 1 \in DOMAIN Line
<1>1. /\ params \in Seq(Tokens) /\ params # <<>> /\ (TakesNext => Len(params) > 1)
      /\ params' = SubSeq(params, Width + 1, Len(params)) /\ input' = input /\ script' = script
      /\ state = "reading" /\ state' = "reading" /\ PositionOK /\ InputOK
  BY DEF ParserInv, PositionOK, ReadParam, Width
<1>2. Width \in 1..Len(params) /\ Len(params) \in Nat
  BY <1>1 DEF Width
<1>3. LinesRead' = LinesRead /\ Line' = Line
  BY <1>1 DEF LinesRead, Line
<1>4. /\ LinesRead # 0 /\ Len(params) <= Len(Line)
      /\ \A i \in 1..Len(params) : params[i] = Line[TokensRead + i]
  <2>1. IF LinesRead = 0 THEN params = <<>>
        ELSE /\ Len(params) <= Len(Line)
             /\ \A i \in 1..Len(params) : params[i] = Line[TokensRead + i]
    BY <1>1 DEF PositionOK
  <2>2. QED
    BY <1>1, <2>1
<1>5. Line \in Seq(Tokens) /\ Len(Line) \in Nat
  BY <1>1, <1>4, LineIsTokens
<1>6. /\ params' \in Seq(Tokens) /\ Len(params') = Len(params) - Width
      /\ \A i \in 1..(Len(params) - Width) : params'[i] = params[Width + i]
  <2>1. \A k \in 1..Len(params) :
          /\ SubSeq(params, k + 1, Len(params)) \in Seq(Tokens)
          /\ Len(SubSeq(params, k + 1, Len(params))) = Len(params) - k
          /\ \A i \in 1..(Len(params) - k) : SubSeq(params, k + 1, Len(params))[i] = params[k + i]
    BY <1>1, Rest
  <2>2. QED
    BY <1>1, <1>2, <2>1
<1>7. TokensRead = Len(Line) - Len(params) /\ TokensRead' = Len(Line) - Len(params')
  BY <1>3, <1>4 DEF TokensRead
<1>8. \A i \in 1..Len(params') : params'[i] = Line'[TokensRead' + i]
  <2> SUFFICES ASSUME NEW i \in 1..Len(params')
               PROVE  params'[i] = Line'[TokensRead' + i]
    OBVIOUS
  <2>1. params'[i] = params[Width + i] /\ Width + i \in 1..Len(params)
    BY <1>2, <1>6
  <2>2. TokensRead' + i = TokensRead + (Width + i)
    BY <1>2, <1>5, <1>6, <1>7
  <2>3. QED
    BY <1>3, <1>4, <2>1, <2>2
<1>9. PositionOK'
  BY <1>1, <1>2, <1>3, <1>4, <1>5, <1>6, <1>8 DEF PositionOK
<1>10. Head(params) = params[1]
  BY <1>1
<1>11. params' # <<>> => /\ params'[1] = Line[TokensRead + Width + 1]
                         /\ TokensRead + Width + 1 \in DOMAIN Line
  BY <1>2, <1>3, <1>4, <1>5, <1>6, <1>7, <1>8
<1>12. /\ TokensRead' = TokensRead + Width /\ TokensRead \in Nat
       /\ TokensRead + Width <= Len(Line) /\ Len(Line) \in Nat
       /\ \A i \in 1..Width : params[i] = Line[TokensRead + i]
       /\ Head(params) = Line[TokensRead + 1]
  BY <1>2, <1>4, <1>5, <1>6, <1>7, <1>10
<1>13. QED
  BY <1>3, <1>4, <1>9, <1>11, <1>12, Zenon

LEMMA PositionStays ==
    ASSUME ParserInv, [Next]_vars
    PROVE  PositionOK'
<1>1. CASE NextLine
  BY <1>1, NextLinePosition
<1>2. CASE ReadParam
  BY <1>2, ReadParamPosition
<1>3. CASE RefuseParam \/ Panic \/ ScriptRead \/ LabelNode \/ Schedule \/ Done \/ UNCHANGED vars
  <2>1. UNCHANGED <<script, params, input>>
    BY <1>3 DEF RefuseParam, Panic, ScriptRead, LabelNode, Schedule, Done, vars
  <2>2. LinesRead' = LinesRead /\ Line' = Line /\ TokensRead' = TokensRead
    BY <2>1 DEF LinesRead, Line, TokensRead
  <2>3. state' \in {"read", "labelled", "scheduled", "pending"} =>
          params = <<>> /\ (script # <<>> => EndsHeading(script[1]))
    <3>1. CASE state \in {"read", "labelled", "scheduled", "pending"}
      BY <3>1 DEF ParserInv, PositionOK
    <3>2. CASE state \notin {"read", "labelled", "scheduled", "pending"}
      <4>1. state' \in {"read", "labelled", "scheduled", "pending"} => ScriptRead
        BY <1>3, <3>2 DEF RefuseParam, Panic, ScriptRead, LabelNode, Schedule, Done, vars
      <4>2. script # <<>> => Head(script) = script[1]
        BY DEF ParserInv, PositionOK
      <4>3. QED
        BY <4>1, <4>2 DEF ScriptRead
    <3>3. QED
      BY <3>1, <3>2
  <2>4. QED
    BY <2>1, <2>2, <2>3 DEF ParserInv, PositionOK
<1>4. QED
  BY <1>1, <1>2, <1>3 DEF Next

LEMMA ParserInvInit == Init => ParserInv
<1> SUFFICES ASSUME Init PROVE ParserInv
  OBVIOUS
<1>1. InputOK
  <2>1. input.script \in AllScripts /\ input.cluster \in Clusters /\ input.config \in Configs
    BY DEF Init, AllScripts
  <2>2. QED
    BY <2>1, ScriptsAreLines DEF InputOK
<1>2. TypeOK
  BY DEF Init, TypeOK, Nothing, Names
<1>3. PositionOK
  <2>1. LinesRead = 0 /\ params = <<>> /\ script = input.script /\ state = "reading"
    BY <1>1 DEF Init, LinesRead, InputOK
  <2>2. QED
    BY <1>1, <2>1, ShortSequences DEF PositionOK, InputOK
<1>4. QED
  BY <1>1, <1>2, <1>3 DEF ParserInv

(* extractBatchResources: what is not read yet is the rest of the current  *)
(* line and the lines behind it, and reading ends before the first command.*)
THEOREM ParserInvariant == Spec => []ParserInv
<1>1. ParserInv /\ [Next]_vars => ParserInv'
  BY TypesStay, PositionStays DEF ParserInv
<1>2. QED
  BY <1>1, ParserInvInit, PTL DEF Spec

(* extractBatchResources, Resources, AffinityForResources: what is read    *)
(* and what is labelled are numbers; no label but memory is ever -1.       *)
THEOREM TypeCorrect == Spec => []TypeOK
<1>1. ParserInv => TypeOK
  BY DEF ParserInv
<1>2. QED
  BY <1>1, ParserInvariant, PTL

----------------------------------------------------------------------------
(* Scripts of containers are ordinary ones *)

IsOption(line, name, v) == Len(line.tokens) = 1 /\ line.tokens[1] = Assignment(name, v)

(* Lines that give each option the values of a set, and each option once.  *)
Gives(s, given) ==
    /\ s \in Seq(Lines)
    /\ \A l \in DOMAIN s :
         /\ s[l].kind # "command"
         /\ \/ s[l].tokens = <<>>
            \/ \E name \in Options : \E v \in given[name] : IsOption(s[l], name, v)
    /\ \A name \in Options : \A v \in given[name] : \E l \in DOMAIN s : IsOption(s[l], name, v)
    /\ \A l, m \in DOMAIN s : \A name \in Options : \A v \in Values : \A w \in Values :
         IsOption(s[l], name, v) /\ IsOption(s[m], name, w) => l = m

GivesNothing == [name \in Options |-> {}]

LEMMA OptionsAreTold ==
    ASSUME NEW line, NEW name \in Options, NEW o \in Options, NEW v, NEW w,
           IsOption(line, name, v), IsOption(line, o, w)
    PROVE  name = o /\ v = w
<1>1. Assignment(name, v) = Assignment(o, w)
  BY DEF IsOption
<1>2. Assignment(name, v).name = name /\ Assignment(name, v).value = v
  BY DEF Assignment, Token
<1>3. Assignment(o, w).name = o /\ Assignment(o, w).value = w
  BY DEF Assignment, Token
<1>4. QED
  BY <1>1, <1>2, <1>3

LEMMA SkippedGivesNothing == Gives(<<Skipped>>, GivesNothing)
<1>1. Skipped \in Lines /\ Skipped.kind # "command" /\ Skipped.tokens = <<>>
  BY DEF Skipped, Lines
<1>2. <<Skipped>> \in Seq(Lines) /\ DOMAIN <<Skipped>> = {1} /\ <<Skipped>>[1] = Skipped
  BY <1>1, ShortSequences
<1>3. QED
  BY <1>1, <1>2 DEF Gives, GivesNothing

LEMMA OneMoreOption ==
    ASSUME NEW given \in [Options -> SUBSET Values], NEW s, Gives(s, given),
           NEW name \in Options, given[name] = {}, NEW n \in Nat, NEW v \in Values
    PROVE  /\ [given EXCEPT ![name] = IF n = 0 THEN {} ELSE {v}] \in [Options -> SUBSET Values]
           /\ Gives(s \o OptionLine(name, n, v), [given EXCEPT ![name] = IF n = 0 THEN {} ELSE {v}])
<1> DEFINE more == [given EXCEPT ![name] = IF n = 0 THEN {} ELSE {v}]
           line == Directive(<<Assignment(name, v)>>)
           t == s \o OptionLine(name, n, v)
<1>0. s \in Seq(Lines)
  BY DEF Gives
<1>1. more \in [Options -> SUBSET Values]
  OBVIOUS
<1>2. CASE n = 0
  <2>1. OptionLine(name, n, v) = <<>>
    BY <1>2 DEF OptionLine
  <2>2. t = s
    BY <1>0, <2>1
  <2>3. more = given
    BY <1>2
  <2>4. QED
    BY <1>1, <2>2, <2>3
<1>3. CASE n # 0
  <2>1. t = Append(s, line)
    BY <1>0, <1>3 DEF OptionLine
  <2>2. line \in Lines /\ line.kind # "command" /\ IsOption(line, name, v)
    <3>1. Assignment(name, v) \in Tokens
      BY DEF Assignment, Token, Tokens, TokenNames
    <3>2. <<Assignment(name, v)>> \in Seq(Tokens)
      BY <3>1, ShortSequences
    <3>3. QED
      BY <3>2 DEF Directive, Lines, IsOption
  <2> HIDE DEF line, t
  <2>3. /\ t \in Seq(Lines) /\ Len(t) = Len(s) + 1 /\ t[Len(s) + 1] = line /\ Len(s) \in Nat
        /\ DOMAIN t = 1..(Len(s) + 1) /\ DOMAIN s = 1..Len(s)
        /\ \A l \in 1..Len(s) : t[l] = s[l]
    BY <1>0, <2>1, <2>2
  <2>4. more[name] = {v} /\ \A o \in Options : o # name => more[o] = given[o]
    BY <1>3
  <2> HIDE DEF more
  <2>5. ASSUME NEW l \in DOMAIN t
        PROVE  /\ t[l].kind # "command"
               /\ \/ t[l].tokens = <<>>
                  \/ \E o \in Options : \E w \in more[o] : IsOption(t[l], o, w)
    <3>1. CASE l = Len(s) + 1
      BY <2>2, <2>3, <2>4, <3>1
    <3>2. CASE l \in DOMAIN s
      <4>1. \/ s[l].tokens = <<>>
            \/ \E o \in Options : \E w \in given[o] : IsOption(s[l], o, w)
        BY <3>2 DEF Gives
      <4>2. s[l].kind # "command" /\ t[l] = s[l]
        BY <2>3, <3>2 DEF Gives
      <4>3. \A o \in Options : given[o] \subseteq more[o]
        BY <2>4
      <4>4. QED
        BY <4>1, <4>2, <4>3
    <3>3. QED
      BY <2>3, <3>1, <3>2
  <2>6. ASSUME NEW o \in Options, NEW w \in more[o]
        PROVE  \E l \in DOMAIN t : IsOption(t[l], o, w)
    <3>1. CASE o = name
      BY <2>2, <2>3, <2>4, <3>1
    <3>2. CASE o # name
      <4>1. PICK l \in DOMAIN s : IsOption(s[l], o, w)
        BY <2>4, <3>2 DEF Gives
      <4>2. l \in DOMAIN t /\ t[l] = s[l]
        BY <2>3
      <4>3. QED
        BY <4>1, <4>2
    <3>3. QED
      BY <3>1, <3>2
  <2>7. ASSUME NEW l \in DOMAIN t, NEW o \in Options, NEW w \in Values, IsOption(t[l], o, w),
               l \in DOMAIN s
        PROVE  IsOption(s[l], o, w) /\ o # name
    <3>1. t[l] = s[l]
      BY <2>3, <2>7
    <3>2. PICK p \in Options : \E x \in given[p] : IsOption(s[l], p, x)
      <4>1. s[l].tokens # <<>>
        BY <2>7, <3>1 DEF IsOption
      <4>2. QED
        BY <2>7, <4>1 DEF Gives
    <3>3. p = o
      BY <2>7, <3>1, <3>2, OptionsAreTold
    <3>4. QED
      BY <2>7, <3>1, <3>2, <3>3
  <2>8. ASSUME NEW l \in DOMAIN t, NEW m \in DOMAIN t, NEW o \in Options, NEW w \in Values,
               NEW x \in Values, IsOption(t[l], o, w), IsOption(t[m], o, x)
        PROVE  l = m
    <3>1. l \notin DOMAIN s => o = name
      BY <2>2, <2>3, <2>8, OptionsAreTold
    <3>2. m \notin DOMAIN s => o = name
      BY <2>2, <2>3, <2>8, OptionsAreTold
    <3>3. l \in DOMAIN s => IsOption(s[l], o, w) /\ o # name
      BY <2>7, <2>8
    <3>4. m \in DOMAIN s => IsOption(s[m], o, x) /\ o # name
      BY <2>7, <2>8
    <3>5. CASE l \in DOMAIN s /\ m \in DOMAIN s
      BY <3>3, <3>4, <3>5 DEF Gives
    <3>6. CASE l \notin DOMAIN s /\ m \notin DOMAIN s
      BY <2>3, <3>6
    <3>7. QED
      BY <3>1, <3>2, <3>3, <3>4, <3>5, <3>6
  <2>9. Gives(t, more)
    BY <2>3, <2>5, <2>6, <2>8 DEF Gives
  <2>10. QED
    BY <1>1, <2>9 DEF more, t
<1>4. QED
  BY <1>2, <1>3

(* What the options of a container's script say.                           *)
GivenFor(request) ==
    [name \in Options |->
       IF name = "tasks" THEN {}
       ELSE IF request[name] = 0 THEN {}
       ELSE {IF name = "time" THEN Time(request.time) ELSE Number(request[name])}]

LEMMA ContainerGives ==
    ASSUME NEW request \in Requests
    PROVE  Gives(ContainerOptions(request), GivenFor(request))
<1> DEFINE with1 == [GivesNothing EXCEPT !["time"] = IF request.time = 0 THEN {} ELSE {Time(request.time)}]
           with2 == [with1 EXCEPT !["mem"] = IF request.mem = 0 THEN {} ELSE {Number(request.mem)}]
           with3 == [with2 EXCEPT !["nodes"] = IF request.nodes = 0 THEN {} ELSE {Number(request.nodes)}]
           with4 == [with3 EXCEPT !["cpus"] = IF request.cpus = 0 THEN {} ELSE {Number(request.cpus)}]
           s1 == <<Skipped>> \o OptionLine("time", request.time, Time(request.time))
           s2 == s1 \o OptionLine("mem", request.mem, Number(request.mem))
           s3 == s2 \o OptionLine("nodes", request.nodes, Number(request.nodes))
           s4 == s3 \o OptionLine("cpus", request.cpus, Number(request.cpus))
<1>0. /\ request.time \in Nat /\ request.mem \in Nat /\ request.nodes \in Nat
      /\ request.cpus \in Nat
  BY InputsAssumption
<1>1. /\ Time(request.time) \in Values /\ Number(request.mem) \in Values
      /\ Number(request.nodes) \in Values /\ Number(request.cpus) \in Values
  BY <1>0, ValuesAre
<1>2. /\ "time" \in Options /\ "mem" \in Options /\ "nodes" \in Options /\ "cpus" \in Options
      /\ "tasks" \in Options
  BY OptionsAre
<1>3. GivesNothing \in [Options -> SUBSET Values] /\ Gives(<<Skipped>>, GivesNothing)
      /\ \A name \in Options : GivesNothing[name] = {}
  BY SkippedGivesNothing DEF GivesNothing
<1>4. with1 \in [Options -> SUBSET Values] /\ Gives(s1, with1)
  BY <1>0, <1>1, <1>2, <1>3, OneMoreOption
<1>5. with1["mem"] = {} /\ with1["nodes"] = {} /\ with1["cpus"] = {} /\ with1["tasks"] = {}
      /\ with1["time"] = IF request.time = 0 THEN {} ELSE {Time(request.time)}
  BY <1>2, <1>3
<1> HIDE DEF with1, s1
<1>6. with2 \in [Options -> SUBSET Values] /\ Gives(s2, with2)
  BY <1>0, <1>1, <1>2, <1>4, <1>5, OneMoreOption
<1>7. with2["nodes"] = {} /\ with2["cpus"] = {} /\ with2["tasks"] = {} /\ with2["time"] = with1["time"]
      /\ with2["mem"] = IF request.mem = 0 THEN {} ELSE {Number(request.mem)}
  BY <1>2, <1>4, <1>5
<1> HIDE DEF with2, s2
<1>8. with3 \in [Options -> SUBSET Values] /\ Gives(s3, with3)
  BY <1>0, <1>1, <1>2, <1>6, <1>7, OneMoreOption
<1>9. with3["cpus"] = {} /\ with3["tasks"] = {} /\ with3["time"] = with1["time"]
      /\ with3["mem"] = with2["mem"]
      /\ with3["nodes"] = IF request.nodes = 0 THEN {} ELSE {Number(request.nodes)}
  BY <1>2, <1>6, <1>7
<1> HIDE DEF with3, s3
<1>10. with4 \in [Options -> SUBSET Values] /\ Gives(s4, with4)
  BY <1>0, <1>1, <1>2, <1>8, <1>9, OneMoreOption
<1>11. with4["tasks"] = {} /\ with4["time"] = with1["time"]
      /\ with4["mem"] = with2["mem"] /\ with4["nodes"] = with3["nodes"]
      /\ with4["cpus"] = IF request.cpus = 0 THEN {} ELSE {Number(request.cpus)}
  BY <1>2, <1>8, <1>9
<1>12. with4 = GivenFor(request)
  <2>1. \A name \in Options : with4[name] = GivenFor(request)[name]
    BY <1>5, <1>7, <1>9, <1>11, OptionsAre DEF GivenFor
  <2>2. QED
    BY <1>10, <2>1 DEF GivenFor
<1>13. s4 = ContainerOptions(request)
  BY DEF s1, s2, s3, ContainerOptions
<1>14. QED
  BY <1>10, <1>12, <1>13

----------------------------------------------------------------------------
(* The heading of a script that ends with commands *)

LEMMA HeadingOfBoth ==
    ASSUME NEW s \in Seq(Lines), NEW t \in Seq(Lines), t # <<>>, t[1].kind = "command",
           \A l \in DOMAIN s : s[l].kind # "command"
    PROVE  /\ Heading(s \o t) = DOMAIN s
           /\ \A l \in DOMAIN s : (s \o t)[l] = s[l]
           /\ \A l \in DOMAIN t : (s \o t)[Len(s) + l] = t[l]
           /\ DOMAIN (s \o t) = 1..(Len(s) + Len(t))
<1> DEFINE u == s \o t
<1>1. /\ Len(u) = Len(s) + Len(t) /\ DOMAIN u = 1..(Len(s) + Len(t)) /\ Len(s) \in Nat
      /\ Len(t) \in Nat \ {0} /\ DOMAIN s = 1..Len(s) /\ DOMAIN t = 1..Len(t)
      /\ \A l \in 1..Len(s) : u[l] = s[l]
      /\ \A l \in 1..Len(t) : u[Len(s) + l] = t[l]
  OBVIOUS
<1> HIDE DEF u
<1>2. ASSUME NEW l \in DOMAIN s PROVE l \in Heading(u)
  BY <1>1, <1>2 DEF Heading
<1>3. ASSUME NEW l \in Heading(u) PROVE l \in DOMAIN s
  <2>1. u[Len(s) + 1].kind = "command"
    BY <1>1
  <2>2. l \in 1..(Len(s) + Len(t)) /\ ~(Len(s) + 1 \in 1..l)
    BY <1>1, <1>3, <2>1 DEF Heading
  <2>3. QED
    BY <1>1, <2>2
<1>4. QED
  BY <1>1, <1>2, <1>3 DEF u

LEMMA CommandsComeFirst ==
    ASSUME NEW request \in Requests
    PROVE  ContainerCommands(request) # <<>> /\ ContainerCommands(request)[1].kind = "command"
BY DEF ContainerCommands, LocalImage, RemoteImage, Run

(* What the heading of a container's script is.                            *)
LEMMA ContainerHeading ==
    ASSUME NEW request \in Requests
    PROVE  /\ Gives(ContainerOptions(request), GivenFor(request))
           /\ Heading(ContainerScript(request)) = DOMAIN ContainerOptions(request)
           /\ \A l \in DOMAIN ContainerOptions(request) :
                ContainerScript(request)[l] = ContainerOptions(request)[l]
<1>1. Gives(ContainerOptions(request), GivenFor(request))
  BY ContainerGives
<1>2. \A l \in DOMAIN ContainerOptions(request) : ContainerOptions(request)[l].kind # "command"
  BY <1>1 DEF Gives
<1> DEFINE o == ContainerOptions(request)
           c == ContainerCommands(request)
<1>3. /\ o \in Seq(Lines) /\ c \in Seq(Lines) /\ c # <<>> /\ c[1].kind = "command"
      /\ \A l \in DOMAIN o : o[l].kind # "command"
  BY <1>2, ContainerIsScript, CommandsComeFirst
<1>4. ContainerScript(request) = o \o c
  BY ContainerIsScript
<1> HIDE DEF o, c
<1>5. Heading(o \o c) = DOMAIN o /\ \A l \in DOMAIN o : (o \o c)[l] = o[l]
  BY <1>3, HeadingOfBoth
<1>6. QED
  BY <1>1, <1>4, <1>5 DEF o

LEMMA GivenForValues ==
    ASSUME NEW request \in Requests, NEW name \in Options
    PROVE  GivenFor(request)[name] \subseteq Values
<1>1. request.time \in Nat /\ (name # "tasks" => request[name] \in Nat)
  BY InputsAssumption, OptionsAre
<1>2. QED
  BY <1>1, ValuesAre DEF GivenFor

LEMMA ContainerIsOrdinary ==
    ASSUME NEW request \in Requests
    PROVE  IsOfPairs(ContainerScript(request)) /\ GivesOptionsOnce(ContainerScript(request))
<1> DEFINE s == ContainerScript(request)
           o == ContainerOptions(request)
<1>1. /\ Gives(o, GivenFor(request)) /\ Heading(s) = DOMAIN o /\ \A l \in DOMAIN o : s[l] = o[l]
  BY ContainerHeading
<1> HIDE DEF s, o
<1>2. ASSUME NEW l \in Heading(s), NEW i \in DOMAIN s[l].tokens
      PROVE  i = 1 /\ \E name \in Options : \E v \in Values : IsOption(o[l], name, v)
  <2>1. s[l] = o[l] /\ l \in DOMAIN o /\ o \in Seq(Lines)
    BY <1>1, <1>2 DEF Gives
  <2>2. o[l].tokens \in Seq(Tokens)
    BY <2>1, TokensOfLine
  <2>3. o[l].tokens # <<>>
    BY <1>2, <2>1, <2>2
  <2>4. PICK name \in Options : \E v \in GivenFor(request)[name] : IsOption(o[l], name, v)
    BY <1>1, <2>1, <2>3 DEF Gives
  <2>5. PICK v \in Values : IsOption(o[l], name, v)
    BY <2>4, GivenForValues
  <2>6. QED
    BY <1>2, <2>1, <2>2, <2>5 DEF IsOption
<1>3. ASSUME NEW l \in Heading(s), NEW i \in DOMAIN s[l].tokens
      PROVE  s[l].tokens[i].form = "assignment"
  <2>1. s[l] = o[l]
    BY <1>1, <1>3
  <2>2. PICK name \in Options : \E v \in Values : IsOption(o[l], name, v)
    BY <1>2, <1>3
  <2>3. PICK v \in Values : IsOption(o[l], name, v)
    BY <2>2
  <2>4. i = 1
    BY <1>2, <1>3
  <2>5. QED
    BY <2>1, <2>3, <2>4 DEF IsOption, Assignment, Token
<1>4. IsOfPairs(s)
  BY <1>3 DEF IsOfPairs, Directives
<1>5. ASSUME NEW l \in Heading(s), NEW m \in Heading(s), NEW i \in DOMAIN s[l].tokens,
             NEW j \in DOMAIN s[m].tokens, s[l].tokens[i].name = s[m].tokens[j].name
      PROVE  l = m /\ i = j
  <2>1. s[l] = o[l] /\ s[m] = o[m] /\ l \in DOMAIN o /\ m \in DOMAIN o
    BY <1>1, <1>5
  <2>2. PICK name \in Options : \E v \in Values : IsOption(o[l], name, v)
    BY <1>2, <1>5
  <2>3. PICK v \in Values : IsOption(o[l], name, v)
    BY <2>2
  <2>4. PICK p \in Options : \E w \in Values : IsOption(o[m], p, w)
    BY <1>2, <1>5
  <2>5. PICK w \in Values : IsOption(o[m], p, w)
    BY <2>4
  <2>6. i = 1 /\ j = 1
    BY <1>2, <1>5
  <2>7. name = p
    BY <1>5, <2>1, <2>3, <2>5, <2>6 DEF IsOption, Assignment, Token
  <2>8. l = m
    BY <1>1, <2>1, <2>3, <2>5, <2>7 DEF Gives
  <2>9. QED
    BY <2>6, <2>8
<1>6. GivesOptionsOnce(s)
  BY <1>5 DEF GivesOptionsOnce
<1>7. QED
  BY <1>4, <1>6 DEF s

----------------------------------------------------------------------------
(* A parameter that is read is an option, not the value of one *)

AtParameter == params # <<>> => params[1].form # "plain"

BoundaryInv == IsOfPairs(input.script) => AtParameter

(* A line of pairs has no comment, so that all of it are arguments.        *)
LEMMA PairsAreArguments ==
    ASSUME NEW s \in Seq(Lines), IsOfPairs(s), NEW d \in Directives(s), NEW i \in DOMAIN d
    PROVE  /\ IsArgument(d, i) /\ d \in Seq(Tokens)
           /\ ~HoldsValue(d[i]) <=> d[i].form # "assignment"
<1>1. PICK l \in DOMAIN s : d = s[l].tokens
  BY DEF Directives, Heading
<1>2. d \in Seq(Tokens)
  BY <1>1, TokensOfLine
<1>3. \A j \in DOMAIN d : d[j].form \in {"assignment", "word", "plain"}
  BY DEF IsOfPairs
<1>4. \A j \in 1..i : j \in DOMAIN d
  BY <1>2
<1>5. QED
  BY <1>2, <1>3, <1>4 DEF IsArgument, HoldsValue

LEMMA TextIsNotValid ==
    ASSUME NEW name \in Options
    PROVE  ~IsValid(name, Text)
BY DEF IsValid, Text, Value, IsNodes, IsNumber, IsDuration, Options, Empty

LEMMA MeantIsValid ==
    ASSUME NEW name \in Options, NEW v \in Values, IsMeant(name, v), v.mark = "none"
    PROVE  IsValid(name, v)
<1>1. v.fields \in Seq(Nat) /\ Len(v.fields) \in Nat /\ v.dash \in BOOLEAN
      /\ Len(v.fields) \in (IF v.dash THEN {0, 2, 3, 4} ELSE 0..3)
  BY DEF Values
<1>2. v.fields # <<>> <=> Len(v.fields) # 0
  BY <1>1
<1>3. CASE name = "time"
  <2>1. v # Infinite
    BY DEF Infinite, Marked
  <2>2. (v.fields # <<>> /\ v.mark = "none") \/ v = Empty
    BY <1>3, <2>1 DEF IsMeant
  <2>3. v.fields # <<>> => IsDuration(v)
    BY <1>1, <1>2 DEF IsDuration
  <2>4. QED
    BY <1>3, <2>2, <2>3 DEF IsValid
<1>4. CASE name = "nodes"
  <2>1. Len(v.fields) = IF v.dash THEN 2 ELSE 1
    BY <1>4, OptionsAre DEF IsMeant
  <2>2. IsNodes(v)
    BY <1>1, <1>2, <2>1 DEF IsNodes, IsNumber
  <2>3. QED
    BY <1>4, <2>2 DEF IsValid
<1>5. CASE name \in {"mem", "cpus", "tasks"}
  BY <1>5 DEF IsMeant, IsValid, IsNumber
<1>6. QED
  BY <1>3, <1>4, <1>5, OptionsAre

LEMMA LineIsDirective ==
    ASSUME ParserInv, params # <<>>
    PROVE  /\ LinesRead # 0 /\ Line \in Directives(input.script) /\ Line \in Seq(Tokens)
           /\ LinesRead \in Heading(input.script) /\ LinesRead \in DOMAIN input.script
           /\ Len(Line) \in Nat /\ Len(params) <= Len(Line) /\ params \in Seq(Tokens)
           /\ TokensRead = Len(Line) - Len(params) /\ Len(params) \in Nat \ {0}
           /\ TokensRead + 1 \in DOMAIN Line
           /\ \A i \in 1..Len(params) : params[i] = Line[TokensRead + i]
           /\ Head(params) = Line[TokensRead + 1] /\ Head(params) = params[1]
<1>1. LinesRead # 0
  BY DEF ParserInv, PositionOK
<1>2. LinesRead \in 1..Len(input.script) /\ Line \in Seq(Tokens)
  BY <1>1, LineIsTokens DEF ParserInv
<1>3. LinesRead \in Heading(input.script)
  BY <1>2 DEF ParserInv, PositionOK
<1>4. Line \in Directives(input.script)
  BY <1>3 DEF Directives, Line
<1>5. /\ Len(params) <= Len(Line) /\ params \in Seq(Tokens)
      /\ \A i \in 1..Len(params) : params[i] = Line[TokensRead + i]
  <2>1. IF LinesRead = 0 THEN params = <<>>
        ELSE /\ Len(params) <= Len(Line)
             /\ \A i \in 1..Len(params) : params[i] = Line[TokensRead + i]
    BY DEF ParserInv, PositionOK
  <2>2. QED
    BY <1>1, <2>1 DEF ParserInv, PositionOK
<1>6. Len(params) \in Nat \ {0} /\ Head(params) = params[1]
  BY <1>5
<1>7. TokensRead = Len(Line) - Len(params)
  BY <1>1 DEF TokensRead
<1>8. TokensRead + 1 \in DOMAIN Line
  BY <1>2, <1>5, <1>6, <1>7
<1>9. QED
  BY <1>1, <1>2, <1>3, <1>4, <1>5, <1>6, <1>7, <1>8 DEF ParserInv, InputOK

(* A word that is read is an option, and what follows is its value.        *)
LEMMA WordIsOption ==
    ASSUME ParserInv, BoundaryInv, IsOfPairs(input.script), params # <<>>, TakesNext
    PROVE  /\ Head(params).form = "word" /\ Head(params).name \in TakesValue
           /\ Head(params).name \notin Options => Len(params) > 1
           /\ IsValid(Head(params).name, ParamValue) => params[2].form = "plain"
<1> DEFINE k == TokensRead + 1
<1>1. Head(params) \in Tokens /\ Head(params) = params[1] /\ Head(params) = Line[k]
      /\ k \in DOMAIN Line /\ Line \in Seq(Tokens)
      /\ TokensRead = Len(Line) - Len(params) /\ Len(params) \in Nat \ {0} /\ Len(Line) \in Nat
      /\ \A i \in 1..Len(params) : params[i] = Line[TokensRead + i]
  BY ParamIsToken, LineIsDirective
<1>2. /\ \A i \in DOMAIN Line :
           /\ Line[i].form \in {"assignment", "word", "plain"}
           /\ Line[i].form = "word" => /\ Line[i].name \in TakesValue
                                       /\ Line[i].name = "other" => HasValueBehind(Line, i)
  BY LineIsDirective DEF IsOfPairs
<1>3. Head(params).form = "word"
  BY <1>1, <1>2 DEF BoundaryInv, AtParameter, TakesNext
<1>4. Head(params).name \in TakesValue
  BY <1>1, <1>2, <1>3
<1>5. params[2].form # "plain" => ParamValue = Text
  BY DEF ParamValue, TakesNext
<1>6. CASE Head(params).name \in Options
  BY <1>3, <1>4, <1>5, <1>6, TextIsNotValid
<1>7. CASE Head(params).name \notin Options
  <2>1. Head(params).name = "other"
    BY <1>4, <1>7 DEF TakesValue
  <2>2. k < Len(Line) /\ Line[k + 1].form = "plain"
    BY <1>1, <1>2, <1>3, <2>1 DEF HasValueBehind
  <2>3. Len(params) > 1 /\ k + 1 = TokensRead + 2
    BY <1>1, <2>2
  <2>4. params[2] = Line[k + 1]
    BY <1>1, <2>3
  <2>5. QED
    BY <1>3, <1>4, <2>2, <2>3, <2>4
<1>8. QED
  BY <1>6, <1>7

LEMMA PairIsNamed ==
    ASSUME ParserInv, BoundaryInv, IsOfPairs(input.script), params # <<>>
    PROVE  ParamName = Head(params).name
<1>1. Head(params).form # "assignment" => Head(params).form = "word"
  BY WordIsOption DEF TakesNext
<1>2. QED
  BY <1>1 DEF ParamName

LEMMA BoundaryStays ==
    ASSUME ParserInv, BoundaryInv, [Next]_vars
    PROVE  BoundaryInv'
<1>1. input' = input
  BY InputStays
<1> SUFFICES ASSUME IsOfPairs(input.script), params' # <<>>
             PROVE  params'[1].form # "plain"
  BY <1>1 DEF BoundaryInv, AtParameter
<1>5. \A d \in Directives(input.script) : \A i \in DOMAIN d :
        d[i].form = "plain" => i > 1 /\ d[i - 1].form = "word"
  BY DEF IsOfPairs
<1>6. CASE NextLine
  <2>1. params' \in Seq(Tokens) /\ params' \in Directives(input.script)
    BY <1>6, NextLinePosition
  <2>2. 1 \in DOMAIN params' /\ ~(1 > 1)
    BY <2>1
  <2>3. QED
    BY <1>5, <2>1, <2>2
<1>7. CASE ReadParam
  <2>1. /\ TokensRead \in Nat
        /\ \A i \in 1..Width : params[i] = Line[TokensRead + i]
        /\ params'[1] = Line[TokensRead + Width + 1] /\ TokensRead + Width + 1 \in DOMAIN Line
    BY <1>7, ReadParamPosition
  <2>2. Width \in {1, 2}
    BY DEF Width
  <2>3. params[Width].form # "word"
    <3>1. params # <<>> /\ IsValid(Head(params).name, ParamValue)
      BY <1>7, PairIsNamed DEF ReadParam
    <3>2. CASE TakesNext
      <4>1. params[2].form = "plain"
        BY <3>1, <3>2, WordIsOption
      <4>2. QED
        BY <3>2, <4>1 DEF Width
    <3>3. CASE ~TakesNext
      <4>1. Head(params) = params[1]
        BY <3>1, ParamIsToken
      <4>2. QED
        BY <3>3, <4>1 DEF Width, TakesNext
    <3>4. QED
      BY <3>2, <3>3
  <2>4. params[Width] = Line[TokensRead + Width]
    BY <2>1, <2>2
  <2>5. (TokensRead + Width + 1) - 1 = TokensRead + Width
    BY <2>1, <2>2
  <2>6. Line \in Directives(input.script)
    BY <1>7, LineIsDirective DEF ReadParam
  <2>7. QED
    BY <1>5, <2>1, <2>3, <2>4, <2>5, <2>6
<1>8. CASE RefuseParam \/ Panic \/ ScriptRead \/ LabelNode \/ Schedule \/ Done \/ UNCHANGED vars
  <2>1. params' = params
    BY <1>8 DEF RefuseParam, Panic, ScriptRead, LabelNode, Schedule, Done, vars
  <2>2. QED
    BY <2>1 DEF BoundaryInv, AtParameter
<1>9. QED
  BY <1>6, <1>7, <1>8 DEF Next

IsUnmarked(s) == IsOfPairs(s) /\ ~HasMarks(s)

RefusalInv ==
    IsWellFormed(input.script) =>
      /\ state = "panicked" => ~IsOfPairs(input.script)
      /\ state = "refused" => ~IsUnmarked(input.script)

(* What is read next is an option with the value that is given to it, or   *)
(* a parameter that is skipped.                                            *)
LEMMA NextIsGiven ==
    ASSUME ParserInv, BoundaryInv, params # <<>>,
           IsOfPairs(input.script), IsWellFormed(input.script)
    PROVE  /\ TakesNext => Len(params) > 1
           /\ Head(params).name \in Options =>
                /\ ParamValue \in Given(input.script, Head(params).name)
                /\ IsMeant(Head(params).name, ParamValue)
<1> DEFINE k == TokensRead + 1
           t == Line[k]
<1>1. /\ Line \in Directives(input.script) /\ k \in DOMAIN Line /\ t = Head(params)
      /\ t \in Tokens /\ Line \in Seq(Tokens) /\ Len(Line) \in Nat
      /\ TokensRead = Len(Line) - Len(params) /\ Len(params) \in Nat \ {0}
      /\ \A i \in 1..Len(params) : params[i] = Line[TokensRead + i]
      /\ input.script \in Seq(Lines)
  BY LineIsDirective, ParamIsToken DEF ParserInv, InputOK
<1>2. IsArgument(Line, k) /\ (~HoldsValue(t) <=> t.form # "assignment")
  BY <1>1, PairsAreArguments
<1>3. /\ t.form = "word" /\ t.name \in TakesValue => HasValueBehind(Line, k)
      /\ \A name \in Options : GivesOne(Line, k, name) => IsMeant(name, ValueOf(Line, k))
  BY <1>1, <1>2 DEF IsWellFormed
<1>4. TakesNext => t.form = "word" /\ t.name \in TakesValue /\ HasValueBehind(Line, k)
  BY <1>1, <1>3, WordIsOption
<1>5. TakesNext => Len(params) > 1 /\ params[2] = Line[k + 1] /\ params[2].form = "plain"
  <2> SUFFICES ASSUME TakesNext
               PROVE  Len(params) > 1 /\ params[2] = Line[k + 1] /\ params[2].form = "plain"
    OBVIOUS
  <2>1. k < Len(Line) /\ Line[k + 1].form = "plain"
    BY <1>4 DEF HasValueBehind
  <2>2. Len(params) > 1 /\ k + 1 = TokensRead + 2
    BY <1>1, <2>1
  <2>3. QED
    BY <1>1, <2>1, <2>2
<1>6. ParamValue = ValueOf(Line, k)
  BY <1>1, <1>2, <1>5 DEF ParamValue, ValueOf, TakesNext
<1>7. ASSUME t.name \in Options PROVE GivesOne(Line, k, t.name)
  BY <1>1, <1>2, <1>4, <1>7 DEF GivesOne, TakesNext
<1>8. t.name \in Options => ParamValue \in Given(input.script, t.name)
  BY <1>1, <1>6, <1>7 DEF Given
<1>9. t.name \in Options => IsMeant(t.name, ParamValue)
  BY <1>3, <1>6, <1>7
<1>10. QED
  BY <1>1, <1>5, <1>8, <1>9

LEMMA RefusalStays ==
    ASSUME ParserInv, BoundaryInv, RefusalInv, [Next]_vars
    PROVE  RefusalInv'
<1>1. input' = input
  BY InputStays
<1>2. CASE Panic
  <2>1. ~(IsWellFormed(input.script) /\ IsOfPairs(input.script))
    BY <1>2, NextIsGiven DEF Panic
  <2>2. state' = "panicked"
    BY <1>2 DEF Panic
  <2>3. QED
    BY <1>1, <2>1, <2>2 DEF RefusalInv
<1>3. CASE RefuseParam
  <2> SUFFICES ASSUME IsWellFormed(input.script), IsUnmarked(input.script)
               PROVE  FALSE
    BY <1>1, <1>3 DEF RefusalInv, RefuseParam
  <2> DEFINE name == Head(params).name
  <2>1. /\ params # <<>> /\ (TakesNext => Len(params) > 1) /\ ~IsValid(name, ParamValue)
    BY <1>3, PairIsNamed DEF RefuseParam, IsUnmarked
  <2>2. ParamValue \in Values
    BY <2>1, ParamIsToken
  <2>3. name \in Options
    BY <2>1, OptionsAre DEF IsValid
  <2>4. ParamValue \in Given(input.script, name) /\ IsMeant(name, ParamValue)
    BY <2>1, <2>3, NextIsGiven DEF IsUnmarked
  <2>5. ParamValue.mark = "none"
    BY <2>3, <2>4 DEF IsUnmarked, HasMarks
  <2>6. QED
    BY <2>1, <2>2, <2>3, <2>4, <2>5, MeantIsValid
<1>4. CASE NextLine \/ ReadParam \/ ScriptRead \/ LabelNode \/ Schedule \/ Done \/ UNCHANGED vars
  <2>1. state' \in {"refused", "panicked"} => state' = state
    BY <1>4 DEF NextLine, ReadParam, ScriptRead, LabelNode, Schedule, Done, vars
  <2>2. QED
    BY <1>1, <2>1 DEF RefusalInv
<1>5. QED
  BY <1>2, <1>3, <1>4 DEF Next

LEMMA BoundaryInvariant == Spec => [](ParserInv /\ BoundaryInv)
<1>1. Init => BoundaryInv
  BY DEF Init, BoundaryInv, AtParameter
<1>2. ParserInv /\ BoundaryInv /\ [Next]_vars => BoundaryInv'
  BY BoundaryStays
<1>3. QED
  BY <1>1, <1>2, ParserInvariant, PTL DEF Spec

(* extractBatchResources: a script of any length that Slurm understands    *)
(* panics only if it has a flag, a value in the word of its name or a      *)
(* comment behind an option, and is refused only for that, for a memory    *)
(* with a suffix or for an infinite time that is not spelt UNLIMITED.      *)
THEOREM WellFormedIsRead == Spec => []WellFormedScriptIsRead
<1>1. Init => RefusalInv
  BY DEF Init, RefusalInv
<1>2. ParserInv /\ BoundaryInv /\ RefusalInv /\ [Next]_vars => RefusalInv'
  BY RefusalStays
<1>3. RefusalInv => WellFormedScriptIsRead
  BY DEF RefusalInv, IsUnmarked, WellFormedScriptIsRead
<1>4. QED
  BY <1>1, <1>2, <1>3, BoundaryInvariant, PTL DEF Spec

----------------------------------------------------------------------------
(* What was read is what is given *)

(* The tokens the parser has passed, and the values they give an option.   *)
Tokened(l) == input.script[l].tokens
Behind(l, i) == l \in 1..LinesRead /\ i \in DOMAIN Tokened(l) /\ (l = LinesRead => i <= TokensRead)

ReadAs(name) ==
    UNION {{ValueOf(Tokened(l), i) : i \in {j \in DOMAIN Tokened(l) :
              Behind(l, j) /\ GivesOne(Tokened(l), j, name)}} : l \in 1..LinesRead}

LEMMA WhatIsRead ==
    ASSUME NEW name, NEW v
    PROVE  v \in ReadAs(name) <=>
             \E l \in 1..LinesRead : \E i \in DOMAIN Tokened(l) :
               Behind(l, i) /\ GivesOne(Tokened(l), i, name) /\ v = ValueOf(Tokened(l), i)
BY DEF ReadAs

LEMMA WhatIsReadNext ==
    ASSUME NEW name, NEW v
    PROVE  v \in ReadAs(name)' <=>
             \E l \in 1..LinesRead' : \E i \in DOMAIN Tokened(l)' :
               Behind(l, i)' /\ GivesOne(Tokened(l)', i, name) /\ v = ValueOf(Tokened(l)', i)
BY DEF ReadAs

LEMMA LinesReadIsNat ==
    ASSUME ParserInv
    PROVE  LinesRead \in Nat /\ LinesRead <= Len(input.script) /\ input.script \in Seq(Lines)
BY DEF ParserInv, PositionOK, InputOK, LinesRead

(* Between two lines all that was passed is behind.                        *)
LEMMA LineIsDone ==
    ASSUME ParserInv, params = <<>>, NEW l \in 1..LinesRead, NEW i \in DOMAIN Tokened(l)
    PROVE  Behind(l, i)
<1>1. l = LinesRead => i <= TokensRead
  <2> SUFFICES ASSUME l = LinesRead PROVE i <= TokensRead
    OBVIOUS
  <2>1. LinesRead # 0 /\ Tokened(l) = Line
    BY LinesReadIsNat DEF Tokened, Line
  <2>2. Line \in Seq(Tokens)
    BY <2>1, LineIsTokens DEF ParserInv
  <2>3. TokensRead = Len(Line) /\ i \in 1..Len(Line)
    BY <2>1, <2>2 DEF TokensRead
  <2>4. QED
    BY <2>3
<1>2. QED
  BY <1>1 DEF Behind

LEMMA NextLineReadsNothing ==
    ASSUME ParserInv, NextLine, NEW name
    PROVE  ReadAs(name)' = ReadAs(name)
<1>1. LinesRead' = LinesRead + 1 /\ TokensRead' = 0 /\ LinesRead \in Nat /\ input' = input
      /\ params = <<>>
  BY NextLinePosition, InputStays DEF NextLine
<1>2. \A l : Tokened(l)' = Tokened(l)
  BY <1>1 DEF Tokened
<1>3. \A l \in 1..(LinesRead + 1) : DOMAIN Tokened(l) \subseteq Nat \ {0}
  <2> SUFFICES ASSUME NEW l \in 1..(LinesRead + 1) PROVE DOMAIN Tokened(l) \subseteq Nat \ {0}
    OBVIOUS
  <2>1. l \in DOMAIN input.script /\ input.script \in Seq(Lines)
    BY NextLinePosition, LinesReadIsNat DEF Heading
  <2>2. Tokened(l) \in Seq(Tokens)
    BY <2>1, TokensOfLine DEF Tokened
  <2>3. QED
    BY <2>2
<1>4. ASSUME NEW l \in 1..(LinesRead + 1), NEW i \in DOMAIN Tokened(l)
      PROVE  Behind(l, i)' <=> Behind(l, i)
  <2>1. CASE l = LinesRead + 1
    <3>1. ~(i <= 0)
      BY <1>3
    <3>2. QED
      BY <1>1, <2>1, <3>1 DEF Behind
  <2>2. CASE l \in 1..LinesRead
    <3>1. Behind(l, i)
      BY <1>1, <2>2, LineIsDone
    <3>2. l # LinesRead + 1
      BY <1>1, <2>2
    <3>3. Behind(l, i)'
      BY <1>1, <1>2, <2>2, <3>2 DEF Behind
    <3>4. QED
      BY <3>1, <3>3
  <2>3. QED
    BY <1>1, <2>1, <2>2
<1>5. ASSUME NEW v PROVE v \in ReadAs(name)' <=> v \in ReadAs(name)
  <2>1. ASSUME v \in ReadAs(name)' PROVE v \in ReadAs(name)
    <3>1. PICK l \in 1..(LinesRead + 1) : \E i \in DOMAIN Tokened(l) :
            Behind(l, i)' /\ GivesOne(Tokened(l), i, name) /\ v = ValueOf(Tokened(l), i)
      BY <1>1, <1>2, <2>1, WhatIsReadNext
    <3>2. PICK i \in DOMAIN Tokened(l) :
            Behind(l, i)' /\ GivesOne(Tokened(l), i, name) /\ v = ValueOf(Tokened(l), i)
      BY <3>1
    <3>3. Behind(l, i)
      BY <1>4, <3>2
    <3>4. l \in 1..LinesRead
      BY <3>3 DEF Behind
    <3>5. QED
      BY <3>2, <3>3, <3>4, WhatIsRead
  <2>2. ASSUME v \in ReadAs(name) PROVE v \in ReadAs(name)'
    <3>1. PICK l \in 1..LinesRead : \E i \in DOMAIN Tokened(l) :
            Behind(l, i) /\ GivesOne(Tokened(l), i, name) /\ v = ValueOf(Tokened(l), i)
      BY <2>2, WhatIsRead
    <3>2. PICK i \in DOMAIN Tokened(l) :
            Behind(l, i) /\ GivesOne(Tokened(l), i, name) /\ v = ValueOf(Tokened(l), i)
      BY <3>1
    <3>3. l \in 1..(LinesRead + 1)
      BY <1>1
    <3>4. Behind(l, i)'
      BY <1>4, <3>2, <3>3
    <3>5. QED
      BY <1>1, <1>2, <3>2, <3>3, <3>4, WhatIsReadNext
  <2>3. QED
    BY <2>1, <2>2
<1>6. QED
  BY <1>5

(* The parameter that is read is the one token with a name that falls      *)
(* behind the parser.                                                      *)
LEMMA ParamFallsBehind ==
    ASSUME ParserInv, ReadParam, NEW l \in 1..LinesRead, NEW i \in DOMAIN Tokened(l)
    PROVE  Behind(l, i)' <=> \/ Behind(l, i)
                             \/ l = LinesRead /\ i \in (TokensRead + 1)..(TokensRead + Width)
<1>1. /\ LinesRead' = LinesRead /\ TokensRead' = TokensRead + Width /\ TokensRead \in Nat
      /\ Width \in {1, 2} /\ input' = input
  BY ReadParamPosition, InputStays DEF Next, Width
<1>2. Tokened(l)' = Tokened(l)
  BY <1>1 DEF Tokened
<1>3. i \in Nat
  <2>1. l \in DOMAIN input.script /\ input.script \in Seq(Lines)
    BY LinesReadIsNat
  <2>2. Tokened(l) \in Seq(Tokens)
    BY <2>1, TokensOfLine DEF Tokened
  <2>3. QED
    BY <2>2
<1>4. QED
  BY <1>1, <1>2, <1>3 DEF Behind

LEMMA ReadParamReads ==
    ASSUME ParserInv, BoundaryInv, IsOfPairs(input.script), ReadParam, NEW o \in Options
    PROVE  ReadAs(o)' = ReadAs(o) \cup (IF Head(params).name = o THEN {ParamValue} ELSE {})
<1> DEFINE k == TokensRead + 1
<1>1. /\ LinesRead' = LinesRead /\ input' = input /\ TokensRead \in Nat /\ Width \in {1, 2}
      /\ LinesRead # 0 /\ TokensRead + Width <= Len(Line) /\ Len(Line) \in Nat
      /\ \A i \in 1..Width : params[i] = Line[TokensRead + i]
      /\ Head(params) = Line[k] /\ params # <<>>
  BY ReadParamPosition, InputStays DEF Next, Width, ReadParam
<1>2. LinesRead \in 1..LinesRead /\ Tokened(LinesRead) = Line /\ Line \in Seq(Tokens)
      /\ k \in DOMAIN Line
  BY <1>1, LinesReadIsNat, LineIsDirective DEF Tokened, Line
<1>3. \A l : Tokened(l)' = Tokened(l)
  BY <1>1 DEF Tokened
<1>4. TakesNext => /\ Width = 2 /\ params[2] = Line[k + 1] /\ params[2].form = "plain"
                   /\ params[2].name \notin Options /\ ParamValue = params[2].value
                   /\ Head(params).form # "assignment"
  <2> SUFFICES ASSUME TakesNext PROVE /\ Width = 2 /\ params[2] = Line[k + 1]
                   /\ params[2].form = "plain" /\ params[2].name \notin Options
                   /\ ParamValue = params[2].value /\ Head(params).form # "assignment"
    OBVIOUS
  <2>1. Width = 2 /\ Len(params) > 1 /\ IsValid(Head(params).name, ParamValue)
    BY PairIsNamed DEF Width, ReadParam
  <2>2. params[2].form = "plain"
    BY <1>1, <2>1, WordIsOption
  <2>3. params[2] \in Tokens
    BY <1>1, <2>1, ParamIsToken
  <2>4. k + 1 = TokensRead + 2
    BY <1>1
  <2>5. params[2] = Line[k + 1]
    BY <1>1, <2>1, <2>4
  <2>6. QED
    BY <2>1, <2>2, <2>3, <2>5, OptionsAre DEF Tokens, ParamValue, TakesNext
<1>5. /\ \A i \in DOMAIN Line : Line[i].form \in {"assignment", "word", "plain"}
       /\ IsArgument(Line, k) /\ (~HoldsValue(Line[k]) <=> Line[k].form # "assignment")
  <2>1. Line \in Directives(input.script) /\ input.script \in Seq(Lines)
    BY <1>1, LineIsDirective, LinesReadIsNat
  <2>2. \A i \in DOMAIN Line : Line[i].form \in {"assignment", "word", "plain"}
    BY <2>1 DEF IsOfPairs
  <2>3. QED
    BY <1>2, <2>1, <2>2, PairsAreArguments
<1>6. ValueOf(Line, k) = ParamValue
  BY <1>1, <1>4, <1>5 DEF ValueOf, ParamValue, TakesNext
<1>7. ~TakesNext => Width = 1
  BY DEF Width
<1>8. ASSUME NEW v, v \in ReadAs(o)'
      PROVE  v \in ReadAs(o) \/ (Head(params).name = o /\ v = ParamValue)
  <2>1. PICK l \in 1..LinesRead : \E i \in DOMAIN Tokened(l) :
          Behind(l, i)' /\ GivesOne(Tokened(l), i, o) /\ v = ValueOf(Tokened(l), i)
    BY <1>1, <1>3, <1>8, WhatIsReadNext
  <2>2. PICK i \in DOMAIN Tokened(l) :
          Behind(l, i)' /\ GivesOne(Tokened(l), i, o) /\ v = ValueOf(Tokened(l), i)
    BY <2>1
  <2>3. CASE Behind(l, i)
    BY <2>2, <2>3, WhatIsRead
  <2>4. CASE l = LinesRead /\ i \in (TokensRead + 1)..(TokensRead + Width)
    <3>1. i = k \/ (Width = 2 /\ i = k + 1)
      BY <1>1, <2>4
    <3>2. Tokened(l) = Line
      BY <1>2, <2>4
    <3>3. ~(Width = 2 /\ i = k + 1)
      BY <1>4, <1>7, <2>2, <3>2 DEF GivesOne
    <3>4. i = k
      BY <3>1, <3>3
    <3>5. QED
      BY <1>1, <1>6, <2>2, <3>2, <3>4 DEF GivesOne
  <2>5. QED
    BY <2>2, <2>3, <2>4, ParamFallsBehind
<1>9. ASSUME NEW v, v \in ReadAs(o) PROVE v \in ReadAs(o)'
  <2>1. PICK l \in 1..LinesRead : \E i \in DOMAIN Tokened(l) :
          Behind(l, i) /\ GivesOne(Tokened(l), i, o) /\ v = ValueOf(Tokened(l), i)
    BY <1>9, WhatIsRead
  <2>2. PICK i \in DOMAIN Tokened(l) :
          Behind(l, i) /\ GivesOne(Tokened(l), i, o) /\ v = ValueOf(Tokened(l), i)
    BY <2>1
  <2>3. Behind(l, i)'
    BY <2>2, ParamFallsBehind
  <2>4. QED
    BY <1>1, <1>3, <2>2, <2>3, WhatIsReadNext
<1>10. ASSUME Head(params).name = o PROVE ParamValue \in ReadAs(o)'
  <2>1. PICK l \in 1..LinesRead : l = LinesRead
    BY <1>2
  <2>2. Tokened(l) = Line
    BY <1>2, <2>1
  <2>3. PICK i \in DOMAIN Tokened(l) : i = k
    BY <1>2, <2>2
  <2>4. k \in (TokensRead + 1)..(TokensRead + Width)
    BY <1>1
  <2>5. Behind(l, i)'
    BY <2>1, <2>3, <2>4, ParamFallsBehind
  <2>6. GivesOne(Tokened(l), i, o) /\ ParamValue = ValueOf(Tokened(l), i)
    <3>1. Tokened(l)[i].name = o /\ ParamValue = ValueOf(Tokened(l), i)
      BY <1>1, <1>6, <1>10, <2>2, <2>3
    <3>2. ~TakesNext => HoldsValue(Tokened(l)[i])
      BY <1>1, <1>5, <2>2, <2>3 DEF TakesNext
    <3>3. TakesNext => HasValueBehind(Tokened(l), i)
      BY <1>1, <1>4, <2>2, <2>3 DEF HasValueBehind
    <3>4. IsArgument(Tokened(l), i)
      BY <1>5, <2>2, <2>3
    <3>5. QED
      BY <3>1, <3>2, <3>3, <3>4 DEF GivesOne
  <2>7. PICK v : v = ParamValue
    OBVIOUS
  <2>8. v \in ReadAs(o)'
    BY <1>1, <1>3, <2>5, <2>6, <2>7, WhatIsReadNext
  <2>9. QED
    BY <2>7, <2>8
<1>11. QED
  BY <1>8, <1>9, <1>10

(* An option that is given once was not read before.                       *)
LEMMA ReadOnce ==
    ASSUME ParserInv, GivesOptionsOnce(input.script), params # <<>>, Head(params).name \in Options
    PROVE  ReadAs(Head(params).name) = {}
<1> DEFINE o == Head(params).name
           k == TokensRead + 1
<1>1. /\ LinesRead \in Heading(input.script) /\ k \in DOMAIN Line /\ Head(params) = Line[k]
      /\ Line = Tokened(LinesRead) /\ LinesRead \in Nat /\ Line \in Seq(Tokens)
  BY LineIsDirective, LinesReadIsNat DEF Line, Tokened
<1> SUFFICES ASSUME NEW v \in ReadAs(o) PROVE FALSE
  OBVIOUS
<1>2. PICK l \in 1..LinesRead : \E i \in DOMAIN Tokened(l) :
        Behind(l, i) /\ GivesOne(Tokened(l), i, o) /\ v = ValueOf(Tokened(l), i)
  BY WhatIsRead
<1>3. PICK i \in DOMAIN Tokened(l) : Behind(l, i) /\ Tokened(l)[i].name = o
  BY <1>2 DEF GivesOne
<1>4. l \in Heading(input.script)
  BY DEF ParserInv, PositionOK
<1>5. l = LinesRead /\ i = k
  BY <1>1, <1>3, <1>4 DEF GivesOptionsOnce, Tokened
<1>6. i <= TokensRead /\ TokensRead \in Int
  BY <1>1, <1>3, <1>5, LineIsDirective DEF Behind
<1>7. QED
  BY <1>5, <1>6

LEMMA ReadIsGiven ==
    ASSUME ParserInv, params = <<>>, script # <<>> => EndsHeading(script[1]),
           ~IsCutShort(input.script), NEW name
    PROVE  ReadAs(name) = Given(input.script, name)
<1> DEFINE s == input.script
<1>1. /\ s \in Seq(Lines) /\ script \in Seq(Lines) /\ 1..LinesRead \subseteq Heading(s)
      /\ \A i \in 1..Len(script) : script[i] = s[LinesRead + i]
      /\ LinesRead = Len(s) - Len(script) /\ Len(script) <= Len(s) /\ LinesRead \in Nat
  BY LinesReadIsNat DEF ParserInv, PositionOK, InputOK, LinesRead
<1>2. ASSUME NEW l \in Heading(s), NEW i \in DOMAIN Tokened(l), l > LinesRead PROVE FALSE
  <2>1. l \in 1..Len(s) /\ \A j \in 1..l : s[j].kind # "command"
    <3>1. l \in DOMAIN s /\ \A j \in 1..l : s[j].kind # "command"
      BY <1>2, Zenon DEF Heading
    <3>2. DOMAIN s = 1..Len(s)
      BY <1>1
    <3>3. QED
      BY <3>1, <3>2, Zenon
  <2>2. Len(script) > 0 /\ script # <<>> /\ 1 \in 1..Len(script)
    BY <1>1, <1>2, <2>1
  <2>3. s[LinesRead + 1] = script[1] /\ LinesRead + 1 \in 1..l
    BY <1>1, <1>2, <2>1, <2>2
  <2>4. s[LinesRead + 1].kind = "comment"
    BY <2>1, <2>2, <2>3 DEF EndsHeading
  <2>5. Tokened(l) # <<>>
    BY <1>2
  <2>6. s[l].tokens # <<>>
    BY <2>5 DEF Tokened
  <2>7. QED
    BY <1>2, <2>3, <2>4, <2>6 DEF IsCutShort
<1>3. Heading(s) \subseteq Nat
  BY <1>1 DEF Heading
<1>4. ASSUME NEW l \in Heading(s), NEW i \in DOMAIN Tokened(l) PROVE l \in 1..LinesRead
  <2>1. ~(l > LinesRead)
    BY <1>2, <1>4
  <2>2. l \in 1..Len(s)
    BY <1>1, <1>4 DEF Heading
  <2>3. QED
    BY <1>1, <2>1, <2>2
<1>5. ASSUME NEW v PROVE v \in ReadAs(name) <=> v \in Given(s, name)
  <2>1. v \in Given(s, name) <=>
          \E l \in Heading(s) : \E i \in DOMAIN Tokened(l) :
            GivesOne(Tokened(l), i, name) /\ v = ValueOf(Tokened(l), i)
    BY DEF Given, Directives, Tokened
  <2>2. \A l \in 1..LinesRead : \A i \in DOMAIN Tokened(l) : Behind(l, i)
    BY LineIsDone
  <2>3. v \in ReadAs(name) <=>
          \E l \in 1..LinesRead : \E i \in DOMAIN Tokened(l) :
            Behind(l, i) /\ GivesOne(Tokened(l), i, name) /\ v = ValueOf(Tokened(l), i)
    BY WhatIsRead
  <2>4. /\ \A l : l \in 1..LinesRead => l \in Heading(s)
        /\ \A l \in Heading(s) : \A i \in DOMAIN Tokened(l) : l \in 1..LinesRead
    BY <1>1, <1>4
  <2>5. QED
    BY <2>1, <2>2, <2>3, <2>4, Zenon
<1>6. QED
  BY <1>5

----------------------------------------------------------------------------
(* The resources are those the options ask for *)

IsOrdinary(s) == IsOfPairs(s) /\ GivesOptionsOnce(s)

(* What applySbatchParam makes of the values that were given.              *)
ValuesAreValid(given) ==
    \A name \in Options : \A v \in given[name] : v \in Values /\ IsValid(name, v)

NumberAgrees(res, given, name) ==
    /\ given[name] = {} => res[name] = 0
    /\ \A v \in given[name] : res[name] = AsNumber(v)

TimeAgrees(res, given) ==
    /\ given["time"] = {} => res.time = 0
    /\ \A v \in given["time"] : res.time = IF v = Empty THEN 0 ELSE ParseDuration(v)

CPUsAgree(res, given) ==
    /\ given["cpus"] = {} /\ given["tasks"] = {} => res.cpus = 0
    /\ \A v \in given["cpus"] : given["tasks"] = {} => res.cpus = AsNumber(v)
    /\ \A v \in given["tasks"] : given["cpus"] = {} => res.cpus = AsNumber(v)
    /\ \A v \in given["cpus"] : \A w \in given["tasks"] :
         AsNumber(v) # 0 /\ AsNumber(w) # 0 => res.cpus = AsNumber(v) * AsNumber(w)

Agrees(res, given) ==
    /\ ValuesAreValid(given)
    /\ NumberAgrees(res, given, "nodes") /\ NumberAgrees(res, given, "mem")
    /\ TimeAgrees(res, given) /\ CPUsAgree(res, given)

LEMMA Commutes == \A a, b \in Nat : a * b = b * a /\ 1 * a = a
OBVIOUS

LEMMA OneMoreParam ==
    ASSUME NEW res \in [Names -> Nat], NEW given \in [Options -> SUBSET Values], Agrees(res, given),
           NEW name \in Options, given[name] = {}, NEW v \in Values, IsValid(name, v)
    PROVE  Agrees(ApplySbatchParam(res, name, v), [given EXCEPT ![name] = {v}])
<1> DEFINE new == ApplySbatchParam(res, name, v)
           more == [given EXCEPT ![name] = {v}]
<1>1. more[name] = {v} /\ \A o \in Options : o # name => more[o] = given[o]
  OBVIOUS
<1>2. ValuesAreValid(more)
  BY <1>1 DEF Agrees, ValuesAreValid
<1>3. name # "time" => AsNumber(v) \in Nat
  BY ValidFields, OptionsAre DEF AsNumber
<1>4. \A o \in {"nodes", "mem", "cpus", "tasks"} : \A w \in given[o] : AsNumber(w) \in Nat
  BY ValidFields, OptionsAre DEF AsNumber, Agrees, ValuesAreValid
<1>5. CASE name = "time"
  <2>1. new = [res EXCEPT !.time = IF v = Empty THEN @ ELSE ParseDuration(v)]
    BY <1>5 DEF ApplySbatchParam
  <2>2. /\ new["nodes"] = res["nodes"] /\ new["mem"] = res["mem"] /\ new.cpus = res.cpus
        /\ new.time = IF v = Empty THEN res.time ELSE ParseDuration(v)
    BY <2>1, NamesAre
  <2>3. res.time = 0
    BY <1>5 DEF Agrees, TimeAgrees
  <2>4. /\ more["nodes"] = given["nodes"] /\ more["mem"] = given["mem"]
        /\ more["cpus"] = given["cpus"] /\ more["tasks"] = given["tasks"] /\ more["time"] = {v}
    BY <1>1, <1>5, OptionsAre
  <2> HIDE DEF new, more
  <2>5. TimeAgrees(new, more)
    BY <2>2, <2>3, <2>4 DEF TimeAgrees
  <2>6. NumberAgrees(new, more, "nodes") /\ NumberAgrees(new, more, "mem")
    BY <2>2, <2>4, Zenon DEF NumberAgrees, Agrees
  <2>7. CPUsAgree(new, more)
    BY <2>2, <2>4, Zenon DEF CPUsAgree, Agrees
  <2>8. QED
    BY <1>2, <2>5, <2>6, <2>7 DEF Agrees, new, more
<1>6. CASE name = "nodes" \/ name = "mem"
  <2>1. new = [res EXCEPT ![name] = AsNumber(v)]
    BY <1>6 DEF ApplySbatchParam, AsNumber
  <2>2. /\ new[name] = AsNumber(v) /\ \A n \in Names : n # name => new[n] = res[n]
    BY <1>6, <2>1, NamesAre
  <2>3. new.time = res.time /\ new.cpus = res.cpus
    BY <1>6, <2>2, NamesAre
  <2>4. /\ more["time"] = given["time"] /\ more["cpus"] = given["cpus"]
        /\ more["tasks"] = given["tasks"]
    BY <1>1, <1>6, OptionsAre
  <2>5. \A n \in {"nodes", "mem"} : n = name \/ (new[n] = res[n] /\ more[n] = given[n])
    BY <1>1, <2>2, NamesAre, OptionsAre
  <2> HIDE DEF new, more
  <2>6. \A n \in {"nodes", "mem"} : NumberAgrees(new, more, n)
    BY <1>1, <2>2, <2>5 DEF Agrees, NumberAgrees
  <2>7. TimeAgrees(new, more)
    BY <2>3, <2>4, Zenon DEF TimeAgrees, Agrees
  <2>8. CPUsAgree(new, more)
    BY <2>3, <2>4, Zenon DEF CPUsAgree, Agrees
  <2>9. QED
    BY <1>2, <2>6, <2>7, <2>8 DEF Agrees, new, more
<1>7. CASE name = "cpus" \/ name = "tasks"
  <2> DEFINE other == IF name = "cpus" THEN "tasks" ELSE "cpus"
  <2>1. new = [res EXCEPT !.cpus = TimesCPUs(res, AsNumber(v))]
    BY <1>7 DEF ApplySbatchParam, AsNumber
  <2>2. /\ new["nodes"] = res["nodes"] /\ new["mem"] = res["mem"] /\ new.time = res.time
        /\ new.cpus = (IF res.cpus = 0 THEN 1 ELSE res.cpus) * AsNumber(v)
    BY <2>1, NamesAre DEF TimesCPUs
  <2>3. /\ more["nodes"] = given["nodes"] /\ more["mem"] = given["mem"]
        /\ more["time"] = given["time"] /\ more[name] = {v} /\ more[other] = given[other]
    BY <1>1, <1>7, OptionsAre
  <2>4. AsNumber(v) \in Nat /\ \A w \in given[other] : AsNumber(w) \in Nat
    BY <1>3, <1>4, <1>7
  <2>5. given[other] = {} => new.cpus = AsNumber(v)
    <3>1. given[other] = {} => res.cpus = 0
      BY <1>7 DEF Agrees, CPUsAgree
    <3>2. QED
      BY <2>2, <2>4, <3>1
  <2>6. \A w \in given[other] : AsNumber(v) # 0 /\ AsNumber(w) # 0
                                => new.cpus = AsNumber(v) * AsNumber(w)
    <3>1. \A w \in given[other] : res.cpus = AsNumber(w)
      BY <1>7 DEF Agrees, CPUsAgree
    <3>2. \A w \in given[other] : AsNumber(w) # 0 => new.cpus = AsNumber(w) * AsNumber(v)
      BY <2>2, <3>1
    <3>3. QED
      BY <2>4, <3>2, Commutes
  <2> HIDE DEF new, more
  <2>7. CPUsAgree(new, more)
    <3>1. CASE name = "cpus"
      <4>1. more["cpus"] = {v} /\ more["tasks"] = given["tasks"]
        BY <2>3, <3>1
      <4>2. /\ given["tasks"] = {} => new.cpus = AsNumber(v)
            /\ \A w \in given["tasks"] : AsNumber(v) # 0 /\ AsNumber(w) # 0
                                         => new.cpus = AsNumber(v) * AsNumber(w)
        BY <2>5, <2>6, <3>1, Zenon
      <4>3. {v} # {}
        OBVIOUS
      <4>4. QED
        BY <4>1, <4>2, <4>3, Zenon DEF CPUsAgree
    <3>2. CASE name = "tasks"
      <4>1. more["tasks"] = {v} /\ more["cpus"] = given["cpus"]
        BY <2>3, <3>2
      <4>2. /\ given["cpus"] = {} => new.cpus = AsNumber(v)
            /\ \A w \in given["cpus"] : AsNumber(w) # 0 /\ AsNumber(v) # 0
                                        => new.cpus = AsNumber(w) * AsNumber(v)
        <5>1. other = "cpus"
          BY <3>2
        <5> HIDE DEF other
        <5>2. \A w \in given["cpus"] : AsNumber(v) * AsNumber(w) = AsNumber(w) * AsNumber(v)
          BY <2>4, <5>1, Commutes, Zenon
        <5>3. QED
          BY <2>5, <2>6, <5>1, <5>2, Zenon
      <4>3. {v} # {}
        OBVIOUS
      <4>4. QED
        BY <4>1, <4>2, <4>3, Zenon DEF CPUsAgree
    <3>3. QED
      BY <1>7, <3>1, <3>2
  <2>8. NumberAgrees(new, more, "nodes") /\ NumberAgrees(new, more, "mem")
    BY <2>2, <2>3, Zenon DEF NumberAgrees, Agrees
  <2>9. TimeAgrees(new, more)
    BY <2>2, <2>3, Zenon DEF TimeAgrees, Agrees
  <2>10. QED
    BY <1>2, <2>7, <2>8, <2>9 DEF Agrees, new, more
<1>8. QED
  BY <1>5, <1>6, <1>7, OptionsAre

GivenSoFar == [o \in Options |-> ReadAs(o)]
GivenIn(s) == [o \in Options |-> Given(s, o)]

ResourcesInv == IsOrdinary(input.script) => Agrees(resources, GivenSoFar)

LEMMA ResourcesInit ==
    ASSUME Init
    PROVE  ResourcesInv
<1>1. LinesRead = 0
  <2>1. ParserInv
    BY ParserInvInit
  <2>2. Len(input.script) \in Nat /\ script = input.script
    BY <2>1 DEF Init, ParserInv, InputOK
  <2>3. QED
    BY <2>2 DEF LinesRead
<1>2. \A o : ReadAs(o) = {}
  BY <1>1 DEF ReadAs
<1>3. \A o \in Options : GivenSoFar[o] = {}
  BY <1>2 DEF GivenSoFar
<1>4. /\ GivenSoFar["nodes"] = {} /\ GivenSoFar["mem"] = {} /\ GivenSoFar["time"] = {}
      /\ GivenSoFar["cpus"] = {} /\ GivenSoFar["tasks"] = {}
  BY <1>3, OptionsAre
<1>5. /\ resources["nodes"] = 0 /\ resources["mem"] = 0 /\ resources.time = 0
      /\ resources.cpus = 0
  BY DEF Init, Nothing
<1>6. ValuesAreValid(GivenSoFar)
  BY <1>3 DEF ValuesAreValid
<1>7. QED
  BY <1>4, <1>5, <1>6 DEF ResourcesInv, Agrees, NumberAgrees, TimeAgrees, CPUsAgree

LEMMA ResourcesStay ==
    ASSUME ParserInv, BoundaryInv, ResourcesInv, [Next]_vars
    PROVE  ResourcesInv'
<1>1. input' = input
  BY InputStays
<1> SUFFICES ASSUME IsOrdinary(input.script), Agrees(resources, GivenSoFar)
             PROVE  Agrees(resources', GivenSoFar')
  BY <1>1 DEF ResourcesInv
<1>2. IsOfPairs(input.script) /\ GivesOptionsOnce(input.script)
  BY DEF IsOrdinary
<1>3. CASE NextLine
  <2>1. \A o : ReadAs(o)' = ReadAs(o)
    BY <1>3, NextLineReadsNothing
  <2>2. GivenSoFar' = GivenSoFar
    BY <2>1 DEF GivenSoFar
  <2>3. resources' = resources
    BY <1>3 DEF NextLine
  <2>4. QED
    BY <2>2, <2>3
<1>4. CASE ReadParam
  <2> DEFINE name == Head(params).name
  <2>1. \A o \in Options : ReadAs(o)' = ReadAs(o) \cup (IF name = o THEN {ParamValue} ELSE {})
    BY <1>2, <1>4, ReadParamReads
  <2>2. /\ resources' = ApplySbatchParam(resources, name, ParamValue) /\ IsValid(name, ParamValue)
        /\ params # <<>> /\ ParamValue \in Values
    BY <1>2, <1>4, ParamIsToken, PairIsNamed DEF ReadParam
  <2>3. resources \in [Names -> Nat]
    BY DEF ParserInv, TypeOK
  <2>4. CASE name \in Options
    <3>1. ReadAs(name) = {}
      BY <1>2, <2>2, <2>4, ReadOnce
    <3>2. GivenSoFar[name] = {}
      BY <2>4, <3>1 DEF GivenSoFar
    <3>3. GivenSoFar' = [GivenSoFar EXCEPT ![name] = {ParamValue}]
      BY <2>1, <2>4, <3>1 DEF GivenSoFar
    <3>4. GivenSoFar \in [Options -> SUBSET Values]
      <4>1. \A o \in Options : GivenSoFar[o] \subseteq Values
        BY DEF Agrees, ValuesAreValid
      <4>2. QED
        BY <4>1 DEF GivenSoFar
    <3> HIDE DEF name
    <3>5. QED
      BY <2>2, <2>3, <2>4, <3>2, <3>3, <3>4, OneMoreParam
  <2>5. CASE name \notin Options
    <3>1. GivenSoFar' = GivenSoFar
      BY <2>1, <2>5 DEF GivenSoFar
    <3>2. resources' = resources
      BY <2>2, <2>5, OptionsAre DEF ApplySbatchParam
    <3>3. QED
      BY <3>1, <3>2
  <2>6. QED
    BY <2>4, <2>5
<1>5. CASE RefuseParam \/ Panic \/ ScriptRead \/ LabelNode \/ Schedule \/ Done \/ UNCHANGED vars
  <2>1. UNCHANGED <<script, params, input, resources>>
    BY <1>5 DEF RefuseParam, Panic, ScriptRead, LabelNode, Schedule, Done, vars
  <2>2. LinesRead' = LinesRead /\ TokensRead' = TokensRead /\ \A l : Tokened(l)' = Tokened(l)
    BY <2>1 DEF LinesRead, TokensRead, Line, Tokened
  <2>3. GivenSoFar' = GivenSoFar
    BY <2>2 DEF GivenSoFar, ReadAs, Behind
  <2>4. QED
    BY <2>1, <2>3
<1>6. QED
  BY <1>3, <1>4, <1>5 DEF Next

ReadInv == ParserInv /\ BoundaryInv /\ ResourcesInv

LEMMA ReadInvariant == Spec => []ReadInv
<1>1. Init => ResourcesInv
  BY ResourcesInit
<1>2. ParserInv /\ BoundaryInv /\ ResourcesInv /\ [Next]_vars => ResourcesInv'
  BY ResourcesStay
<1>3. QED
  BY <1>1, <1>2, BoundaryInvariant, PTL DEF Spec, ReadInv

IsRead == state \in {"read", "labelled", "scheduled", "pending"}

LEMMA ResourcesAgree ==
    ASSUME ReadInv, IsRead, IsOrdinary(input.script), ~IsCutShort(input.script)
    PROVE  Agrees(resources, GivenIn(input.script))
<1>1. params = <<>> /\ (script # <<>> => EndsHeading(script[1]))
  BY DEF ReadInv, ParserInv, PositionOK, IsRead
<1>2. \A o : ReadAs(o) = Given(input.script, o)
  BY <1>1, ReadIsGiven DEF ReadInv
<1>3. GivenSoFar = GivenIn(input.script)
  BY <1>2 DEF GivenSoFar, GivenIn
<1>4. QED
  BY <1>3 DEF ReadInv, ResourcesInv

----------------------------------------------------------------------------
(* What is read is what Slurm understands *)

LEMMA SecondsAre ==
    ASSUME NEW v \in Values, IsDuration(v)
    PROVE  AsSeconds(v) = ParseDuration(v)
<1>1. v.fields \in Seq(Nat) /\ v.dash \in BOOLEAN
  BY DEF Values
<1>2. CASE v.dash /\ Len(v.fields) = 2
  BY <1>1, <1>2 DEF AsSeconds, ParseDuration, Field, Day, Hour, Minute
<1>3. CASE v.dash /\ Len(v.fields) = 3
  BY <1>1, <1>3 DEF AsSeconds, ParseDuration, Field, Day, Hour, Minute
<1>4. CASE v.dash /\ Len(v.fields) = 4
  BY <1>1, <1>4 DEF AsSeconds, ParseDuration, Field, Day, Hour, Minute
<1>5. CASE ~v.dash /\ Len(v.fields) = 1
  BY <1>1, <1>5 DEF AsSeconds, ParseDuration, Field, Day, Hour, Minute
<1>6. CASE ~v.dash /\ Len(v.fields) = 2
  BY <1>1, <1>6 DEF AsSeconds, ParseDuration, Field, Day, Hour, Minute
<1>7. CASE ~v.dash /\ Len(v.fields) = 3
  BY <1>1, <1>7 DEF AsSeconds, ParseDuration, Field, Day, Hour, Minute
<1>8. v.dash => Len(v.fields) \in {2, 3, 4}
  BY <1>1 DEF IsDuration
<1>9. ~v.dash => Len(v.fields) \in {1, 2, 3}
  BY <1>1 DEF IsDuration
<1>10. QED
  BY <1>2, <1>3, <1>4, <1>5, <1>6, <1>7, <1>8, <1>9, Zenon

LEMMA AskedAre ==
    ASSUME NEW s
    PROVE  /\ Asked(s)["nodes"] = {AsNumber(v) : v \in Given(s, "nodes")}
           /\ Asked(s)["mem"] = {InMegabytes(v) : v \in Given(s, "mem")}
           /\ Asked(s)["time"] = {TimeAsked(v) : v \in Given(s, "time")}
           /\ Asked(s)["cpus"] =
                IF Given(s, "cpus") \cup Given(s, "tasks") = {} THEN {}
                ELSE Times(OrOne({AsNumber(v) : v \in Given(s, "cpus")}),
                           OrOne({AsNumber(v) : v \in Given(s, "tasks")}))
BY DEF Asked

LEMMA GivenInIs ==
    ASSUME NEW s, NEW o \in Options
    PROVE  GivenIn(s)[o] = Given(s, o)
BY DEF GivenIn

LEMMA GivenIsMeant ==
    ASSUME NEW s, ValuesAreValid(GivenIn(s))
    PROVE  /\ \A o \in {"nodes", "mem", "cpus", "tasks"} : \A v \in Given(s, o) : AsNumber(v) \in Nat
           /\ \A v \in Given(s, "mem") : InMegabytes(v) = AsNumber(v)
           /\ \A v \in Given(s, "time") :
                LET n == IF v = Empty THEN 0 ELSE ParseDuration(v)
                IN  n \in Nat /\ TimeAsked(v) = IF n = 0 THEN Unlimited ELSE n
<1>1. \A o \in Options : \A v \in Given(s, o) : v \in Values /\ IsValid(o, v)
  BY GivenInIs DEF ValuesAreValid
<1>2. \A o \in {"nodes", "mem", "cpus", "tasks"} : \A v \in Given(s, o) : AsNumber(v) \in Nat
  BY <1>1, ValidFields, OptionsAre DEF AsNumber
<1>3. ASSUME NEW v \in Given(s, "mem") PROVE InMegabytes(v) = AsNumber(v)
  BY <1>1, ValidFields, OptionsAre DEF InMegabytes, AsNumber
<1>4. ASSUME NEW v \in Given(s, "time")
      PROVE  LET n == IF v = Empty THEN 0 ELSE ParseDuration(v)
             IN  n \in Nat /\ TimeAsked(v) = IF n = 0 THEN Unlimited ELSE n
  <2>1. v \in Values /\ (IsDuration(v) \/ v = Empty)
    BY <1>1, <1>4, OptionsAre DEF IsValid
  <2>2. CASE v = Empty
    BY <2>2 DEF TimeAsked
  <2>3. CASE v # Empty
    <3>1. IsDuration(v) /\ v # Infinite
      BY <2>1, <2>3 DEF IsDuration, Infinite, Marked
    <3>2. AsSeconds(v) = ParseDuration(v) /\ ParseDuration(v) \in Nat
      BY <2>1, <3>1, SecondsAre, DurationIsNat
    <3>3. QED
      BY <2>3, <3>1, <3>2 DEF TimeAsked
  <2>4. QED
    BY <2>2, <2>3
<1>5. QED
  BY <1>2, <1>3, <1>4

Counts(s, o) == {AsNumber(v) : v \in Given(s, o)}

LEMMA CountsAre ==
    ASSUME NEW s, NEW o
    PROVE  /\ Counts(s, o) = {} <=> Given(s, o) = {}
           /\ \A v \in Given(s, o) : AsNumber(v) \in Counts(s, o)
           /\ \A n \in Counts(s, o) : \E v \in Given(s, o) : n = AsNumber(v)
BY DEF Counts

(* The CPUs that are asked for: of both options, of one of them, or none.  *)
LEMMA AskedCPUs ==
    ASSUME NEW s, NEW n
    PROVE  n \in Asked(s)["cpus"] <=>
             /\ Counts(s, "cpus") # {} \/ Counts(s, "tasks") # {}
             /\ \E a \in OrOne(Counts(s, "cpus")) : \E b \in OrOne(Counts(s, "tasks")) : n = a * b
<1> DEFINE A == Counts(s, "cpus")
           B == Counts(s, "tasks")
<1>1. A = {} <=> Given(s, "cpus") = {}
  BY CountsAre
<1>2. B = {} <=> Given(s, "tasks") = {}
  BY CountsAre
<1>3. Asked(s)["cpus"] = IF Given(s, "cpus") \cup Given(s, "tasks") = {} THEN {}
                         ELSE Times(OrOne(A), OrOne(B))
  BY AskedAre DEF Counts
<1> HIDE DEF A, B
<1>4. n \in Times(OrOne(A), OrOne(B)) <=> \E a \in OrOne(A) : \E b \in OrOne(B) : n = a * b
  BY DEF Times
<1>5. Given(s, "cpus") \cup Given(s, "tasks") = {} <=> A = {} /\ B = {}
  BY <1>1, <1>2
<1>6. n \in Asked(s)["cpus"] <=> /\ A # {} \/ B # {}
                                 /\ n \in Times(OrOne(A), OrOne(B))
  BY <1>3, <1>5
<1>7. QED
  BY <1>4, <1>6, Zenon DEF A, B

LEMMA AskedIsRead ==
    ASSUME NEW s, NEW res, Agrees(res, GivenIn(s)), NEW name \in Names,
           NEW n \in Asked(s)[name], name = "time" => n # Unlimited
    PROVE  res[name] = n \/ n = 0
<1>0. ValuesAreValid(GivenIn(s))
  BY DEF Agrees
<1>1. CASE name = "nodes" \/ name = "mem"
  <2>0. \E v \in Given(s, name) : n = AsNumber(v)
    <3>1. CASE name = "nodes"
      <4>1. n \in Asked(s)["nodes"]
        BY <3>1
      <4>2. n \in {AsNumber(v) : v \in Given(s, "nodes")}
        BY <4>1, AskedAre
      <4>3. QED
        BY <3>1, <4>2
    <3>2. CASE name = "mem"
      <4>1. n \in Asked(s)["mem"]
        BY <3>2
      <4>2. n \in {InMegabytes(v) : v \in Given(s, "mem")}
        BY <4>1, AskedAre
      <4>3. PICK v \in Given(s, "mem") : n = InMegabytes(v)
        BY <4>2
      <4>4. InMegabytes(v) = AsNumber(v)
        BY <1>0, <4>3, GivenIsMeant
      <4>5. QED
        BY <3>2, <4>3, <4>4
    <3>3. QED
      BY <1>1, <3>1, <3>2
  <2>1. PICK v \in Given(s, name) : n = AsNumber(v)
    BY <2>0
  <2>2. v \in GivenIn(s)[name]
    BY <1>1, GivenInIs, OptionsAre
  <2>3. QED
    BY <1>1, <2>1, <2>2 DEF Agrees, NumberAgrees
<1>2. CASE name = "time"
  <2>0. Asked(s)[name] = {TimeAsked(v) : v \in Given(s, "time")}
    BY <1>2, AskedAre
  <2>1. PICK v \in Given(s, "time") : n = TimeAsked(v)
    BY <2>0
  <2>2. n = IF v = Empty THEN 0 ELSE ParseDuration(v)
    BY <1>0, <1>2, <2>1, GivenIsMeant
  <2>3. v \in GivenIn(s)["time"]
    BY <2>1, GivenInIs, OptionsAre
  <2>4. QED
    BY <1>2, <2>2, <2>3 DEF Agrees, TimeAgrees
<1>3. CASE name = "cpus"
  <2> DEFINE A == Counts(s, "cpus")
             B == Counts(s, "tasks")
  <2>0. n \in Asked(s)["cpus"]
    BY <1>3
  <2>1. (A # {} \/ B # {}) /\ \E a \in OrOne(A) : \E b \in OrOne(B) : n = a * b
    <3>1. \A m : m \in Asked(s)["cpus"] =>
                  (A # {} \/ B # {}) /\ \E a \in OrOne(A) : \E b \in OrOne(B) : m = a * b
      BY AskedCPUs
    <3>2. QED
      BY <2>0, <3>1, Zenon
  <2>2. PICK a \in OrOne(A) : \E b \in OrOne(B) : n = a * b
    BY <2>1
  <2>3. PICK b \in OrOne(B) : n = a * b
    BY <2>2
  <2>4. A \subseteq Nat /\ B \subseteq Nat
    BY <1>0, GivenIsMeant, CountsAre
  <2>5. /\ GivenIn(s)["cpus"] = Given(s, "cpus") /\ GivenIn(s)["tasks"] = Given(s, "tasks")
        /\ CPUsAgree(res, GivenIn(s))
    BY GivenInIs, OptionsAre DEF Agrees
  <2>6. CASE A = {}
    <3>1. Given(s, "cpus") = {} /\ a = 1 /\ b \in B
      BY <2>1, <2>2, <2>3, <2>6, CountsAre DEF OrOne
    <3>2. PICK w \in Given(s, "tasks") : b = AsNumber(w)
      BY <3>1, CountsAre
    <3>3. res.cpus = b
      BY <2>5, <3>1, <3>2 DEF CPUsAgree
    <3>4. b \in Nat
      BY <2>4, <3>1
    <3>5. QED
      BY <1>3, <2>3, <3>1, <3>3, <3>4, Commutes
  <2>7. CASE B = {}
    <3>1. Given(s, "tasks") = {} /\ b = 1 /\ a \in A
      BY <2>1, <2>2, <2>3, <2>7, CountsAre DEF OrOne
    <3>2. PICK w \in Given(s, "cpus") : a = AsNumber(w)
      BY <3>1, CountsAre
    <3>3. res.cpus = a
      BY <2>5, <3>1, <3>2 DEF CPUsAgree
    <3>4. a \in Nat
      BY <2>4, <3>1
    <3>5. QED
      BY <1>3, <2>3, <3>1, <3>3, <3>4, Commutes
  <2>8. CASE A # {} /\ B # {}
    <3>1. a \in A /\ b \in B
      BY <2>2, <2>3, <2>8 DEF OrOne
    <3>2. PICK v \in Given(s, "cpus") : a = AsNumber(v)
      BY <3>1, CountsAre
    <3>3. PICK w \in Given(s, "tasks") : b = AsNumber(w)
      BY <3>1, CountsAre
    <3>4. a \in Nat /\ b \in Nat
      BY <2>4, <3>1
    <3>5. n # 0 => a # 0 /\ b # 0
      BY <2>3, <3>4
    <3>6. n # 0 => res.cpus = AsNumber(v) * AsNumber(w)
      BY <2>5, <3>2, <3>3, <3>5, Zenon DEF CPUsAgree
    <3>7. QED
      BY <1>3, <2>3, <3>2, <3>3, <3>6
  <2>9. QED
    BY <2>6, <2>7, <2>8
<1>4. QED
  BY <1>1, <1>2, <1>3, NamesAre

LEMMA ReadIsAsked ==
    ASSUME NEW s, NEW res, Agrees(res, GivenIn(s)), CountsArePositive(s), NEW name \in Names,
           res[name] # 0
    PROVE  res[name] \in Asked(s)[name]
<1>0. ValuesAreValid(GivenIn(s))
  BY DEF Agrees
<1>1. CASE name = "nodes" \/ name = "mem"
  <2>1. GivenIn(s)[name] # {} /\ \A v \in GivenIn(s)[name] : res[name] = AsNumber(v)
    BY <1>1 DEF Agrees, NumberAgrees
  <2>2. PICK v \in Given(s, name) : res[name] = AsNumber(v)
    BY <1>1, <2>1, GivenInIs, OptionsAre
  <2>3. QED
    BY <1>0, <1>1, <2>2, AskedAre, GivenIsMeant
<1>2. CASE name = "time"
  <2>1. /\ GivenIn(s)["time"] # {}
        /\ \A v \in GivenIn(s)["time"] : res.time = IF v = Empty THEN 0 ELSE ParseDuration(v)
    BY <1>2 DEF Agrees, TimeAgrees
  <2>2. PICK v \in Given(s, "time") : res.time = IF v = Empty THEN 0 ELSE ParseDuration(v)
    BY <1>2, <2>1, GivenInIs, OptionsAre
  <2>3. TimeAsked(v) = res.time
    BY <1>0, <1>2, <2>2, GivenIsMeant
  <2>4. QED
    BY <1>2, <2>2, <2>3, AskedAre
<1>3. CASE name = "cpus"
  <2> DEFINE A == Counts(s, "cpus")
             B == Counts(s, "tasks")
  <2>1. \A a \in OrOne(A) : \A b \in OrOne(B) :
          (A # {} \/ B # {}) => a * b \in Asked(s)["cpus"]
    BY AskedCPUs, Zenon
  <2>2. A \subseteq Nat /\ B \subseteq Nat
    BY <1>0, GivenIsMeant, CountsAre
  <2>3. /\ GivenIn(s)["cpus"] = Given(s, "cpus") /\ GivenIn(s)["tasks"] = Given(s, "tasks")
        /\ CPUsAgree(res, GivenIn(s))
    BY GivenInIs, OptionsAre DEF Agrees
  <2>4. CASE Given(s, "cpus") = {} /\ Given(s, "tasks") = {}
    BY <1>3, <2>3, <2>4 DEF CPUsAgree
  <2>5. CASE Given(s, "cpus") = {} /\ Given(s, "tasks") # {}
    <3>1. PICK w \in Given(s, "tasks") : TRUE
      BY <2>5
    <3>2. res.cpus = AsNumber(w)
      BY <2>3, <2>5, <3>1 DEF CPUsAgree
    <3>3. AsNumber(w) \in B /\ 1 \in OrOne(A)
      BY <2>5, <3>1, CountsAre DEF OrOne
    <3>4. AsNumber(w) \in OrOne(B) /\ B # {}
      BY <3>3 DEF OrOne
    <3>5. 1 * AsNumber(w) \in Asked(s)["cpus"]
      BY <2>1, <3>3, <3>4, Zenon
    <3>6. QED
      BY <1>3, <2>2, <3>2, <3>3, <3>5, Commutes
  <2>6. CASE Given(s, "cpus") # {} /\ Given(s, "tasks") = {}
    <3>1. PICK w \in Given(s, "cpus") : TRUE
      BY <2>6
    <3>2. res.cpus = AsNumber(w)
      BY <2>3, <2>6, <3>1 DEF CPUsAgree
    <3>3. AsNumber(w) \in A /\ 1 \in OrOne(B)
      BY <2>6, <3>1, CountsAre DEF OrOne
    <3>4. AsNumber(w) \in OrOne(A) /\ A # {}
      BY <3>3 DEF OrOne
    <3>5. AsNumber(w) * 1 \in Asked(s)["cpus"]
      BY <2>1, <3>3, <3>4, Zenon
    <3>6. QED
      BY <1>3, <2>2, <3>2, <3>3, <3>5, Commutes
  <2>7. CASE Given(s, "cpus") # {} /\ Given(s, "tasks") # {}
    <3>1. PICK v \in Given(s, "cpus") : TRUE
      BY <2>7
    <3>2. PICK w \in Given(s, "tasks") : TRUE
      BY <2>7
    <3>3. AsNumber(v) # 0 /\ AsNumber(w) # 0
      BY <3>1, <3>2 DEF CountsArePositive
    <3>4. res.cpus = AsNumber(v) * AsNumber(w)
      BY <2>3, <3>1, <3>2, <3>3, Zenon DEF CPUsAgree
    <3>5. AsNumber(v) \in A /\ AsNumber(w) \in B
      BY <3>1, <3>2, CountsAre
    <3>6. AsNumber(v) \in OrOne(A) /\ AsNumber(w) \in OrOne(B) /\ A # {}
      BY <3>5 DEF OrOne
    <3>7. AsNumber(v) * AsNumber(w) \in Asked(s)["cpus"]
      BY <2>1, <3>6, Zenon
    <3>8. QED
      BY <1>3, <3>4, <3>7
  <2>8. QED
    BY <2>4, <2>5, <2>6, <2>7
<1>4. QED
  BY <1>1, <1>2, <1>3, NamesAre

----------------------------------------------------------------------------
(* The limits of the labels are those of the partition *)

LEMMA Quotient ==
    ASSUME NEW a \in Nat, NEW b \in Nat \ {0}
    PROVE  a \div b \in Nat /\ a \div b <= a
OBVIOUS

LEMMA ClusterTypes ==
    ASSUME NEW c \in Clusters, NEW config \in Configs
    PROVE  /\ c.maxTime \in Limit /\ c.maxCPUsPerNode \in Limit /\ c.maxMemPerNode \in Limit
           /\ c.maxNodes \in Limit /\ c.totalNodes \in Nat \ {0} /\ c.totalCPUs \in Nat
           /\ config.manual \in [Names -> Nat]
           /\ c.totalCPUs \div c.totalNodes \in Nat
           /\ c.totalCPUs \div c.totalNodes <= c.totalCPUs
BY InputsAssumption, Quotient

LEMMA WithinMeansHas ==
    ASSUME NEW c \in Clusters, NEW config \in Configs, NEW name \in Names, NEW n \in Nat \ {0},
           n <= Resources(c, config)[name], LimitsAreWithin
    PROVE  \/ Has(c, config, name, n)
           \/ /\ name = "cpus" /\ c.maxCPUsPerNode = Unlimited /\ ~IsConfigured(config, "cpus")
              /\ n > c.totalCPUs \div c.totalNodes
<1>1. Resources(c, config)[name] =
        IF IsConfigured(config, name) THEN config.manual[name] ELSE ParseResources(c)[name]
  BY LabelsType
<1>2. CASE IsConfigured(config, name)
  BY <1>1, <1>2 DEF Has, IsWithin, Unlimited
<1>3. CASE ~IsConfigured(config, name)
  <2>1. n <= ParseResources(c)[name]
    BY <1>1, <1>3
  <2>2. /\ c.maxCPUsPerNode <= c.totalCPUs \div c.totalNodes /\ c.maxNodes <= c.totalNodes
    BY DEF LimitsAreWithin
  <2>3. CASE name = "time"
    BY <1>3, <2>1, <2>3, ClusterTypes DEF Has, ParseResources, IsWithin, Limit, Unlimited
  <2>4. CASE name = "mem"
    BY <1>3, <2>1, <2>4, ClusterTypes DEF Has, ParseResources, IsWithin, Limit, Unlimited
  <2>5. CASE name = "nodes"
    <3>1. n <= OrTotal(c.maxNodes, c.totalNodes)
      BY <2>1, <2>5 DEF ParseResources
    <3>2. IsWithin(n, c.maxNodes) /\ n <= c.totalNodes
      BY <2>2, <3>1, ClusterTypes DEF OrTotal, IsWithin, Limit, Unlimited
    <3>3. QED
      BY <1>3, <2>5, <3>2 DEF Has
  <2>6. CASE name = "cpus"
    <3>1. n <= OrTotal(c.maxCPUsPerNode, c.totalCPUs)
      BY <2>1, <2>6 DEF ParseResources
    <3> DEFINE q == c.totalCPUs \div c.totalNodes
    <3>2. q \in Nat /\ c.maxCPUsPerNode <= q /\ c.maxCPUsPerNode \in Limit
      BY <2>2, ClusterTypes
    <3>3. Has(c, config, name, n) <=> IsWithin(n, c.maxCPUsPerNode) /\ n <= q
      BY <1>3, <2>6 DEF Has
    <3> HIDE DEF q
    <3>4. CASE c.maxCPUsPerNode = Unlimited
      <4>1. n <= q \/ n > q
        BY <3>2
      <4>2. QED
        BY <1>3, <2>6, <3>3, <3>4, <4>1 DEF IsWithin, q
    <3>5. CASE c.maxCPUsPerNode # Unlimited
      <4>1. n <= c.maxCPUsPerNode /\ n <= q
        BY <3>1, <3>2, <3>5 DEF OrTotal, Limit
      <4>2. QED
        BY <3>3, <4>1 DEF IsWithin, Unlimited
    <3>6. QED
      BY <3>4, <3>5
  <2>7. QED
    BY <2>3, <2>4, <2>5, <2>6, NamesAre
<1>4. QED
  BY <1>2, <1>3

LEMMA BeyondMeansHasNot ==
    ASSUME NEW c \in Clusters, NEW config \in Configs, NEW name \in Names, NEW n \in Nat \ {0},
           Resources(c, config)[name] < n
    PROVE  \/ ~Has(c, config, name, n)
           \/ name = "time" /\ c.maxTime = Unlimited /\ ~IsConfigured(config, "time")
           \/ name = "mem" /\ c.maxMemPerNode = Unlimited /\ ~IsConfigured(config, "mem")
<1>1. Resources(c, config)[name] =
        IF IsConfigured(config, name) THEN config.manual[name] ELSE ParseResources(c)[name]
  BY LabelsType
<1>2. CASE IsConfigured(config, name)
  BY <1>1, <1>2, ClusterTypes DEF Has, IsWithin, Unlimited
<1>3. CASE ~IsConfigured(config, name)
  <2>1. ParseResources(c)[name] < n
    BY <1>1, <1>3
  <2>2. CASE name = "time"
    BY <1>3, <2>1, <2>2, ClusterTypes DEF Has, ParseResources, IsWithin, Limit, Unlimited
  <2>3. CASE name = "mem"
    BY <1>3, <2>1, <2>3, ClusterTypes DEF Has, ParseResources, IsWithin, Limit, Unlimited
  <2>4. CASE name = "nodes"
    <3>1. OrTotal(c.maxNodes, c.totalNodes) < n
      BY <2>1, <2>4 DEF ParseResources
    <3>2. ~(IsWithin(n, c.maxNodes) /\ n <= c.totalNodes)
      BY <3>1, ClusterTypes DEF OrTotal, IsWithin, Limit, Unlimited
    <3>3. QED
      BY <1>3, <2>4, <3>2 DEF Has
  <2>5. CASE name = "cpus"
    <3>1. OrTotal(c.maxCPUsPerNode, c.totalCPUs) < n
      BY <2>1, <2>5 DEF ParseResources
    <3> DEFINE q == c.totalCPUs \div c.totalNodes
    <3>2. q \in Nat /\ q <= c.totalCPUs /\ c.maxCPUsPerNode \in Limit /\ c.totalCPUs \in Nat
      BY ClusterTypes
    <3>3. Has(c, config, name, n) <=> IsWithin(n, c.maxCPUsPerNode) /\ n <= q
      BY <1>3, <2>5 DEF Has
    <3> HIDE DEF q
    <3>4. ~(IsWithin(n, c.maxCPUsPerNode) /\ n <= q)
      BY <3>1, <3>2 DEF OrTotal, IsWithin, Limit, Unlimited
    <3>5. QED
      BY <3>3, <3>4
  <2>6. QED
    BY <2>2, <2>3, <2>4, <2>5, NamesAre
<1>4. QED
  BY <1>2, <1>3

----------------------------------------------------------------------------
(* The scheduler compares what was read with what was labelled *)

LabelInv ==
    /\ state \in {"labelled", "scheduled", "pending"} =>
         labels = Resources(input.cluster, input.config)
    /\ state = "scheduled" => IsMatch
    /\ state = "pending" => ~IsMatch

LEMMA LabelsStay ==
    ASSUME LabelInv, [Next]_vars
    PROVE  LabelInv'
<1>1. CASE NextLine \/ ReadParam \/ RefuseParam \/ Panic \/ ScriptRead
  BY <1>1 DEF NextLine, ReadParam, RefuseParam, Panic, ScriptRead, LabelInv
<1>2. CASE LabelNode
  BY <1>2 DEF LabelNode, LabelInv
<1>3. CASE Schedule
  <2>1. IsMatch' = IsMatch
    BY <1>3 DEF Schedule, IsMatch, IsRequired
  <2>2. QED
    BY <1>3, <2>1 DEF Schedule, LabelInv
<1>4. CASE Done \/ UNCHANGED vars
  <2>1. UNCHANGED <<resources, labels, state, input>>
    BY <1>4 DEF Done, vars
  <2>2. IsMatch' = IsMatch
    BY <2>1 DEF IsMatch, IsRequired
  <2>3. QED
    BY <2>1, <2>2 DEF LabelInv
<1>5. QED
  BY <1>1, <1>2, <1>3, <1>4 DEF Next

JobInv == ReadInv /\ LabelInv

LEMMA JobInvariant == Spec => []JobInv
<1>1. Init => LabelInv
  BY DEF Init, LabelInv
<1>2. LabelInv /\ [Next]_vars => LabelInv'
  BY LabelsStay
<1>3. QED
  BY <1>1, <1>2, ReadInvariant, PTL DEF Spec, JobInv

OptionsAreGivenOnce == \A s \in Scripts : GivesOptionsOnce(s)

LEMMA ScriptIsOrdinary ==
    ASSUME InputOK, OptionsAreGivenOnce, ~IsMisread
    PROVE  IsOrdinary(input.script) /\ ~IsCutShort(input.script)
BY ContainerIsOrdinary DEF InputOK, AllScripts, OptionsAreGivenOnce, IsOrdinary, IsMisread

LEMMA ScheduledFits ==
    ASSUME JobInv, OptionsAreGivenOnce, LimitsAreWithin, state = "scheduled", ~IsMisread,
           NEW name \in Names
    PROVE  \/ IsEnough(name)
           \/ name = "cpus" /\ AreCPUsUnlimited
           \/ name = "time" /\ AsksForNoTimeLimit
<1>1. /\ InputOK /\ TypeOK /\ IsOrdinary(input.script) /\ ~IsCutShort(input.script) /\ IsMatch
      /\ labels = Resources(input.cluster, input.config)
      /\ input.cluster \in Clusters /\ input.config \in Configs
  BY ScriptIsOrdinary DEF JobInv, ReadInv, ParserInv, LabelInv, InputOK
<1>2. Agrees(resources, GivenIn(input.script))
  BY <1>1, ResourcesAgree DEF JobInv, IsRead
<1> SUFFICES ASSUME ~(name = "cpus" /\ AreCPUsUnlimited), ~(name = "time" /\ AsksForNoTimeLimit),
                    NEW n \in Asked(input.script)[name], n # 0
             PROVE  Has(input.cluster, input.config, name, n)
  BY DEF IsEnough
<1>3. resources[name] = n
  <2>1. name = "time" => n # Unlimited
    BY DEF AsksForNoTimeLimit
  <2>2. QED
    BY <1>2, <2>1, AskedIsRead
<1>4. resources[name] \in Nat /\ labels[name] \in Int
  BY <1>1, NamesAre DEF TypeOK, Unlimited
<1>5. n <= labels[name]
  <2>1. labels[name] > n - 1
    BY <1>1, <1>3 DEF IsMatch, IsRequired, Bound
  <2>2. QED
    BY <1>3, <1>4, <2>1
<1>6. \/ Has(input.cluster, input.config, name, n)
      \/ /\ name = "cpus" /\ input.cluster.maxCPUsPerNode = Unlimited
         /\ ~IsConfigured(input.config, "cpus")
         /\ n > input.cluster.totalCPUs \div input.cluster.totalNodes
  BY <1>1, <1>3, <1>4, <1>5, WithinMeansHas
<1>7. QED
  BY <1>6 DEF AreCPUsUnlimited

(* What Slurm reads of a container's script is what the request says.      *)
LEMMA ContainerIsGiven ==
    ASSUME NEW request \in Requests, NEW o \in Options
    PROVE  Given(ContainerScript(request), o) = GivenFor(request)[o]
<1> DEFINE s == ContainerScript(request)
           t == ContainerOptions(request)
           given == GivenFor(request)
<1>1. Gives(t, given) /\ Heading(s) = DOMAIN t /\ \A l \in DOMAIN t : s[l] = t[l]
  BY ContainerHeading
<1>2. \A name \in Options : given[name] \subseteq Values
  BY GivenForValues
<1> HIDE DEF s, t, given
<1>3. ASSUME NEW v \in Given(s, o) PROVE v \in given[o]
  <2>1. PICK d \in Directives(s) : \E i \in DOMAIN d : d[i].name = o /\ v = ValueOf(d, i)
    BY <1>3 DEF Given, GivesOne
  <2>2. PICK i \in DOMAIN d : d[i].name = o /\ v = ValueOf(d, i)
    BY <2>1
  <2>3. PICK l \in DOMAIN t : d = t[l].tokens
    BY <1>1, <2>1 DEF Directives
  <2>4. t \in Seq(Lines)
    BY <1>1 DEF Gives
  <2>5. d \in Seq(Tokens)
    BY <2>3, <2>4, TokensOfLine
  <2>6. PICK name \in Options : \E w \in given[name] : IsOption(t[l], name, w)
    BY <1>1, <2>2, <2>3, <2>5 DEF Gives
  <2>7. PICK w \in given[name] : IsOption(t[l], name, w)
    BY <2>6
  <2>8. i = 1 /\ d[1] = Assignment(name, w)
    BY <2>2, <2>3, <2>5, <2>7 DEF IsOption
  <2>9. name = o /\ v = w
    BY <2>2, <2>8 DEF ValueOf, HoldsValue, Assignment, Token
  <2>10. QED
    BY <2>7, <2>9
<1>4. ASSUME NEW v \in given[o] PROVE v \in Given(s, o)
  <2>1. PICK l \in DOMAIN t : IsOption(t[l], o, v)
    BY <1>1, <1>4 DEF Gives
  <2>2. t \in Seq(Lines)
    BY <1>1 DEF Gives
  <2>3. t[l].tokens \in Directives(s)
    BY <1>1, <2>1 DEF Directives
  <2>4. t[l].tokens \in Seq(Tokens)
    BY <2>1, <2>2, TokensOfLine
  <2>5. 1 \in DOMAIN t[l].tokens /\ GivesOne(t[l].tokens, 1, o) /\ ValueOf(t[l].tokens, 1) = v
    <3>1. 1 \in DOMAIN t[l].tokens /\ t[l].tokens[1] = Assignment(o, v) /\ \A j \in 1..1 : j = 1
      BY <2>1, <2>4 DEF IsOption
    <3>2. Assignment(o, v).form = "assignment" /\ Assignment(o, v).name = o
          /\ Assignment(o, v).value = v
      BY DEF Assignment, Token
    <3>3. QED
      BY <3>1, <3>2 DEF GivesOne, IsArgument, ValueOf, HoldsValue
  <2>6. QED
    BY <2>3, <2>5 DEF Given
<1>5. QED
  BY <1>3, <1>4 DEF s, given

LEMMA ContainerCountsArePositive ==
    ASSUME NEW request \in Requests
    PROVE  CountsArePositive(ContainerScript(request))
<1>1. request["cpus"] \in Nat
  BY InputsAssumption
<1>2. ASSUME NEW name \in {"cpus", "tasks"}, NEW v \in GivenFor(request)[name]
      PROVE  AsNumber(v) # 0
  <2>1. name = "cpus" /\ request["cpus"] # 0 /\ v = Number(request["cpus"])
    BY <1>2, OptionsAre DEF GivenFor
  <2>2. QED
    BY <1>1, <2>1, ValuesAre DEF AsNumber
<1>3. QED
  BY <1>2, ContainerIsGiven, OptionsAre DEF CountsArePositive

PositiveCounts == \A s \in Scripts : CountsArePositive(s)

LEMMA ScriptCountsArePositive ==
    ASSUME InputOK, PositiveCounts
    PROVE  CountsArePositive(input.script)
BY ContainerCountsArePositive DEF InputOK, AllScripts, PositiveCounts

LEMMA PendingDoesNotFit ==
    ASSUME JobInv, OptionsAreGivenOnce, PositiveCounts, state = "pending", ~IsMisread
    PROVE  ~IsSuitable \/ IsTimeUnlimited \/ IsMemUnlimited
<1>1. /\ InputOK /\ TypeOK /\ IsOrdinary(input.script) /\ ~IsCutShort(input.script) /\ ~IsMatch
      /\ labels = Resources(input.cluster, input.config)
      /\ input.cluster \in Clusters /\ input.config \in Configs
  BY ScriptIsOrdinary DEF JobInv, ReadInv, ParserInv, LabelInv, InputOK
<1>2. Agrees(resources, GivenIn(input.script))
  BY <1>1, ResourcesAgree DEF JobInv, IsRead
<1>3. CountsArePositive(input.script)
  BY <1>1, ScriptCountsArePositive
<1>4. PICK name \in Names : resources[name] # 0 /\ ~(labels[name] > resources[name] - 1)
  BY <1>1 DEF IsMatch, IsRequired, Bound
<1>5. resources[name] \in Nat /\ labels[name] \in Int
  BY <1>1, NamesAre DEF TypeOK, Unlimited
<1> DEFINE n == resources[name]
<1>6. n \in Nat \ {0} /\ n \in Asked(input.script)[name] /\ labels[name] < n
  <2>1. n \in Asked(input.script)[name]
    BY <1>2, <1>3, <1>4, ReadIsAsked
  <2>2. QED
    BY <1>4, <1>5, <2>1
<1> HIDE DEF n
<1>7. \/ ~Has(input.cluster, input.config, name, n)
      \/ name = "time" /\ input.cluster.maxTime = Unlimited /\ ~IsConfigured(input.config, "time")
      \/ name = "mem" /\ input.cluster.maxMemPerNode = Unlimited
                      /\ ~IsConfigured(input.config, "mem")
  BY <1>1, <1>6, BeyondMeansHasNot
<1>8. CASE ~Has(input.cluster, input.config, name, n)
  BY <1>6, <1>8 DEF IsSuitable, IsEnough
<1>9. CASE name = "time" /\ input.cluster.maxTime = Unlimited /\ ~IsConfigured(input.config, "time")
  <2>1. n \in Asked(input.script).time /\ n \notin {Unlimited}
    BY <1>6, <1>9 DEF Unlimited
  <2>2. QED
    BY <1>9, <2>1 DEF IsTimeUnlimited
<1>10. CASE name = "mem" /\ input.cluster.maxMemPerNode = Unlimited
                         /\ ~IsConfigured(input.config, "mem")
  <2>1. n \in Asked(input.script).mem /\ n \notin {0}
    BY <1>6, <1>10
  <2>2. QED
    BY <1>10, <2>1 DEF IsMemUnlimited
<1>11. QED
  BY <1>7, <1>8, <1>9, <1>10

(* Where the scripts give each option once and no limit of a partition is  *)
(* above what its nodes have, a job is scheduled only on a partition that  *)
(* has all Slurm would read in its script: but for CPUs where those of a   *)
(* node are not limited, which parse.go of slurm takes from the partition; *)
(* but for time if the script asks for no limit, which the operator takes  *)
(* for no request; and unless the parser does not read the script as Slurm *)
(* does, because of a comment between directives or what is no pair.       *)
THEOREM ScheduledWhereItFits ==
    OptionsAreGivenOnce /\ LimitsAreWithin => (Spec => []OnlyOnSuitablePartition)
<1> SUFFICES ASSUME OptionsAreGivenOnce, LimitsAreWithin
             PROVE  Spec => []OnlyOnSuitablePartition
  OBVIOUS
<1>1. OptionsAreGivenOnce /\ LimitsAreWithin /\ JobInv => OnlyOnSuitablePartition
  BY ScheduledFits DEF OnlyOnSuitablePartition
<1>2. JobInv => OnlyOnSuitablePartition
  BY <1>1
<1>3. QED
  BY <1>2, JobInvariant, PTL

(* Where they also count CPUs and tasks from one, a job that stays pending *)
(* asks for more than the partition has, but where its time or its memory  *)
(* is not limited: the label of the virtual node then says 0 or -1. The    *)
(* parser has to read the script as Slurm does.                            *)
THEOREM PendingWhereItDoesNotFit ==
    OptionsAreGivenOnce /\ PositiveCounts => (Spec => []NotKeptFromSuitablePartition)
<1> SUFFICES ASSUME OptionsAreGivenOnce, PositiveCounts
             PROVE  Spec => []NotKeptFromSuitablePartition
  OBVIOUS
<1>1. OptionsAreGivenOnce /\ PositiveCounts /\ JobInv => NotKeptFromSuitablePartition
  BY PendingDoesNotFit DEF NotKeptFromSuitablePartition
<1>2. JobInv => NotKeptFromSuitablePartition
  BY <1>1
<1>3. QED
  BY <1>2, JobInvariant, PTL

----------------------------------------------------------------------------
(* The script of a container does what its request says *)

LEMMA ContainerAsksFor ==
    ASSUME NEW request \in Requests, NEW name \in Names
    PROVE  Asked(ContainerScript(request))[name] = {request[name]} \ {0}
<1> DEFINE s == ContainerScript(request)
           n == request[name]
<1>1. n \in Nat
  BY InputsAssumption, NamesAre
<1>2. \A o \in Options : Given(s, o) = GivenFor(request)[o]
  BY ContainerIsGiven
<1>3. /\ Given(s, "tasks") = {}
      /\ Given(s, name) = IF n = 0 THEN {}
                          ELSE {IF name = "time" THEN Time(n) ELSE Number(n)}
  <2>1. name \in Options /\ "tasks" \in Options /\ name # "tasks"
    BY NamesAre, OptionsAre
  <2>2. GivenFor(request)["tasks"] = {}
    BY <2>1 DEF GivenFor
  <2>3. GivenFor(request)[name] = IF n = 0 THEN {}
                                  ELSE {IF name = "time" THEN Time(n) ELSE Number(n)}
    BY <2>1 DEF GivenFor
  <2>4. QED
    BY <1>2, <2>1, <2>2, <2>3
<1>4. /\ AsNumber(Number(n)) = n /\ InMegabytes(Number(n)) = n
      /\ n # 0 => TimeAsked(Time(n)) = n
  <2>1. /\ Number(n).fields = <<n>> /\ Time(n) \in Values /\ Time(n).fields = <<0, n>>
        /\ Time(n).dash = FALSE /\ Time(n).mark = "none" /\ Number(n).mark = "none"
    BY <1>1, ValuesAre DEF Time, Value
  <2>2. AsNumber(Number(n)) = n /\ InMegabytes(Number(n)) = n
    BY <2>1 DEF AsNumber, InMegabytes
  <2>3. IsDuration(Time(n))
    BY <2>1 DEF IsDuration
  <2>4. ParseDuration(Time(n)) = n
    BY <1>1, <2>1 DEF ParseDuration, Field, Minute, Hour
  <2>5. Time(n) # Empty /\ Time(n) # Infinite
    BY <2>1 DEF Empty, Value, Infinite, Marked
  <2>6. n # 0 => TimeAsked(Time(n)) = n
    <3>1. AsSeconds(Time(n)) = n
      BY <2>1, <2>3, <2>4, SecondsAre
    <3>2. QED
      BY <2>5, <3>1 DEF TimeAsked
  <2>7. QED
    BY <2>2, <2>6
<1> HIDE DEF s, n
<1>5. CASE name = "nodes" \/ name = "mem"
  <2>1. \/ Asked(s)[name] = {AsNumber(v) : v \in Given(s, name)}
        \/ Asked(s)[name] = {InMegabytes(v) : v \in Given(s, name)}
    BY <1>5, AskedAre
  <2>2. Given(s, name) = IF n = 0 THEN {} ELSE {Number(n)}
    BY <1>3, <1>5
  <2>3. Asked(s)[name] = {n} \ {0}
    BY <1>4, <2>1, <2>2
  <2>4. QED
    BY <2>3 DEF s, n
<1>6. CASE name = "time"
  <2>1. Asked(s)[name] = {TimeAsked(v) : v \in Given(s, name)}
    BY <1>6, AskedAre
  <2>2. Given(s, name) = IF n = 0 THEN {} ELSE {Time(n)}
    BY <1>3, <1>6
  <2>3. Asked(s)[name] = {n} \ {0}
    BY <1>4, <2>1, <2>2
  <2>4. QED
    BY <2>3 DEF s, n
<1>7. CASE name = "cpus"
  <2>1. Counts(s, "tasks") = {}
    BY <1>3 DEF Counts
  <2>2. Counts(s, "cpus") = {n} \ {0}
    <3>1. Given(s, "cpus") = IF n = 0 THEN {} ELSE {Number(n)}
      BY <1>3, <1>7
    <3>2. QED
      BY <1>4, <3>1 DEF Counts
  <2>3. ASSUME NEW m PROVE m \in Asked(s)["cpus"] <=> m \in {n} \ {0}
    <3>1. m \in Asked(s)["cpus"] <=>
            /\ Counts(s, "cpus") # {} \/ Counts(s, "tasks") # {}
            /\ \E a \in OrOne(Counts(s, "cpus")) : \E b \in OrOne(Counts(s, "tasks")) : m = a * b
      BY AskedCPUs
    <3>2. CASE n = 0
      BY <2>1, <2>2, <3>1, <3>2
    <3>3. CASE n # 0
      <4>1. OrOne(Counts(s, "cpus")) = {n} /\ OrOne(Counts(s, "tasks")) = {1}
        BY <2>1, <2>2, <3>3 DEF OrOne
      <4>2. m \in Asked(s)["cpus"] <=> m = n * 1
        BY <2>2, <3>1, <3>3, <4>1
      <4>3. QED
        BY <1>1, <3>3, <4>2, Commutes DEF n
    <3>4. QED
      BY <3>2, <3>3
  <2>4. QED
    BY <1>7, <2>3 DEF s, n
<1>8. QED
  BY <1>5, <1>6, <1>7, NamesAre

LEMMA CommandsAre ==
    ASSUME NEW request \in Requests
    PROVE  LET c == ContainerCommands(request)
               check == IF request.local THEN "verify" ELSE "pull"
           IN  /\ Len(c) \in 1..3 /\ DOMAIN c = 1..Len(c)
               /\ \A k \in DOMAIN c : c[k].kind = "command"
               /\ ~request.unsigned => /\ Len(c) > 1 /\ c[1].tokens[1].name = check
                                       /\ c[2].tokens[1].name = "run"
                                       /\ Len(c) = 3 => c[3].tokens[1].name = "rm"
               /\ ~request.local => Len(c) = 3 /\ c[3].tokens[1].name = "rm"
<1> DEFINE c == ContainerCommands(request)
<1>1. \A command : Run(command).kind = "command" /\ Run(command).tokens[1].name = command
  BY DEF Run, Word, Token
<1>2. CASE request.local /\ request.unsigned
  <2>1. c = <<Run("run")>>
    BY <1>2 DEF ContainerCommands, LocalImage
  <2>2. QED
    BY <1>1, <1>2, <2>1
<1>3. CASE request.local /\ ~request.unsigned
  <2>1. c = <<Run("verify"), Run("run")>>
    BY <1>3 DEF ContainerCommands, LocalImage
  <2>2. QED
    BY <1>1, <1>3, <2>1
<1>4. CASE ~request.local
  <2>1. c = <<Run(IF request.unsigned THEN "pull -U" ELSE "pull"), Run("run"), Run("rm")>>
    BY <1>4 DEF ContainerCommands, RemoteImage
  <2> DEFINE pull == Run(IF request.unsigned THEN "pull -U" ELSE "pull")
  <2>2. c = <<pull, Run("run"), Run("rm")>>
    BY <2>1
  <2> HIDE DEF c, pull
  <2>3. Len(c) = 3 /\ DOMAIN c = 1..3 /\ c[1] = pull /\ c[2] = Run("run") /\ c[3] = Run("rm")
    BY <2>2
  <2>4. \A k \in DOMAIN c : c[k].kind = "command"
    <3>1. c[1].kind = "command" /\ c[2].kind = "command" /\ c[3].kind = "command"
      BY <1>1, <2>3 DEF pull
    <3>2. \A k \in DOMAIN c : k = 1 \/ k = 2 \/ k = 3
      BY <2>3
    <3>3. QED
      BY <3>1, <3>2
  <2>5. /\ ~request.unsigned => c[1].tokens[1].name = "pull"
        /\ c[2].tokens[1].name = "run" /\ c[3].tokens[1].name = "rm"
    BY <1>1, <2>3 DEF pull
  <2>6. QED
    BY <1>4, <2>3, <2>4, <2>5 DEF c
<1>5. QED
  BY <1>2, <1>3, <1>4

(* A command runs if no failing one precedes it.                           *)
IsExecuted(s, failing, k) ==
    /\ s[k].kind = "command"
    /\ \A j \in 1..(k - 1) : s[j].kind = "command" => s[j].tokens[1].name \notin failing

LEMMA ExecutedAre ==
    ASSUME NEW request \in Requests, NEW failing, NEW command
    PROVE  command \in Executed(ContainerScript(request), failing) <=>
             \E k \in DOMAIN ContainerCommands(request) :
               /\ command = ContainerCommands(request)[k].tokens[1].name
               /\ \A j \in 1..(k - 1) :
                    ContainerCommands(request)[j].tokens[1].name \notin failing
<1> DEFINE s == ContainerScript(request)
           o == ContainerOptions(request)
           c == ContainerCommands(request)
<1>1. /\ o \in Seq(Lines) /\ c \in Seq(Lines) /\ c # <<>> /\ c[1].kind = "command" /\ s = o \o c
      /\ \A l \in DOMAIN o : o[l].kind # "command"
  BY ContainerIsScript, CommandsComeFirst, ContainerHeading DEF Gives
<1>2. \A k \in DOMAIN c : c[k].kind = "command"
  BY CommandsAre
<1>3. command \in Executed(s, failing) <=>
        \E k \in DOMAIN s : IsExecuted(s, failing, k) /\ command = s[k].tokens[1].name
  BY DEF Executed, IsExecuted
<1> HIDE DEF s, o, c
<1>4. /\ \A l \in DOMAIN o : s[l] = o[l]
      /\ \A l \in DOMAIN c : s[Len(o) + l] = c[l]
      /\ DOMAIN s = 1..(Len(o) + Len(c))
  BY <1>1, HeadingOfBoth
<1>5. Len(o) \in Nat /\ Len(c) \in Nat /\ DOMAIN o = 1..Len(o) /\ DOMAIN c = 1..Len(c)
  BY <1>1
<1>6. ASSUME NEW k \in DOMAIN c
      PROVE  IsExecuted(s, failing, Len(o) + k) <=> \A j \in 1..(k - 1) : c[j].tokens[1].name \notin failing
  <2>1. s[Len(o) + k].kind = "command"
    BY <1>2, <1>4
  <2>2. ASSUME IsExecuted(s, failing, Len(o) + k), NEW j \in 1..(k - 1) PROVE c[j].tokens[1].name \notin failing
    <3>1. Len(o) + j \in 1..(Len(o) + k - 1) /\ j \in DOMAIN c
      BY <1>5
    <3>2. s[Len(o) + j] = c[j] /\ c[j].kind = "command"
      BY <1>2, <1>4, <3>1
    <3>3. \A i \in 1..(Len(o) + k - 1) : s[i].kind = "command" => s[i].tokens[1].name \notin failing
      BY <1>5, <2>2 DEF IsExecuted
    <3>4. QED
      BY <3>1, <3>2, <3>3
  <2>3. ASSUME \A j \in 1..(k - 1) : c[j].tokens[1].name \notin failing,
               NEW i \in 1..(Len(o) + k - 1), s[i].kind = "command"
        PROVE  s[i].tokens[1].name \notin failing
    <3>1. i \notin DOMAIN o
      BY <1>1, <1>4, <2>3
    <3>2. i - Len(o) \in 1..(k - 1) /\ i - Len(o) \in DOMAIN c /\ i = Len(o) + (i - Len(o))
      BY <1>5, <3>1
    <3>3. s[i] = c[i - Len(o)]
      BY <1>4, <3>2
    <3>4. QED
      BY <2>3, <3>2, <3>3
  <2>4. (\A j \in 1..(k - 1) : c[j].tokens[1].name \notin failing) => IsExecuted(s, failing, Len(o) + k)
    BY <1>5, <2>1, <2>3 DEF IsExecuted
  <2>5. IsExecuted(s, failing, Len(o) + k) => \A j \in 1..(k - 1) : c[j].tokens[1].name \notin failing
    BY <2>2
  <2>6. QED
    BY <2>4, <2>5
<1>7. ASSUME NEW i \in DOMAIN s, IsExecuted(s, failing, i) PROVE i - Len(o) \in DOMAIN c /\ i = Len(o) + (i - Len(o))
  <2>1. i \notin DOMAIN o
    BY <1>1, <1>4, <1>7 DEF IsExecuted
  <2>2. QED
    BY <1>4, <1>5, <2>1
<1>8. ASSUME command \in Executed(s, failing)
      PROVE  \E k \in DOMAIN c : /\ command = c[k].tokens[1].name
                                 /\ \A j \in 1..(k - 1) : c[j].tokens[1].name \notin failing
  <2>1. PICK i \in DOMAIN s : IsExecuted(s, failing, i) /\ command = s[i].tokens[1].name
    BY <1>3, <1>8
  <2>2. PICK k \in DOMAIN c : i = Len(o) + k
    BY <1>7, <2>1
  <2>3. QED
    BY <1>4, <1>6, <2>1, <2>2
<1>9. ASSUME NEW k \in DOMAIN c, command = c[k].tokens[1].name,
             \A j \in 1..(k - 1) : c[j].tokens[1].name \notin failing
      PROVE  command \in Executed(s, failing)
  <2>1. IsExecuted(s, failing, Len(o) + k) /\ s[Len(o) + k] = c[k]
    BY <1>4, <1>6, <1>9
  <2>2. Len(o) + k \in DOMAIN s
    BY <1>4, <1>5
  <2>3. QED
    BY <1>3, <1>9, <2>1, <2>2
<1>10. QED
  BY <1>8, <1>9 DEF s, c

LEMMA ContainerRuns ==
    ASSUME NEW request \in Requests, NEW failing \in SUBSET Commands
    PROVE  LET done == Executed(ContainerScript(request), failing)
           IN  /\ "run" \in done /\ ~request.unsigned =>
                     \E check \in {"verify", "pull"} : check \in done \ failing
               /\ failing = {} /\ ~request.local => "rm" \in done
<1> DEFINE done == Executed(ContainerScript(request), failing)
           c == ContainerCommands(request)
           Runs(k) == \A j \in 1..(k - 1) : c[j].tokens[1].name \notin failing
<1>1. \A command : command \in done <=>
        \E k \in DOMAIN c : command = c[k].tokens[1].name /\ Runs(k)
  BY ExecutedAre
<1> HIDE DEF done
<1>3. ASSUME "run" \in done, ~request.unsigned
      PROVE  \E check \in {"verify", "pull"} : check \in done \ failing
  <2> DEFINE check == IF request.local THEN "verify" ELSE "pull"
  <2>1. /\ Len(c) \in {2, 3} /\ DOMAIN c = 1..Len(c)
        /\ c[1].tokens[1].name = check /\ c[2].tokens[1].name = "run"
        /\ 3 \in DOMAIN c => c[3].tokens[1].name = "rm"
    BY <1>3, CommandsAre
  <2> HIDE DEF c
  <2>2. PICK k \in DOMAIN c : "run" = c[k].tokens[1].name /\ Runs(k)
    BY <1>1, <1>3
  <2>3. k = 2
    BY <2>1, <2>2
  <2>4. check \notin failing
    BY <2>1, <2>2, <2>3
  <2>5. 1 \in DOMAIN c /\ Runs(1)
    BY <2>1
  <2>6. check \in done
    BY <1>1, <2>1, <2>5
  <2>7. QED
    BY <2>4, <2>6
<1>4. ASSUME failing = {}, ~request.local PROVE "rm" \in done
  <2>1. 3 \in DOMAIN c /\ c[3].tokens[1].name = "rm"
    BY <1>4, CommandsAre
  <2>2. Runs(3)
    BY <1>4
  <2>3. QED
    BY <1>1, <2>1, <2>2
<1>5. QED
  BY <1>3, <1>4 DEF done

(* buildSLURMScript: for every request the script asks Slurm for what the  *)
(* request says and no more, and an image that has to be verified runs only*)
(* after a check of it that did not fail.                                  *)
THEOREM ContainerIsRunAsRequested == Spec => []ContainerScriptDoesAsRequested
<1>1. \A request \in Requests : \A name \in Names :
        Asked(ContainerScript(request))[name] = {request[name]} \ {0}
  BY ContainerAsksFor
<1>2. \A request \in Requests : \A failing \in SUBSET Commands :
        LET done == Executed(ContainerScript(request), failing)
        IN  /\ "run" \in done /\ ~request.unsigned =>
                  \E check \in {"verify", "pull"} : check \in done \ failing
            /\ failing = {} /\ ~request.local => "rm" \in done
  BY ContainerRuns
<1>3. ContainerScriptDoesAsRequested
  BY <1>1, <1>2 DEF ContainerScriptDoesAsRequested
<1>4. QED
  BY <1>3, PTL
=============================================================================
