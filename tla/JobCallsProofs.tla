--------------------------- MODULE JobCallsProofs ---------------------------
(***************************************************************************)
(* What red-box tells of jobs is true, and a job runs twice only if a      *)
(* submission failed for the client: JobCalls satisfies TypeOK,            *)
(* ReportedEndIsReal, DuplicatesOnlyAfterFailures and AnswersAreRight for  *)
(* job arrays of any size and any number of jobs and failures.             *)
(***************************************************************************)
EXTENDS JobCalls, SequenceTheorems, TLAPS

(***************************************************************************)
(* Reading what Slurm prints: a field is found wherever it stands among    *)
(* the words, if it stands there once.                                     *)
(***************************************************************************)

LEMMA OneField ==
    ASSUME NEW tag \in Tags, NEW block, NEW n \in Int, n \in DOMAIN block,
           IsField(block[n]), block[n][1] = tag,
           \A m \in DOMAIN block : IsField(block[m]) /\ block[m][1] = tag => m = n
    PROVE  SlurmFields(block)[tag] = block[n][2]
<1> DEFINE at(t) == {m \in DOMAIN block : IsField(block[m]) /\ block[m][1] = t}
<1>1. at(tag) = {n}
  BY Zenon
<1>2. Max({n}) = n
  BY DEF Max
<1>3. at(tag) # {}
  BY <1>1
<1>4. SlurmFields(block)[tag] = IF at(tag) = {} THEN "" ELSE block[Max(at(tag))][2]
  BY Zenon DEF SlurmFields
<1> HIDE DEF at
<1>5. QED
  BY <1>1, <1>2, <1>3, <1>4, Zenon

NoText == ""                        \* what a missing field is read as

LEMMA NoField ==
    ASSUME NEW tag \in Tags, NEW block,
           \A m \in DOMAIN block : ~(IsField(block[m]) /\ block[m][1] = tag)
    PROVE  SlurmFields(block)[tag] = NoText
<1> DEFINE at(t) == {m \in DOMAIN block : IsField(block[m]) /\ block[m][1] = t}
<1>1. at(tag) = {}
  BY Zenon
<1>2. SlurmFields(block)[tag] = IF at(tag) = {} THEN "" ELSE block[Max(at(tag))][2]
  BY Zenon DEF SlurmFields
<1>3. QED
  BY <1>1, <1>2, Zenon DEF NoText

LEMMA FiveWords ==
    ASSUME NEW a, NEW b, NEW c, NEW d, NEW e, NEW x, x = <<a>> \o <<b>> \o <<c, d, e>>
    PROVE  /\ DOMAIN x = 1..5
           /\ x[1] = a /\ x[2] = b /\ x[3] = c /\ x[4] = d /\ x[5] = e
<1> DEFINE S == {a, b, c, d, e}
<1>1. <<a>> \in Seq(S) /\ <<b>> \in Seq(S) /\ <<c, d, e>> \in Seq(S)
  OBVIOUS
<1>2. PICK y \in Seq(S) : y = <<a>> \o <<b>> /\ Len(y) = 2 /\ y[1] = a /\ y[2] = b
  <2> DEFINE y == <<a>> \o <<b>>
  <2>1. /\ y \in Seq(S) /\ Len(y) = Len(<<a>>) + Len(<<b>>)
        /\ y[1] = <<a>>[1] /\ y[2] = <<b>>[1]
    BY <1>1
  <2>2. Len(<<a>>) = 1 /\ Len(<<b>>) = 1 /\ <<a>>[1] = a /\ <<b>>[1] = b
    OBVIOUS
  <2> HIDE DEF y
  <2>3. Len(y) = 2 /\ y[1] = a /\ y[2] = b
    BY <2>1, <2>2
  <2>4. QED
    BY <2>1, <2>3, Zenon DEF y
<1>3. x = y \o <<c, d, e>>
  BY <1>2, Zenon
<1>4. QED
  BY <1>1, <1>2, <1>3

LEMMA SixWords ==
    ASSUME NEW a, NEW b, NEW c, NEW d, NEW e, NEW f, NEW x,
           x = <<a>> \o <<b, c>> \o <<d, e, f>>
    PROVE  /\ DOMAIN x = 1..6
           /\ x[1] = a /\ x[2] = b /\ x[3] = c /\ x[4] = d /\ x[5] = e /\ x[6] = f
<1> DEFINE S == {a, b, c, d, e, f}
<1>1. <<a>> \in Seq(S) /\ <<b, c>> \in Seq(S) /\ <<d, e, f>> \in Seq(S)
  OBVIOUS
<1>2. PICK y \in Seq(S) : y = <<a>> \o <<b, c>> /\ Len(y) = 3 /\ y[1] = a /\ y[2] = b /\ y[3] = c
  <2> DEFINE y == <<a>> \o <<b, c>>
  <2>1. /\ y \in Seq(S) /\ Len(y) = Len(<<a>>) + Len(<<b, c>>)
        /\ y[1] = <<a>>[1] /\ y[2] = <<b, c>>[1] /\ y[3] = <<b, c>>[2]
    BY <1>1
  <2>2. /\ Len(<<a>>) = 1 /\ Len(<<b, c>>) = 2
        /\ <<a>>[1] = a /\ <<b, c>>[1] = b /\ <<b, c>>[2] = c
    OBVIOUS
  <2> HIDE DEF y
  <2>3. Len(y) = 3 /\ y[1] = a /\ y[2] = b /\ y[3] = c
    BY <2>1, <2>2
  <2>4. QED
    BY <2>1, <2>3, Zenon DEF y
<1>3. x = y \o <<d, e, f>>
  BY <1>2, Zenon
<1>4. QED
  BY <1>1, <1>2, <1>3

(* A block: the id, one word or two of the name, and three fields. *)
LEMMA FiveWordBlock ==
    ASSUME NEW block, NEW i, NEW name, NEW state, NEW start, NEW limit,
           DOMAIN block = 1..5,
           block[1] = <<"JobId", i>>, IsField(name) => name[1] = "JobName",
           block[2] = name, block[3] = <<"JobState", state>>,
           block[4] = <<"StartTime", start>>, block[5] = <<"TimeLimit", limit>>
    PROVE  /\ SlurmFields(block)["JobId"] = i
           /\ SlurmFields(block)["JobState"] = state
           /\ SlurmFields(block)["StartTime"] = start
           /\ SlurmFields(block)["TimeLimit"] = limit
           /\ IsField(name) => SlurmFields(block)["JobName"] = name[2]
           /\ ~IsField(name) => SlurmFields(block)["JobName"] = NoText
<1>1. /\ IsField(block[1]) /\ block[1][1] = "JobId" /\ block[1][2] = i
      /\ IsField(block[3]) /\ block[3][1] = "JobState" /\ block[3][2] = state
      /\ IsField(block[4]) /\ block[4][1] = "StartTime" /\ block[4][2] = start
      /\ IsField(block[5]) /\ block[5][1] = "TimeLimit" /\ block[5][2] = limit
  BY DEF IsField
<1>2. \A m \in DOMAIN block : m = 1 \/ m = 2 \/ m = 3 \/ m = 4 \/ m = 5
  OBVIOUS
<1>3. /\ "JobId" \in Tags /\ "JobState" \in Tags /\ "StartTime" \in Tags
      /\ "TimeLimit" \in Tags /\ "JobName" \in Tags
      /\ 1 \in Int /\ 2 \in Int /\ 3 \in Int /\ 4 \in Int /\ 5 \in Int
      /\ 1 \in 1..5 /\ 2 \in 1..5 /\ 3 \in 1..5 /\ 4 \in 1..5 /\ 5 \in 1..5
  BY DEF Tags
<1>4. /\ \A m \in DOMAIN block : IsField(block[m]) /\ block[m][1] = "JobId" => m = 1
      /\ \A m \in DOMAIN block : IsField(block[m]) /\ block[m][1] = "JobState" => m = 3
      /\ \A m \in DOMAIN block : IsField(block[m]) /\ block[m][1] = "StartTime" => m = 4
      /\ \A m \in DOMAIN block : IsField(block[m]) /\ block[m][1] = "TimeLimit" => m = 5
      /\ \A m \in DOMAIN block : IsField(block[m]) /\ block[m][1] = "JobName" => m = 2
  BY <1>1, <1>2
<1>5. /\ SlurmFields(block)["JobId"] = i
      /\ SlurmFields(block)["JobState"] = state
      /\ SlurmFields(block)["StartTime"] = start
      /\ SlurmFields(block)["TimeLimit"] = limit
  BY <1>1, <1>3, <1>4, OneField
<1>6. IsField(name) => SlurmFields(block)["JobName"] = name[2]
  BY <1>3, <1>4, OneField
<1>7. ASSUME ~IsField(name) PROVE SlurmFields(block)["JobName"] = NoText
  <2>1. \A m \in DOMAIN block : ~(IsField(block[m]) /\ block[m][1] = "JobName")
    BY <1>4, <1>7
  <2>2. QED
    BY <1>3, <2>1, NoField, Zenon
<1>8. QED
  BY <1>5, <1>6, <1>7, Zenon

LEMMA SixWordBlock ==
    ASSUME NEW block, NEW i, NEW name, NEW word, NEW state, NEW start, NEW limit,
           DOMAIN block = 1..6,
           block[1] = <<"JobId", i>>, block[2] = <<"JobName", name>>, block[3] = <<word>>,
           block[4] = <<"JobState", state>>,
           block[5] = <<"StartTime", start>>, block[6] = <<"TimeLimit", limit>>
    PROVE  /\ SlurmFields(block)["JobId"] = i
           /\ SlurmFields(block)["JobName"] = name
           /\ SlurmFields(block)["JobState"] = state
           /\ SlurmFields(block)["StartTime"] = start
           /\ SlurmFields(block)["TimeLimit"] = limit
<1>1. /\ IsField(block[1]) /\ block[1][1] = "JobId" /\ block[1][2] = i
      /\ IsField(block[2]) /\ block[2][1] = "JobName" /\ block[2][2] = name
      /\ ~IsField(block[3])
      /\ IsField(block[4]) /\ block[4][1] = "JobState" /\ block[4][2] = state
      /\ IsField(block[5]) /\ block[5][1] = "StartTime" /\ block[5][2] = start
      /\ IsField(block[6]) /\ block[6][1] = "TimeLimit" /\ block[6][2] = limit
  BY DEF IsField
<1>2. \A m \in DOMAIN block : m = 1 \/ m = 2 \/ m = 3 \/ m = 4 \/ m = 5 \/ m = 6
  OBVIOUS
<1>3. /\ "JobId" \in Tags /\ "JobState" \in Tags /\ "StartTime" \in Tags
      /\ "TimeLimit" \in Tags /\ "JobName" \in Tags
      /\ 1 \in Int /\ 2 \in Int /\ 4 \in Int /\ 5 \in Int /\ 6 \in Int
      /\ 1 \in 1..6 /\ 2 \in 1..6 /\ 4 \in 1..6 /\ 5 \in 1..6 /\ 6 \in 1..6
  BY DEF Tags
<1>4. /\ \A m \in DOMAIN block : IsField(block[m]) /\ block[m][1] = "JobId" => m = 1
      /\ \A m \in DOMAIN block : IsField(block[m]) /\ block[m][1] = "JobName" => m = 2
      /\ \A m \in DOMAIN block : IsField(block[m]) /\ block[m][1] = "JobState" => m = 4
      /\ \A m \in DOMAIN block : IsField(block[m]) /\ block[m][1] = "StartTime" => m = 5
      /\ \A m \in DOMAIN block : IsField(block[m]) /\ block[m][1] = "TimeLimit" => m = 6
  BY <1>1, <1>2
<1>5. QED
  BY <1>1, <1>3, <1>4, OneField

(* What a name becomes: a blank cuts it, "=" makes it no field.            *)
ReadName(name) == IF name = "x y" THEN "x" ELSE IF name = "x=y" THEN NoText ELSE name

LEMMA PrintedFields ==
    ASSUME NEW job, NEW i, NEW planned
    PROVE  /\ SlurmFields(PrintRecord(job, i, planned))["JobId"] = i
           /\ SlurmFields(PrintRecord(job, i, planned))["JobName"] = ReadName(kind.name)
           /\ SlurmFields(PrintRecord(job, i, planned))["JobState"] = job.states[i]
           /\ SlurmFields(PrintRecord(job, i, planned))["StartTime"] = StartTime(job, i, planned)
           /\ SlurmFields(PrintRecord(job, i, planned))["TimeLimit"] = kind.limit
<1> DEFINE id == <<"JobId", i>>
           state == <<"JobState", job.states[i]>>
           start == <<"StartTime", StartTime(job, i, planned)>>
           limit == <<"TimeLimit", kind.limit>>
<1>1. PrintRecord(job, i, planned) = <<id>> \o NameWords \o <<state, start, limit>>
  BY Zenon DEF PrintRecord
<1>2. CASE kind.name = "x y"
  <2>1. NameWords = <<<<"JobName", "x">>, <<"y">>>>
    BY <1>2, Zenon DEF NameWords
  <2>2. PrintRecord(job, i, planned) = <<id>> \o <<<<"JobName", "x">>, <<"y">>>> \o <<state, start, limit>>
    BY <1>1, <2>1, Zenon
  <2> HIDE DEF id, state, start, limit
  <2>3. /\ DOMAIN PrintRecord(job, i, planned) = 1..6
        /\ PrintRecord(job, i, planned)[1] = id /\ PrintRecord(job, i, planned)[2] = <<"JobName", "x">>
        /\ PrintRecord(job, i, planned)[3] = <<"y">> /\ PrintRecord(job, i, planned)[4] = state
        /\ PrintRecord(job, i, planned)[5] = start /\ PrintRecord(job, i, planned)[6] = limit
    BY <2>2, SixWords
  <2> USE DEF id, state, start, limit
  <2>4. ReadName(kind.name) = "x"
    BY <1>2, Zenon DEF ReadName
  <2>5. QED
    BY <2>3, <2>4, SixWordBlock
<1>3. ASSUME NEW word, NameWords = <<word>>,
             IsField(word) => word[1] = "JobName" /\ word[2] = ReadName(kind.name),
             ~IsField(word) => ReadName(kind.name) = NoText
      PROVE  /\ SlurmFields(PrintRecord(job, i, planned))["JobId"] = i
             /\ SlurmFields(PrintRecord(job, i, planned))["JobName"] = ReadName(kind.name)
             /\ SlurmFields(PrintRecord(job, i, planned))["JobState"] = job.states[i]
             /\ SlurmFields(PrintRecord(job, i, planned))["StartTime"] = StartTime(job, i, planned)
             /\ SlurmFields(PrintRecord(job, i, planned))["TimeLimit"] = kind.limit
  <2>1. PrintRecord(job, i, planned) = <<id>> \o <<word>> \o <<state, start, limit>>
    BY <1>1, <1>3, Zenon
  <2> HIDE DEF id, state, start, limit
  <2>2. /\ DOMAIN PrintRecord(job, i, planned) = 1..5
        /\ PrintRecord(job, i, planned)[1] = id /\ PrintRecord(job, i, planned)[2] = word
        /\ PrintRecord(job, i, planned)[3] = state
        /\ PrintRecord(job, i, planned)[4] = start /\ PrintRecord(job, i, planned)[5] = limit
    BY <2>1, FiveWords
  <2> USE DEF id, state, start, limit
  <2>3. QED
    BY <1>3, <2>2, FiveWordBlock
<1>4. CASE kind.name = "x=y"
  <2>1. NameWords = <<<<"JobName", "x", "y">>>>
    BY <1>4, Zenon DEF NameWords
  <2>2. ~IsField(<<"JobName", "x", "y">>)
    BY DEF IsField
  <2>3. ReadName(kind.name) = NoText
    BY <1>4, Zenon DEF ReadName
  <2>4. QED
    BY <1>3, <2>1, <2>2, <2>3, Zenon
<1>5. CASE kind.name # "x y" /\ kind.name # "x=y"
  <2>1. NameWords = <<<<"JobName", kind.name>>>>
    BY <1>5, Zenon DEF NameWords
  <2>2. IsField(<<"JobName", kind.name>>) /\ <<"JobName", kind.name>>[1] = "JobName"
        /\ <<"JobName", kind.name>>[2] = kind.name
    BY DEF IsField
  <2>3. ReadName(kind.name) = kind.name
    BY <1>5, Zenon DEF ReadName
  <2>4. QED
    BY <1>3, <2>1, <2>2, <2>3, Zenon
<1>6. QED
  BY <1>2, <1>4, <1>5

----------------------------------------------------------------------------
(* What JobInfo and JobSteps say of a job                                  *)

(* Tasks that wait are pending or cancelled, all of them together.         *)
IsShaped(n, job) ==
    /\ job.purged \subseteq 1..job.started \cup {n}
    /\ \A i \in 1..n : IF i <= job.started THEN job.states[i] # "PENDING"
                       ELSE /\ job.states[i] \in {"PENDING", "CANCELLED"}
                            /\ job.states[i] = job.states[n]

JobRecord ==
    {job \in [states : [Tasks -> States], started : 0..kind.tasks, purged : SUBSET Tasks] :
        IsShaped(kind.tasks, job)}

LEMMA KindFacts ==
    ASSUME kind \in Kinds
    PROVE  /\ kind.tasks \in Nat /\ kind.tasks >= 1 /\ 1 \in Tasks /\ Tasks \subseteq Int
           /\ kind.tasks \in Tasks
           /\ kind.name \in {"x", "x y", "x=y", "x|y"}
           /\ kind.limit \in {"1:00", "UNLIMITED", "Partition_Limit"}
           /\ kind.ends \subseteq {"COMPLETED", "FAILED", "TIMEOUT", "OUT_OF_MEMORY"}
<1>1. kind.tasks \in Nat \ {0}
  BY KindsAssumption
<1>2. /\ kind.tasks \in Nat /\ kind.tasks >= 1 /\ 1 \in Tasks /\ Tasks \subseteq Int
      /\ kind.tasks \in Tasks
  BY <1>1 DEF Tasks
<1>3. QED
  BY <1>2, KindsAssumption

(* The record that tells of a task says of it what is true.                *)
LEMMA JobFacts ==
    ASSUME kind \in Kinds, NEW job \in JobRecord, NEW i \in Tasks
    PROVE  /\ job.states \in [Tasks -> States] /\ job.started \in Nat
           /\ job.started <= kind.tasks /\ job.purged \subseteq Records(job)
           /\ Records(job) \subseteq Tasks
           /\ RecordOf(job, i) \in Records(job) /\ RecordOf(job, i) \in Tasks
           /\ job.states[RecordOf(job, i)] = job.states[i]
           /\ RecordOf(job, i) <= job.started <=> i <= job.started
           /\ job.states[i] = "PENDING" => ~(i <= job.started)
<1>1. /\ job.states \in [Tasks -> States] /\ job.started \in Nat
      /\ job.started <= kind.tasks /\ IsShaped(kind.tasks, job)
  <2>1. /\ job \in [states : [Tasks -> States], started : 0..kind.tasks, purged : SUBSET Tasks]
        /\ IsShaped(kind.tasks, job)
    BY Zenon DEF JobRecord
  <2>2. job.states \in [Tasks -> States] /\ job.started \in 0..kind.tasks
    BY <2>1
  <2>3. kind.tasks \in Nat
    BY KindFacts
  <2>4. QED
    BY <2>1, <2>2, <2>3
<1>2. Tasks = 1..kind.tasks /\ i \in Int /\ kind.tasks \in Nat /\ kind.tasks >= 1
  BY KindFacts DEF Tasks
<1>3. Records(job) \subseteq Tasks /\ RecordOf(job, i) \in Records(job)
  BY <1>1, <1>2 DEF Records, RecordOf
<1>4. RecordOf(job, i) <= job.started <=> i <= job.started
  BY <1>1, <1>2 DEF RecordOf
<1>5. job.states[RecordOf(job, i)] = job.states[i]
  BY <1>1, <1>2 DEF RecordOf, IsShaped
<1>6. job.purged \subseteq Records(job) /\ (job.states[i] = "PENDING" => ~(i <= job.started))
  BY <1>1, <1>2 DEF Records, IsShaped
<1>7. QED
  BY <1>1, <1>3, <1>4, <1>5, <1>6

LEMMA ListFacts ==
    ASSUME NEW list \in Listings
    PROVE  /\ DOMAIN list = 1..Len(list) /\ Len(list) \in Nat /\ 1 \in DOMAIN list
           /\ \A n \in DOMAIN list : list[n][1] \in Nat /\ list[n] = <<list[n][1], list[n][2]>>
           /\ \A m, n \in DOMAIN list : list[m] = list[n] => m = n
<1>1. /\ list \in Seq(Nat \X STRING) /\ list # <<>>
      /\ \A m, n \in DOMAIN list : list[m] = list[n] => m = n
  BY Zenon, KindsAssumption
<1>2. DOMAIN list = 1..Len(list) /\ Len(list) \in Nat /\ Len(list) # 0
  BY <1>1
<1>3. 1 \in DOMAIN list
  BY <1>2
<1>4. ASSUME NEW n \in DOMAIN list
      PROVE  list[n][1] \in Nat /\ list[n] = <<list[n][1], list[n][2]>>
  <2>1. list[n] \in Nat \X STRING
    BY <1>1
  <2>2. QED
    BY <2>1
<1>5. QED
  BY <1>1, <1>2, <1>3, <1>4

LEMMA TaskLine ==
    ASSUME NEW records, NEW entry \in TaskLines(records)
    PROVE  entry[1] \in records /\ entry = <<entry[1], NoText>>
<1>1. PICK i \in records : entry = <<i, NoText>> /\ i \in records
  BY Zenon DEF TaskLines, NoText
<1>2. QED
  BY <1>1

LEMMA TimesRead ==
    /\ ParseTime("Unknown") = Nil /\ ParseTime("2020-01-01") = "2020-01-01"
    /\ ParseTime("2020-01-02") = "2020-01-02" /\ ParseTime("20 Feb") = Error
    /\ ParseDuration("1:00") = "1:00" /\ ParseDuration("UNLIMITED") = Nil
    /\ ParseDuration("Partition_Limit") = Error
    /\ Nil # Error /\ "1:00" # Error /\ "2020-01-01" # Error /\ "2020-01-02" # Error
    /\ "2020-01-01" # Nil /\ "2020-01-02" # Nil
<1>1. /\ "Unknown" \in {NoText, "unknown", "Unknown"}
      /\ "2020-01-01" \notin {NoText, "unknown", "Unknown"}
      /\ "2020-01-02" \notin {NoText, "unknown", "Unknown"}
      /\ "20 Feb" \notin {NoText, "unknown", "Unknown"}
      /\ "2020-01-01" \in Dates /\ "2020-01-02" \in Dates /\ "20 Feb" \notin Dates
      /\ "UNLIMITED" \notin Durations
      /\ "1:00" \notin {NoText, "UNLIMITED"} /\ "UNLIMITED" \in {NoText, "UNLIMITED"}
      /\ "Partition_Limit" \notin {NoText, "UNLIMITED"}
      /\ "1:00" \in Durations /\ "Partition_Limit" \notin Durations
  BY DEF Dates, Durations, NoText
<1>2. /\ ParseTime("Unknown") = Nil /\ ParseTime("2020-01-01") = "2020-01-01"
      /\ ParseTime("2020-01-02") = "2020-01-02" /\ ParseTime("20 Feb") = Error
  <2>1. ASSUME NEW text, text \in {NoText, "unknown", "Unknown"} PROVE ParseTime(text) = Nil
    <3>1. CASE text \notin Dates
      BY <2>1, <3>1, Zenon DEF ParseTime, NoText
    <3>2. CASE text \in Dates
      BY <1>1, <2>1, <3>2 DEF Dates, NoText
    <3>3. QED
      BY <3>1, <3>2
  <2>2. ASSUME NEW text, text \notin {NoText, "unknown", "Unknown"}, text \in Dates
        PROVE  ParseTime(text) = text
    BY <2>2, Zenon DEF ParseTime, NoText
  <2>3. ASSUME NEW text, text \notin {NoText, "unknown", "Unknown"}, text \notin Dates
        PROVE  ParseTime(text) = Error
    BY <2>3, Zenon DEF ParseTime, NoText
  <2>4. QED
    BY <1>1, <2>1, <2>2, <2>3, Zenon
<1>3. /\ ParseDuration("1:00") = "1:00" /\ ParseDuration("UNLIMITED") = Nil
      /\ ParseDuration("Partition_Limit") = Error
  <2>1. ASSUME NEW text, text \in {NoText, "UNLIMITED"}, text \notin Durations
        PROVE  ParseDuration(text) = Nil
    BY <2>1, Zenon DEF ParseDuration, NoText
  <2>2. ASSUME NEW text, text \notin {NoText, "UNLIMITED"}, text \in Durations
        PROVE  ParseDuration(text) = text
    BY <2>2, Zenon DEF ParseDuration, NoText
  <2>3. ASSUME NEW text, text \notin {NoText, "UNLIMITED"}, text \notin Durations
        PROVE  ParseDuration(text) = Error
    BY <2>3, Zenon DEF ParseDuration, NoText
  <2>4. QED
    BY <1>1, <2>1, <2>2, <2>3, Zenon
<1>4. /\ Nil # Error /\ "1:00" # Error /\ "2020-01-01" # Error /\ "2020-01-02" # Error
      /\ "2020-01-01" # Nil /\ "2020-01-02" # Nil
  BY DEF Nil, Error
<1>5. QED
  BY <1>2, <1>3, <1>4, Zenon

(* A task that started has a date; one that waits may have one.            *)
LEMMA StartsRead ==
    ASSUME NEW job, NEW i, NEW planned \in StartTimes
    PROVE  /\ ParseTime(StartTime(job, i, planned)) # Error
           /\ i <= job.started => ParseTime(StartTime(job, i, planned)) # Nil
           /\ (ParseTime(StartTime(job, i, "Unknown")) = Nil) <=> ~(i <= job.started)
<1>1. planned = "Unknown" \/ planned = "2020-01-01"
  BY DEF StartTimes
<1>2. CASE i <= job.started
  BY <1>2, TimesRead, Zenon DEF StartTime
<1>3. CASE ~(i <= job.started)
  BY <1>1, <1>3, TimesRead, Zenon DEF StartTime
<1>4. QED
  BY <1>2, <1>3, Zenon

LEMMA FieldsParsed ==
    ASSUME NEW text
    PROVE  /\ ParseField("JobId", text) = text /\ ParseField("JobName", text) = text
           /\ ParseField("JobState", text) = text
           /\ ParseField("StartTime", text) = ParseTime(text)
           /\ ParseField("TimeLimit", text) = ParseDuration(text)
  BY Zenon DEF ParseField

LEMMA InfoRead ==
    ASSUME NEW job, NEW list, NEW planned, NEW infos,
           infos = JobInfoFromScontrolResponse(
                     [n \in DOMAIN list |-> PrintRecord(job, list[n][1], planned)])
    PROVE  /\ DOMAIN infos = DOMAIN list
           /\ \A n \in DOMAIN list :
                /\ infos[n]["JobId"] = list[n][1]
                /\ infos[n]["JobName"] = ReadName(kind.name)
                /\ infos[n]["JobState"] = job.states[list[n][1]]
                /\ infos[n]["StartTime"] = ParseTime(StartTime(job, list[n][1], planned))
                /\ infos[n]["TimeLimit"] = ParseDuration(kind.limit)
<1>1. /\ infos = [n \in DOMAIN list |->
                    FillFromSlurmFields(SlurmFields(PrintRecord(job, list[n][1], planned)))]
      /\ DOMAIN infos = DOMAIN list
  BY DEF JobInfoFromScontrolResponse
<1>2. ASSUME NEW fields, NEW tag \in Tags
      PROVE  FillFromSlurmFields(fields)[tag] = ParseField(tag, fields[tag])
  BY DEF FillFromSlurmFields
<1>3. /\ "JobId" \in Tags /\ "JobName" \in Tags /\ "JobState" \in Tags
      /\ "StartTime" \in Tags /\ "TimeLimit" \in Tags
  BY DEF Tags
<1>4. ASSUME NEW n \in DOMAIN list
      PROVE  /\ infos[n]["JobId"] = list[n][1]
             /\ infos[n]["JobName"] = ReadName(kind.name)
             /\ infos[n]["JobState"] = job.states[list[n][1]]
             /\ infos[n]["StartTime"] = ParseTime(StartTime(job, list[n][1], planned))
             /\ infos[n]["TimeLimit"] = ParseDuration(kind.limit)
  <2> DEFINE fields == SlurmFields(PrintRecord(job, list[n][1], planned))
  <2>1. /\ fields["JobId"] = list[n][1] /\ fields["JobName"] = ReadName(kind.name)
        /\ fields["JobState"] = job.states[list[n][1]]
        /\ fields["StartTime"] = StartTime(job, list[n][1], planned)
        /\ fields["TimeLimit"] = kind.limit
    BY PrintedFields
  <2>2. infos[n] = FillFromSlurmFields(fields)
    BY <1>1
  <2> HIDE DEF fields
  <2>3. \A tag \in Tags : infos[n][tag] = ParseField(tag, fields[tag])
    BY <1>2, <2>2, Zenon
  <2>4. /\ infos[n]["JobId"] = fields["JobId"] /\ infos[n]["JobName"] = fields["JobName"]
        /\ infos[n]["JobState"] = fields["JobState"]
        /\ infos[n]["StartTime"] = ParseTime(fields["StartTime"])
        /\ infos[n]["TimeLimit"] = ParseDuration(fields["TimeLimit"])
    BY <1>3, <2>3, FieldsParsed
  <2>5. QED
    BY <2>1, <2>4, Zenon
<1>5. QED
  BY <1>1, <1>4, Zenon

(* Where the limit is a duration JobInfo tells of every record in the list.*)
LEMMA InfoTold ==
    ASSUME kind \in Kinds, NEW job, NEW blocks \in Scontrol(job)
    PROVE  \E list \in Listings :
             /\ Range(list) = TaskLines(Kept(job))
             /\ InfoAnswer(blocks).ok \in BOOLEAN
             /\ InfoAnswer(blocks).ok <=> HasReadableLimit
             /\ InfoAnswer(blocks).ok =>
                  /\ DOMAIN InfoAnswer(blocks).body = DOMAIN list
                  /\ \A n \in DOMAIN list :
                       /\ InfoAnswer(blocks).body[n].id = list[n][1]
                       /\ InfoAnswer(blocks).body[n].name = ReadName(kind.name)
                       /\ InfoAnswer(blocks).body[n].status = Status(job.states[list[n][1]])
                       /\ InfoAnswer(blocks).body[n].start = Nil =>
                             ~(list[n][1] <= job.started)
<1>1. PICK list \in Listings, planned \in StartTimes :
        /\ Range(list) = TaskLines(Kept(job))
        /\ blocks = [n \in DOMAIN list |-> PrintRecord(job, list[n][1], planned)]
  BY DEF Scontrol
<1> DEFINE infos == JobInfoFromScontrolResponse(blocks)
           start(n) == ParseTime(StartTime(job, list[n][1], planned))
<1>2. /\ DOMAIN infos = DOMAIN list
      /\ \A n \in DOMAIN list : /\ infos[n]["JobId"] = list[n][1]
                                /\ infos[n]["JobName"] = ReadName(kind.name)
                                /\ infos[n]["JobState"] = job.states[list[n][1]]
                                /\ infos[n]["StartTime"] = start(n)
                                /\ infos[n]["TimeLimit"] = ParseDuration(kind.limit)
  BY <1>1, InfoRead
<1>3. SJobInfo(blocks) = IF \E info \in Range(infos) : IsBad(info) THEN <<>> ELSE infos
  BY Zenon DEF SJobInfo
<1>4. \A n \in DOMAIN list : start(n) # Error /\ (list[n][1] <= job.started => start(n) # Nil)
  BY StartsRead, Zenon
<1> HIDE DEF infos, start
<1>5. 1 \in DOMAIN list /\ infos # <<>>
  <2>1. 1 \in DOMAIN list
    BY ListFacts
  <2>2. 1 \notin DOMAIN <<>>
    OBVIOUS
  <2>3. QED
    BY <1>2, <2>1, <2>2, Zenon
<1>6. Range(infos) = {infos[n] : n \in DOMAIN list}
  BY <1>2 DEF Range
<1>7. \A n \in DOMAIN list : IsBad(infos[n]) <=> ~HasReadableLimit
  <2>1. ParseDuration(kind.limit) = Error <=> kind.limit = "Partition_Limit"
    BY KindFacts, TimesRead
  <2>2. QED
    BY <1>2, <1>4, <2>1 DEF HasReadableLimit, IsBad
<1>8. (\E info \in Range(infos) : IsBad(info)) <=> ~HasReadableLimit
  BY <1>5, <1>6, <1>7
<1>9. CASE ~HasReadableLimit
  <2>1. InfoAnswer(blocks) = Failure
    BY <1>3, <1>8, <1>9, Zenon DEF InfoAnswer
  <2>2. InfoAnswer(blocks).ok = FALSE
    BY <2>1 DEF Failure
  <2>3. QED
    BY <1>1, <1>9, <2>2
<1>10. CASE HasReadableLimit
  <2> DEFINE body == MapSInfoToProtoInfo(infos)
  <2>1. SJobInfo(blocks) = infos
    BY <1>3, <1>8, <1>10, Zenon
  <2>2. InfoAnswer(blocks) = Answer(body)
    BY <1>5, <2>1, Zenon DEF InfoAnswer
  <2>3. body = [n \in DOMAIN list |->
                  [id |-> infos[n]["JobId"], name |-> infos[n]["JobName"],
                   status |-> Status(infos[n]["JobState"]),
                   start |-> infos[n]["StartTime"], limit |-> infos[n]["TimeLimit"]]]
    BY <1>2, Zenon DEF MapSInfoToProtoInfo
  <2> HIDE DEF body
  <2>4. /\ DOMAIN body = DOMAIN list
        /\ \A n \in DOMAIN list : /\ body[n].id = infos[n]["JobId"]
                                  /\ body[n].name = infos[n]["JobName"]
                                  /\ body[n].status = Status(infos[n]["JobState"])
                                  /\ body[n].start = infos[n]["StartTime"]
    BY <2>3
  <2>5. /\ DOMAIN body = DOMAIN list
        /\ \A n \in DOMAIN list : /\ body[n].id = list[n][1]
                                  /\ body[n].name = ReadName(kind.name)
                                  /\ body[n].status = Status(job.states[list[n][1]])
                                  /\ body[n].start = Nil => ~(list[n][1] <= job.started)
    BY <1>2, <1>4, <2>4
  <2>6. InfoAnswer(blocks).ok = TRUE /\ InfoAnswer(blocks).body = body
    BY <2>2 DEF Answer
  <2>7. QED
    BY <1>1, <1>10, <2>5, <2>6
<1>11. QED
  BY <1>9, <1>10

LEMMA FiveAndOne ==
    ASSUME NEW S, NEW p \in Seq(S), NEW q \in Seq(S)
    PROVE  Len(p) = 5 /\ Len(q) = 1 =>
             /\ p \o q \in Seq(S) /\ Len(p \o q) = 6
             /\ (p \o q)[1] = p[1] /\ (p \o q)[2] = p[2] /\ (p \o q)[3] = p[3]
             /\ (p \o q)[4] = p[4] /\ (p \o q)[5] = p[5] /\ (p \o q)[6] = q[1]
<1>1. /\ p \o q \in Seq(S) /\ Len(p \o q) = Len(p) + Len(q)
      /\ \A i \in 1..Len(p) : (p \o q)[i] = p[i]
      /\ \A i \in 1..Len(q) : (p \o q)[Len(p) + i] = q[i]
  OBVIOUS
<1>2. PICK y \in Seq(S) : /\ y = p \o q /\ Len(y) = Len(p) + Len(q)
                          /\ \A i \in 1..Len(p) : y[i] = p[i]
                          /\ \A i \in 1..Len(q) : y[Len(p) + i] = q[i]
  BY <1>1, Zenon
<1>3. Len(p) = 5 /\ Len(q) = 1 =>
        /\ Len(y) = 6 /\ y[1] = p[1] /\ y[2] = p[2] /\ y[3] = p[3] /\ y[4] = p[4]
        /\ y[5] = p[5] /\ y[6] = q[1]
  BY <1>2
<1>4. QED
  BY <1>1, <1>2, <1>3, Zenon

LEMMA SevenParts ==
    ASSUME NEW a, NEW b, NEW c, NEW d, NEW e, NEW f, NEW g, NEW x,
           x = <<a, b, c, d, e>> \o <<f>> \o <<g>>
    PROVE  /\ DOMAIN x = 1..7 /\ Len(x) = 7
           /\ x[1] = a /\ x[2] = b /\ x[3] = c /\ x[4] = d /\ x[5] = e /\ x[6] = f
<1> DEFINE S == {a, b, c, d, e, f, g}
<1>1. <<a, b, c, d, e>> \in Seq(S) /\ <<f>> \in Seq(S) /\ <<g>> \in Seq(S)
  OBVIOUS
<1>2. PICK y \in Seq(S) : /\ y = <<a, b, c, d, e>> \o <<f>> /\ Len(y) = 6
                          /\ y[1] = a /\ y[2] = b /\ y[3] = c /\ y[4] = d /\ y[5] = e
                          /\ y[6] = f
  <2> DEFINE y == <<a, b, c, d, e>> \o <<f>>
  <2>1. PICK p, q \in Seq(S) :
          /\ p = <<a, b, c, d, e>> /\ q = <<f>> /\ Len(p) = 5 /\ Len(q) = 1 /\ q[1] = f
          /\ p[1] = a /\ p[2] = b /\ p[3] = c /\ p[4] = d /\ p[5] = e
    <3>1. /\ Len(<<a, b, c, d, e>>) = 5 /\ Len(<<f>>) = 1 /\ <<f>>[1] = f
          /\ <<a, b, c, d, e>>[1] = a /\ <<a, b, c, d, e>>[2] = b
          /\ <<a, b, c, d, e>>[3] = c /\ <<a, b, c, d, e>>[4] = d /\ <<a, b, c, d, e>>[5] = e
      OBVIOUS
    <3>2. QED
      BY <1>1, <3>1, Zenon
  <2>2. /\ p \o q \in Seq(S) /\ Len(p \o q) = 6 /\ (p \o q)[1] = a /\ (p \o q)[2] = b
        /\ (p \o q)[3] = c /\ (p \o q)[4] = d /\ (p \o q)[5] = e /\ (p \o q)[6] = f
    <3>1. /\ Len(p) = 5 /\ Len(q) = 1 /\ q[1] = f
          /\ p[1] = a /\ p[2] = b /\ p[3] = c /\ p[4] = d /\ p[5] = e
      BY <2>1, Zenon
    <3> HIDE DEF S
    <3>2. /\ p \o q \in Seq(S) /\ Len(p \o q) = 6
          /\ (p \o q)[1] = p[1] /\ (p \o q)[2] = p[2] /\ (p \o q)[3] = p[3]
          /\ (p \o q)[4] = p[4] /\ (p \o q)[5] = p[5] /\ (p \o q)[6] = q[1]
      BY <3>1, FiveAndOne
    <3>3. QED
      BY <3>1, <3>2, Zenon
  <2>3. y = p \o q
    BY <2>1, Zenon
  <2>4. QED
    BY <2>2, <2>3, Zenon
<1>3. x = y \o <<g>>
  BY <1>2, Zenon
<1>4. QED
  BY <1>1, <1>2, <1>3

LEMMA EightParts ==
    ASSUME NEW a, NEW b, NEW c, NEW d, NEW e, NEW f, NEW g, NEW h, NEW x,
           x = <<a, b, c, d, e>> \o <<f, g>> \o <<h>>
    PROVE  DOMAIN x = 1..8 /\ Len(x) = 8
<1> DEFINE S == {a, b, c, d, e, f, g, h}
<1>1. <<a, b, c, d, e>> \in Seq(S) /\ <<f, g>> \in Seq(S) /\ <<h>> \in Seq(S)
  OBVIOUS
<1>2. PICK y \in Seq(S) : y = <<a, b, c, d, e>> \o <<f, g>> /\ Len(y) = 7
  <2> DEFINE y == <<a, b, c, d, e>> \o <<f, g>>
  <2>1. y \in Seq(S) /\ Len(y) = Len(<<a, b, c, d, e>>) + Len(<<f, g>>)
    BY <1>1
  <2>2. Len(<<a, b, c, d, e>>) = 5 /\ Len(<<f, g>>) = 2
    OBVIOUS
  <2> HIDE DEF y
  <2>3. Len(y) = 7
    BY <2>1, <2>2
  <2>4. QED
    BY <2>1, <2>3, Zenon DEF y
<1>3. x = y \o <<h>>
  BY <1>2, Zenon
<1>4. QED
  BY <1>1, <1>2, <1>3

SacctState(state) == IF state = "CANCELLED" THEN "CANCELLED by 0" ELSE state
EndText(hasEnded) == IF hasEnded THEN "2020-01-02" ELSE "Unknown"

LEMMA EndsRead ==
    ASSUME NEW hasEnded \in BOOLEAN
    PROVE  /\ ParseTime(EndText(hasEnded)) # Error
           /\ (ParseTime(EndText(hasEnded)) # Nil) <=> hasEnded
<1>1. CASE hasEnded
  BY <1>1, TimesRead, Zenon DEF EndText
<1>2. CASE ~hasEnded
  BY <1>2, TimesRead, Zenon DEF EndText
<1>3. QED
  BY <1>1, <1>2

LEMMA ExitCodes ==
    /\ ExitCode(<<"0", "0">>) # Error
    /\ ExitCode(<<"2", "5", "0">>) = Error /\ ExitCode(<<"F", "0">>) = Error
  BY DEF ExitCode, Error

(* The line of a task is read, but where its name looks like two parts.    *)
LEMMA PrintedLine ==
    ASSUME NEW job, NEW i
    PROVE  /\ 1..3 \subseteq DOMAIN PrintTask(job, i)
           /\ kind.name = "x|y" => ~IsLine(PrintTask(job, i))
           /\ kind.name # "x|y" =>
                /\ IsLine(PrintTask(job, i))
                /\ PrintTask(job, i)[1] = StartTime(job, i, "Unknown")
                /\ PrintTask(job, i)[2] = EndText(job.states[i] \in Ended)
                /\ PrintTask(job, i)[4] = SacctState(job.states[i])
                /\ PrintTask(job, i)[5] = <<i, NoText>> /\ PrintTask(job, i)[6] = kind.name
<1> DEFINE line == PrintTask(job, i)
           start == StartTime(job, i, "Unknown")
           end == EndText(job.states[i] \in Ended)
           state == SacctState(job.states[i])
           code == <<"0", "0">>
           id == <<i, NoText>>
<1>1. line = <<start, end, code, state, id>>
             \o (IF kind.name = "x|y" THEN <<"x", "y">> ELSE <<kind.name>>) \o <<NoText>>
  BY Zenon DEF PrintTask, EndText, SacctState, NoText
<1>2. ParseTime(start) # Error /\ ParseTime(end) # Error /\ ExitCode(code) # Error
  <2>1. "Unknown" \in StartTimes /\ (job.states[i] \in Ended) \in BOOLEAN
    BY DEF StartTimes
  <2>2. QED
    BY <2>1, StartsRead, EndsRead, ExitCodes, Zenon
<1> HIDE DEF line, start, end, state, code, id
<1>3. CASE kind.name = "x|y"
  <2>1. line = <<start, end, code, state, id>> \o <<"x", "y">> \o <<NoText>>
    BY <1>1, <1>3, Zenon
  <2>2. DOMAIN line = 1..8 /\ Len(line) = 8
    BY <2>1, EightParts
  <2>3. 1..3 \subseteq DOMAIN line /\ ~IsLine(line)
    BY <2>2 DEF IsLine
  <2>4. QED
    BY <1>3, <2>3, Zenon DEF line
<1>4. CASE kind.name # "x|y"
  <2>1. line = <<start, end, code, state, id>> \o <<kind.name>> \o <<NoText>>
    BY <1>1, <1>4, Zenon
  <2>2. /\ DOMAIN line = 1..7 /\ Len(line) = 7
        /\ line[1] = start /\ line[2] = end /\ line[3] = code /\ line[4] = state
        /\ line[5] = id /\ line[6] = kind.name
    BY <2>1, SevenParts
  <2>3. IsLine(line)
    BY <1>2, <2>2, Zenon DEF IsLine
  <2>4. 1..3 \subseteq DOMAIN line
    BY <2>2
  <2>5. QED
    BY <1>4, <2>2, <2>3, <2>4, Zenon DEF line, start, end, state, id
<1>5. QED
  BY <1>3, <1>4, Zenon

LEMMA PrintedStep ==
    ASSUME NEW job, NEW i, NEW step, NEW isOver \in BOOLEAN
    PROVE  /\ 1..3 \subseteq DOMAIN PrintStep(job, i, step, isOver)
           /\ IsLine(PrintStep(job, i, step, isOver))
           /\ PrintStep(job, i, step, isOver)[5] = <<i, step>>
<1> DEFINE hasEnded == isOver \/ job.states[i] \in Ended
           end == EndText(hasEnded)
           state == IF hasEnded THEN "COMPLETED" ELSE "RUNNING"
           code == <<"0", "0">>
           id == <<i, step>>
           line == PrintStep(job, i, step, isOver)
<1>1. line = <<"2020-01-01", end, code, state, id, "sleep", NoText>>
  BY Zenon DEF PrintStep, EndText, NoText
<1>2. ParseTime("2020-01-01") # Error /\ ParseTime(end) # Error /\ ExitCode(code) # Error
  BY TimesRead, EndsRead, ExitCodes
<1> HIDE DEF line, end, state, code, id
<1>3. /\ DOMAIN line = 1..7 /\ Len(line) = 7 /\ line[1] = "2020-01-01" /\ line[2] = end
      /\ line[3] = code /\ line[5] = id
  BY <1>1
<1>4. IsLine(line)
  BY <1>2, <1>3, Zenon DEF IsLine
<1>5. 1..3 \subseteq DOMAIN line
  BY <1>3
<1>6. QED
  BY <1>3, <1>4, <1>5, Zenon DEF line, id

(* What is among the lines of sacct.                                       *)
LEMMA PrintedList ==
    ASSUME NEW job, NEW lines \in Sacct(job)
    PROVE  \E list \in Listings :
             /\ IsOfJob(list, job)
             /\ lines = [n \in 1..Len(list) |-> lines[n]] /\ DOMAIN lines = DOMAIN list
             /\ \A n \in DOMAIN list :
                  /\ 1..3 \subseteq DOMAIN lines[n]
                  /\ list[n][2] = NoText => lines[n] = PrintTask(job, list[n][1])
                  /\ list[n][2] # NoText => IsLine(lines[n]) /\ lines[n][5] = list[n]
<1>1. PICK list \in Listings, isOver \in BOOLEAN :
        /\ IsOfJob(list, job)
        /\ lines = [n \in DOMAIN list |-> PrintLine(job, list[n], isOver)]
  BY DEF Sacct
<1>2. DOMAIN list = 1..Len(list)
  BY ListFacts
<1>3. /\ lines = [n \in 1..Len(list) |-> lines[n]] /\ DOMAIN lines = DOMAIN list
      /\ \A n \in DOMAIN list :
           lines[n] = PrintLine(job, list[n], isOver)
  BY <1>1, <1>2
<1>4. ASSUME NEW n \in DOMAIN list
      PROVE  /\ 1..3 \subseteq DOMAIN lines[n]
             /\ list[n][2] = NoText => lines[n] = PrintTask(job, list[n][1])
             /\ list[n][2] # NoText => IsLine(lines[n]) /\ lines[n][5] = list[n]
  <2>1. list[n] = <<list[n][1], list[n][2]>>
    BY ListFacts
  <2>2. CASE list[n][2] = NoText
    <3>1. lines[n] = PrintTask(job, list[n][1])
      BY <1>3, <2>2, Zenon DEF PrintLine, NoText
    <3>2. QED
      BY <2>2, <3>1, PrintedLine, Zenon
  <2>3. CASE list[n][2] # NoText
    <3>1. lines[n] = PrintStep(job, list[n][1], list[n][2], isOver)
      BY <1>3, <2>3, Zenon DEF PrintLine, NoText
    <3>2. QED
      BY <2>1, <2>3, <3>1, PrintedStep
  <2>4. QED
    BY <2>2, <2>3
<1>5. QED
  BY <1>1, <1>2, <1>3, <1>4, Zenon

LEMMA Consed ==
    ASSUME NEW S, NEW text \in Seq(S), NEW a
    PROVE  1 \in DOMAIN (<<a>> \o text) /\ (<<a>> \o text)[1] = a
<1> DEFINE T == S \cup {a}
<1>1. text \in Seq(T) /\ <<a>> \in Seq(T)
  OBVIOUS
<1>2. QED
  BY <1>1

(* One line that cannot be read makes all of them unreadable.              *)
LEMMA UnreadLine ==
    ASSUME NEW lines, NEW n \in DOMAIN lines, ~IsLine(lines[n])
    PROVE  StepsAnswer(lines) = Failure
<1>1. lines[n] \in Range(lines)
  BY DEF Range
<1>2. SJobSteps(lines) = <<>>
  BY <1>1, Zenon DEF SJobSteps
<1>3. QED
  BY <1>2, Zenon DEF StepsAnswer

LEMMA NothingUnread == StepsAnswer(Nothing) = Failure
<1>1. Nothing = <<<<NoText>>>>
  BY Zenon DEF Nothing, NoText
<1>2. ~IsLine(<<NoText>>)
  BY DEF IsLine
<1>3. 1 \in DOMAIN Nothing /\ Nothing[1] = <<NoText>>
  BY <1>1
<1>4. QED
  BY <1>2, <1>3, UnreadLine

LEMMA SpoiltUnread ==
    ASSUME NEW job, NEW text \in Sacct(job), NEW n \in DOMAIN text,
           NEW lines \in Spoilt(text, n)
    PROVE  StepsAnswer(lines) = Failure
<1>1. PICK list \in Listings :
        /\ text = [m \in 1..Len(list) |-> text[m]] /\ DOMAIN text = DOMAIN list
        /\ \A m \in DOMAIN list : 1..3 \subseteq DOMAIN text[m]
  BY PrintedList
<1>2. Len(list) \in Nat /\ DOMAIN list = 1..Len(list)
  BY ListFacts
<1>3. ASSUME NEW at \in 1..3, NEW part,
             lines = With(text, n, at, part)
      PROVE  n \in DOMAIN lines /\ lines[n][at] = part
  <2>1. at \in DOMAIN text[n]
    BY <1>1
  <2>2. QED
    BY <1>3, <2>1 DEF With
<1>4. CASE lines = <<<<"sacct: error">>>> \o text
  <2>1. text \in Seq(Range(text))
    <3>1. \A m \in 1..Len(list) : text[m] \in Range(text)
      BY <1>1, <1>2 DEF Range
    <3>2. QED
      BY <1>1, <1>2, <3>1
  <2>2. 1 \in DOMAIN lines /\ lines[1] = <<"sacct: error">>
    BY <1>4, <2>1, Consed, Zenon
  <2>3. ~IsLine(<<"sacct: error">>)
    BY DEF IsLine
  <2>4. QED
    BY <2>2, <2>3, UnreadLine
<1>5. CASE lines \in {With(text, n, at, "20 Feb") : at \in {1, 2}}
  <2>1. PICK at : (at = 1 \/ at = 2) /\ lines = With(text, n, at, "20 Feb")
    BY <1>5, Zenon
  <2>2. at \in 1..3
    <3>1. 1 \in 1..3 /\ 2 \in 1..3
      OBVIOUS
    <3>2. QED
      BY <2>1, <3>1, Zenon
  <2>3. n \in DOMAIN lines /\ lines[n][at] = "20 Feb"
    BY <1>3, <2>1, <2>2
  <2>4. ParseTime(lines[n][at]) = Error
    BY <2>3, TimesRead, Zenon
  <2>5. ~IsLine(lines[n])
    BY <2>1, <2>4, Zenon DEF IsLine
  <2>6. QED
    BY <2>3, <2>5, UnreadLine
<1>6. CASE lines \in {With(text, n, 3, code) : code \in {<<"2", "5", "0">>, <<"F", "0">>}}
  <2>1. PICK code \in {<<"2", "5", "0">>, <<"F", "0">>} : lines = With(text, n, 3, code)
    BY <1>6, Zenon
  <2>2. n \in DOMAIN lines /\ lines[n][3] = code
    BY <1>3, <2>1
  <2>3. ExitCode(lines[n][3]) = Error
    BY <2>1, <2>2, ExitCodes, Zenon
  <2>4. ~IsLine(lines[n])
    BY <2>3, Zenon DEF IsLine
  <2>5. QED
    BY <2>2, <2>4, UnreadLine
<1>7. QED
  BY <1>4, <1>5, <1>6, Zenon DEF Spoilt

(* Of text that sacct prints of a job that it knows JobSteps fails only    *)
(* where the name of the job looks like two parts of a line.               *)
LEMMA StepsTold ==
    ASSUME kind \in Kinds, NEW job, NEW lines \in Sacct(job)
    PROVE  \E list \in Listings :
             /\ IsOfJob(list, job)
             /\ StepsAnswer(lines).ok \in BOOLEAN
             /\ StepsAnswer(lines).ok <=> kind.name # "x|y"
             /\ StepsAnswer(lines).ok =>
                  /\ DOMAIN StepsAnswer(lines).body = DOMAIN list
                  /\ \A n \in DOMAIN list :
                       LET state == job.states[list[n][1]]
                           told == StepsAnswer(lines).body[n]
                       IN  /\ told.id = list[n]
                           /\ list[n][2] = NoText =>
                                /\ told.name = kind.name
                                /\ told.status = Status(SacctState(state))
                                /\ told.start = Nil <=> ~(list[n][1] <= job.started)
                                /\ told.end # Nil <=> state \in Ended
<1>1. PICK list \in Listings :
        /\ IsOfJob(list, job) /\ DOMAIN lines = DOMAIN list
        /\ \A n \in DOMAIN list :
             /\ list[n][2] = NoText => lines[n] = PrintTask(job, list[n][1])
             /\ list[n][2] # NoText => IsLine(lines[n]) /\ lines[n][5] = list[n]
  BY PrintedList
<1>2. /\ 1 \in DOMAIN list
      /\ \A n \in DOMAIN list : list[n] = <<list[n][1], list[n][2]>>
  BY ListFacts
<1>3. CASE kind.name = "x|y"
  <2>1. PICK n \in DOMAIN list : list[n] = <<kind.tasks, NoText>>
    <3>1. <<kind.tasks, NoText>> \in TaskLines(Records(job))
      BY DEF TaskLines, Records, NoText
    <3>2. <<kind.tasks, NoText>> \in Range(list)
      BY <1>1, <3>1, Zenon DEF IsOfJob
    <3>3. QED
      BY <3>2, Zenon DEF Range
  <2>2. ~IsLine(lines[n])
    BY <1>1, <1>3, <2>1, PrintedLine
  <2>3. StepsAnswer(lines) = Failure
    BY <1>1, <2>2, UnreadLine
  <2>4. StepsAnswer(lines).ok = FALSE
    BY <2>3 DEF Failure
  <2>5. QED
    BY <1>1, <1>3, <2>4
<1>4. CASE kind.name # "x|y"
  <2> DEFINE steps == ParseSacctResponse(lines)
             body == ToProtoSteps(steps)
             state(n) == job.states[list[n][1]]
  <2>1. \A n \in DOMAIN list :
          /\ IsLine(lines[n]) /\ lines[n][5] = list[n]
          /\ list[n][2] = NoText =>
               /\ lines[n][1] = StartTime(job, list[n][1], "Unknown")
               /\ lines[n][2] = EndText(state(n) \in Ended)
               /\ lines[n][4] = SacctState(state(n))
               /\ lines[n][6] = kind.name
    <3>1. ASSUME NEW n \in DOMAIN list, list[n][2] = NoText
          PROVE  /\ IsLine(lines[n]) /\ lines[n][5] = list[n]
                 /\ lines[n][1] = StartTime(job, list[n][1], "Unknown")
                 /\ lines[n][2] = EndText(state(n) \in Ended)
                 /\ lines[n][4] = SacctState(state(n))
                 /\ lines[n][6] = kind.name
      <4>1. lines[n] = PrintTask(job, list[n][1]) /\ list[n] = <<list[n][1], NoText>>
        BY <1>1, <1>2, <3>1, Zenon
      <4>2. QED
        BY <1>4, <4>1, PrintedLine
    <3>2. QED
      BY <1>1, <3>1, Zenon
  <2>2. SJobSteps(lines) = steps
    <3>1. \A line \in Range(lines) : IsLine(line)
      BY <1>1, <2>1, Zenon DEF Range
    <3>2. QED
      BY <3>1, Zenon DEF SJobSteps
  <2>3. steps = [n \in DOMAIN list |->
                   [start |-> ParseTime(lines[n][1]), end |-> ParseTime(lines[n][2]),
                    state |-> lines[n][4], id |-> lines[n][5], name |-> lines[n][6]]]
    BY <1>1, Zenon DEF ParseSacctResponse
  <2>4. StepsAnswer(lines) = IF steps = <<>> THEN Failure ELSE Answer(body)
    BY <2>2, Zenon DEF StepsAnswer
  <2>5. body = [n \in DOMAIN steps |->
                  [id |-> steps[n].id, name |-> steps[n].name,
                   status |-> Status(steps[n].state),
                   start |-> steps[n].start, end |-> steps[n].end]]
    BY Zenon DEF ToProtoSteps
  <2> HIDE DEF steps, body, state
  <2>6. /\ DOMAIN steps = DOMAIN list
        /\ \A n \in DOMAIN list : /\ steps[n].start = ParseTime(lines[n][1])
                                  /\ steps[n].end = ParseTime(lines[n][2])
                                  /\ steps[n].state = lines[n][4]
                                  /\ steps[n].id = lines[n][5] /\ steps[n].name = lines[n][6]
    BY <2>3
  <2>7. /\ DOMAIN body = DOMAIN list
        /\ \A n \in DOMAIN list : /\ body[n].start = ParseTime(lines[n][1])
                                  /\ body[n].end = ParseTime(lines[n][2])
                                  /\ body[n].status = Status(lines[n][4])
                                  /\ body[n].id = lines[n][5] /\ body[n].name = lines[n][6]
    BY <2>5, <2>6
  <2>8. StepsAnswer(lines).ok = TRUE /\ StepsAnswer(lines).body = body
    <3>1. 1 \notin DOMAIN <<>>
      OBVIOUS
    <3>2. StepsAnswer(lines) = Answer(body)
      BY <1>2, <2>4, <2>6, <3>1, Zenon
    <3>3. QED
      BY <3>2 DEF Answer
  <2>9. ASSUME NEW n \in DOMAIN list, list[n][2] = NoText
        PROVE  /\ body[n].name = kind.name
               /\ body[n].status = Status(SacctState(state(n)))
               /\ (body[n].start = Nil) <=> ~(list[n][1] <= job.started)
               /\ (body[n].end # Nil) <=> (state(n) \in Ended)
    <3>1. /\ body[n].name = kind.name
          /\ body[n].status = Status(SacctState(state(n)))
          /\ body[n].start = ParseTime(StartTime(job, list[n][1], "Unknown"))
          /\ body[n].end = ParseTime(EndText(state(n) \in Ended))
      BY <2>1, <2>7, <2>9, Zenon
    <3>2. (body[n].start = Nil) <=> ~(list[n][1] <= job.started)
      BY <3>1, StartsRead DEF StartTimes
    <3>3. (body[n].end # Nil) <=> (state(n) \in Ended)
      <4>1. (state(n) \in Ended) \in BOOLEAN
        OBVIOUS
      <4>2. QED
        BY <3>1, <4>1, EndsRead, Zenon
    <3>4. QED
      BY <3>1, <3>2, <3>3, Zenon
  <2>10. \A n \in DOMAIN list : body[n].id = list[n]
    BY <2>1, <2>7, Zenon
  <2>11. QED
    BY <1>1, <1>4, <2>7, <2>8, <2>9, <2>10 DEF state
<1>5. QED
  BY <1>3, <1>4

----------------------------------------------------------------------------
(* The invariant                                                           *)

JobsTyped ==
    /\ kind \in Kinds
    /\ jobs \in Seq(JobRecord)
    /\ known \in 0..Len(jobs)
    /\ seen \subseteq [id : Tasks, status : JobStatus_value]
    /\ known = 0 => seen = {}

(* A call has an answer only when it was served; the client submits until  *)
(* it knows a job, and makes its other calls from then on.                 *)
CallsTyped ==
    /\ call = [op \in Operations |-> call[op]]
    /\ \A op \in Operations :
         /\ call[op].at \in {"idle", "sent", "served"}
         /\ call[op].answer.ok \in BOOLEAN
         /\ ~IsAt(op, "served") => call[op].answer = Failure
         /\ ~IsAt(op, "idle") => (op = "submit" <=> known = 0)

(* Every job but one is a submission that failed for the client.           *)
SubmissionsCounted ==
    /\ failures \in Nat /\ failures <= MaxFailures
    /\ Len(jobs) <= IF known = 0 /\ ~IsAt("submit", "served") THEN failures ELSE failures + 1
    /\ IsAt("submit", "served") =>
         IF call["submit"].answer.ok THEN /\ Len(jobs) >= 1
                                          /\ call["submit"].answer.body[1] = Len(jobs)
                                     ELSE failures < MaxFailures

(* A status told of a record holds of each of the n tasks that the record  *)
(* stands for: the end of a task is final.                                 *)
Holds(n, id, status, job) ==
    /\ id \in 1..job.started \cup {n}
    /\ status \in JobStatus_value
    /\ status \in EndStatuses =>
         \A i \in 1..n : (IF i <= job.started THEN i ELSE n) = id => job.states[i] = status

InfosHold(n, infos, job) == \A info \in infos : Holds(n, info.id, info.status, job)
StepsHold(n, steps, job) ==
    \A step \in steps : step.id[2] = NoText => Holds(n, step.id[1], step.status, job)

AnswerHolds(op, n, answer, job) ==
    answer.ok => IF op = "info" THEN InfosHold(n, Range(answer.body), job)
                                ELSE StepsHold(n, Range(answer.body), job)

ToldTheTruth ==
    known # 0 =>
      /\ InfosHold(kind.tasks, seen, jobs[known])
      /\ \A op \in {"info", "steps"} :
           AnswerHolds(op, kind.tasks, call[op].answer, jobs[known])

CallsInv == JobsTyped /\ CallsTyped /\ SubmissionsCounted /\ ToldTheTruth

LEMMA SameKind ==
    ASSUME kind' = kind
    PROVE  /\ Tasks' = Tasks /\ Ended' = Ended /\ States' = States
           /\ JobRecord' = JobRecord
  BY DEF Tasks, Ended, States, JobRecord, IsShaped

LEMMA KnownJob ==
    ASSUME JobsTyped
    PROVE  /\ Len(jobs) \in Nat /\ known \in Nat
           /\ known # 0 => known \in DOMAIN jobs /\ Job \in JobRecord
<1>1. Len(jobs) \in Nat /\ known \in Nat
  BY DEF JobsTyped
<1>2. ASSUME known # 0 PROVE known \in DOMAIN jobs /\ Job \in JobRecord
  BY <1>1, <1>2 DEF JobsTyped, Job
<1>3. QED
  BY <1>1, <1>2

(* Where a call goes. *)
LEMMA CallGoes ==
    ASSUME CallsTyped, NEW op \in Operations, NEW c, SetCall(op, c)
    PROVE  /\ call' = [o \in Operations |-> call'[o]]
           /\ call'[op] = c /\ \A o \in Operations \ {op} : call'[o] = call[o]
  BY DEF CallsTyped, SetCall

LEMMA CallIsTyped ==
    ASSUME CallsTyped, NEW op \in Operations, NEW c, SetCall(op, c),
           c.at \in {"idle", "sent", "served"}, c.answer.ok \in BOOLEAN,
           c.at # "served" => c.answer = Failure,
           c.at # "idle" => (op = "submit" <=> known' = 0),
           \A o \in Operations \ {op} : ~IsAt(o, "idle") => (o = "submit" <=> known' = 0)
    PROVE  CallsTyped'
<1>1. /\ call' = [o \in Operations |-> call'[o]]
      /\ call'[op] = c /\ \A o \in Operations \ {op} : call'[o] = call[o]
  BY CallGoes
<1>2. ASSUME NEW o \in Operations
      PROVE  /\ call'[o].at \in {"idle", "sent", "served"}
             /\ call'[o].answer.ok \in BOOLEAN
             /\ call'[o].at # "served" => call'[o].answer = Failure
             /\ call'[o].at # "idle" => (o = "submit" <=> known' = 0)
  <2>1. CASE o = op
    BY <1>1, <2>1
  <2>2. CASE o # op
    <3>1. call'[o] = call[o] /\ o \in Operations \ {op}
      BY <1>1, <2>2
    <3>2. QED
      BY <3>1 DEF CallsTyped, IsAt
  <2>3. QED
    BY <2>1, <2>2
<1>3. QED
  BY <1>1, <1>2 DEF CallsTyped, IsAt

LEMMA CallFacts ==
    /\ \A at, answer : Call(at, answer).at = at /\ Call(at, answer).answer = answer
    /\ \A body : Answer(body).ok /\ Answer(body).body = body
    /\ ~Failure.ok /\ Idle.at = "idle" /\ Idle.answer = Failure
    /\ Failure.ok \in BOOLEAN /\ \A body : Answer(body).ok \in BOOLEAN
  BY DEF Call, Answer, Failure, Idle

(* A step of a call about a job that is known: nothing is submitted.       *)
LEMMA KnownCallCounted ==
    ASSUME CallsInv, NEW op \in Operations \ {"submit"}, NEW c, SetCall(op, c),
           known' = known, Len(jobs') = Len(jobs),
           \/ failures' = failures
           \/ known # 0 /\ failures < MaxFailures /\ failures' = failures + 1
    PROVE  SubmissionsCounted'
<1>1. call'["submit"] = call["submit"]
  BY CallGoes DEF CallsInv, Operations
<1>2. IsAt("submit", "served")' <=> IsAt("submit", "served")
  BY <1>1 DEF IsAt
<1>3. known # 0 => ~IsAt("submit", "served")
  BY DEF CallsInv, CallsTyped, IsAt, Operations
<1>4. failures \in Nat /\ MaxFailures \in Nat /\ Len(jobs) \in Nat
  BY KnownJob, KindsAssumption DEF CallsInv, SubmissionsCounted
<1>5. CASE failures' = failures
  BY <1>1, <1>2, <1>5 DEF CallsInv, SubmissionsCounted
<1>6. CASE known # 0 /\ failures < MaxFailures /\ failures' = failures + 1
  <2>1. failures' \in Nat /\ failures' <= MaxFailures
    BY <1>4, <1>6
  <2>2. Len(jobs) <= failures + 1
    BY <1>6 DEF CallsInv, SubmissionsCounted
  <2>3. Len(jobs') <= failures' + 1
    BY <1>4, <1>6, <2>2
  <2>4. ~IsAt("submit", "served")'
    BY <1>2, <1>3, <1>6
  <2>5. QED
    BY <1>6, <2>1, <2>3, <2>4 DEF SubmissionsCounted
<1>7. QED
  BY <1>5, <1>6

----------------------------------------------------------------------------
(* What was told stays true                                                *)

(* The status of a state, as JobInfo and as JobSteps tell it: the true one *)
(* or "unknown"; and a state that has the status of an end is an end.      *)
LEMMA StatusesAreTrue ==
    ASSUME kind \in Kinds, NEW state \in States
    PROVE  /\ Status(state) \in JobStatus_value /\ Status(SacctState(state)) \in JobStatus_value
           /\ Status(state) = TrueStatus(state)
           /\ Status(SacctState(state)) = IF state = "CANCELLED" THEN "UNKNOWN"
                                          ELSE TrueStatus(state)
           /\ Status(state) \in EndStatuses => state = Status(state)
           /\ Status(SacctState(state)) \in EndStatuses => state = Status(SacctState(state))
           /\ state \in EndStatuses => state \in Ended
           /\ (state = "PENDING" \/ state = "RUNNING") => state \notin EndStatuses
<1>1. state \in {"COMPLETED", "FAILED", "TIMEOUT", "OUT_OF_MEMORY", "CANCELLED",
                 "PENDING", "RUNNING"}
  BY KindFacts DEF States, Ended
<1>2. state # "PENDING" /\ state # "RUNNING" => state \in Ended
  BY DEF States
<1>3. QED
  BY <1>1, <1>2 DEF Status, TrueStatus, SacctState, JobStatus_value, EndStatuses

LEMMA StatusHolds ==
    ASSUME kind \in Kinds, NEW job \in JobRecord, NEW id \in Records(job), NEW status,
           \/ status = Status(job.states[id])
           \/ status = Status(SacctState(job.states[id]))
    PROVE  Holds(kind.tasks, id, status, job)
<1>1. id \in Tasks /\ job.states \in [Tasks -> States]
  BY JobFacts, KindFacts
<1>2. job.states[id] \in States
  BY <1>1
<1>3. status \in JobStatus_value /\ (status \in EndStatuses => job.states[id] = status)
  BY <1>2, StatusesAreTrue
<1>4. ASSUME NEW i \in Tasks, RecordOf(job, i) = id PROVE job.states[i] = job.states[id]
  BY <1>4, JobFacts
<1>5. QED
  BY <1>3, <1>4, Zenon DEF Holds, Records, RecordOf, Tasks

LEMMA InfosAreTrue ==
    ASSUME kind \in Kinds, NEW job \in JobRecord, NEW blocks \in Scontrol(job)
    PROVE  AnswerHolds("info", kind.tasks, InfoAnswer(blocks), job)
<1> DEFINE answer == InfoAnswer(blocks)
<1>1. PICK list \in Listings :
        /\ Range(list) = TaskLines(Kept(job))
        /\ answer.ok =>
             /\ DOMAIN answer.body = DOMAIN list
             /\ \A n \in DOMAIN list :
                  /\ answer.body[n].id = list[n][1]
                  /\ answer.body[n].status = Status(job.states[list[n][1]])
  BY InfoTold
<1> HIDE DEF answer
<1>2. ASSUME answer.ok, NEW info \in Range(answer.body)
      PROVE  Holds(kind.tasks, info.id, info.status, job)
  <2>1. PICK n \in DOMAIN list : /\ info = answer.body[n] /\ n \in DOMAIN list
                                 /\ info.id = list[n][1]
                                 /\ info.status = Status(job.states[list[n][1]])
    BY <1>1, <1>2, Zenon DEF Range
  <2>2. list[n] \in TaskLines(Kept(job))
    BY <1>1, <2>1, Zenon DEF Range
  <2>3. list[n][1] \in Records(job)
    BY <2>2, TaskLine DEF Kept
  <2>4. QED
    BY <2>1, <2>3, StatusHolds
<1>3. QED
  BY <1>2, Zenon DEF AnswerHolds, InfosHold, answer

LEMMA StepsAreTrue ==
    ASSUME kind \in Kinds, NEW job \in JobRecord, NEW lines \in Sacct(job)
    PROVE  AnswerHolds("steps", kind.tasks, StepsAnswer(lines), job)
<1> DEFINE answer == StepsAnswer(lines)
<1>1. PICK list \in Listings :
        /\ IsOfJob(list, job)
        /\ answer.ok =>
             /\ DOMAIN answer.body = DOMAIN list
             /\ \A n \in DOMAIN list :
                  /\ answer.body[n].id = list[n]
                  /\ list[n][2] = NoText =>
                       answer.body[n].status = Status(SacctState(job.states[list[n][1]]))
  BY StepsTold
<1> HIDE DEF answer
<1>2. ASSUME answer.ok, NEW step \in Range(answer.body), step.id[2] = NoText
      PROVE  Holds(kind.tasks, step.id[1], step.status, job)
  <2>1. PICK n \in DOMAIN list : /\ step = answer.body[n] /\ n \in DOMAIN list
                                 /\ step.id = list[n]
                                 /\ step.status = Status(SacctState(job.states[list[n][1]]))
    <3>1. PICK n \in DOMAIN list : step = answer.body[n] /\ n \in DOMAIN list
      BY <1>1, <1>2, Zenon DEF Range
    <3>2. step.id = list[n] /\ list[n][2] = NoText
      BY <1>1, <1>2, <3>1
    <3>3. QED
      BY <1>1, <1>2, <3>1, <3>2
  <2>2. list[n][1] \in 1..job.started \/ list[n] \in TaskLines(Records(job))
    BY <1>1, <2>1, Zenon DEF IsOfJob, Range
  <2>3. list[n][1] \in Records(job)
    BY <2>2, TaskLine DEF Records
  <2>4. QED
    BY <2>1, <2>3, StatusHolds
<1>3. "steps" # "info"
  OBVIOUS
<1>4. QED
  BY <1>2, <1>3, Zenon DEF AnswerHolds, StepsHold, answer

(* What was told of a job once holds from then on.                         *)
KeepsEnds(n, before, after) ==
    \A id, status : Holds(n, id, status, before) => Holds(n, id, status, after)

LEMMA EndsKept ==
    ASSUME NEW n, NEW job PROVE KeepsEnds(n, job, job)
  BY DEF KeepsEnds

(* Ends stay, and a task of n that starts was pending.                     *)
LEMMA EndsAreFinal ==
    ASSUME NEW n \in Nat, NEW before, NEW after, before.started \in Nat,
           \A i \in 1..n : before.states[i] \in EndStatuses => after.states[i] = before.states[i],
           \/ after.started = before.started
           \/ /\ after.started = before.started + 1 /\ after.started <= n
              /\ before.states[after.started] \notin EndStatuses
    PROVE  KeepsEnds(n, before, after)
<1> SUFFICES ASSUME NEW id, NEW status, Holds(n, id, status, before)
             PROVE  Holds(n, id, status, after)
  BY Zenon DEF KeepsEnds
<1>1. id \in 1..after.started \cup {n}
  BY DEF Holds
<1>2. ASSUME status \in EndStatuses, NEW i \in 1..n,
             (IF i <= after.started THEN i ELSE n) = id
      PROVE  after.states[i] = status
  <2>1. ASSUME (IF i <= before.started THEN i ELSE n) = id PROVE after.states[i] = status
    <3>1. before.states[i] = status
      BY <1>2, <2>1 DEF Holds
    <3>2. QED
      BY <1>2, <3>1
  <2>2. ASSUME (IF i <= before.started THEN i ELSE n) # id PROVE FALSE
    <3>1. i = after.started /\ i = id /\ i = before.started + 1
      BY <1>2, <2>2
    <3>2. id = n
      BY <3>1 DEF Holds
    <3>3. QED
      BY <2>2, <3>1, <3>2
  <2>3. QED
    BY <2>1, <2>2
<1>3. QED
  BY <1>1, <1>2, Zenon DEF Holds

LEMMA TruthKept ==
    ASSUME ToldTheTruth, kind' = kind, known' = known,
           known # 0 =>
             /\ KeepsEnds(kind.tasks, jobs[known], jobs'[known])
             /\ seen' = seen \/ InfosHold(kind.tasks, seen', jobs'[known])
             /\ \A op \in {"info", "steps"} :
                  \/ call'[op] = call[op]
                  \/ AnswerHolds(op, kind.tasks, call'[op].answer, jobs'[known])
    PROVE  ToldTheTruth'
<1>1. ASSUME known # 0, NEW infos, InfosHold(kind.tasks, infos, jobs[known])
      PROVE  InfosHold(kind.tasks, infos, jobs'[known])
  BY <1>1, Zenon DEF InfosHold, KeepsEnds
<1>2. ASSUME known # 0, NEW steps, StepsHold(kind.tasks, steps, jobs[known])
      PROVE  StepsHold(kind.tasks, steps, jobs'[known])
  BY <1>2, Zenon DEF StepsHold, KeepsEnds
<1>3. ASSUME known # 0, NEW op, NEW answer,
             AnswerHolds(op, kind.tasks, answer, jobs[known])
      PROVE  AnswerHolds(op, kind.tasks, answer, jobs'[known])
  BY <1>1, <1>2, <1>3, Zenon DEF AnswerHolds
<1>4. ASSUME known # 0 PROVE InfosHold(kind.tasks, seen', jobs'[known])
  BY <1>1, <1>4, Zenon DEF ToldTheTruth
<1>5. ASSUME known # 0, NEW op \in {"info", "steps"}
      PROVE  AnswerHolds(op, kind.tasks, call'[op].answer, jobs'[known])
  BY <1>3, <1>5, Zenon DEF ToldTheTruth
<1>6. QED
  BY <1>4, <1>5, Zenon DEF ToldTheTruth

----------------------------------------------------------------------------
(* Steps of a call                                                         *)

(* Who calls, when nothing is known and when a job is. *)
LEMMA OtherCalls ==
    ASSUME CallsInv, NEW op \in Operations, ~IsAt(op, "idle"), NEW o \in Operations,
           ~IsAt(o, "idle")
    PROVE  (op = "submit" <=> known = 0) /\ (o = "submit" <=> op = "submit")
  BY Zenon DEF CallsInv, CallsTyped

LEMMA NoOtherAnswer ==
    ASSUME CallsInv, known = 0, NEW op \in Operations \ {"submit"}
    PROVE  IsAt(op, "idle") /\ ~call[op].answer.ok
<1>1. IsAt(op, "idle")
  BY Zenon DEF CallsInv, CallsTyped
<1>2. call[op].answer = Failure
  <2>1. ~IsAt(op, "served")
    BY <1>1 DEF IsAt
  <2>2. QED
    BY <2>1, Zenon DEF CallsInv, CallsTyped
<1>3. QED
  BY <1>1, <1>2, CallFacts, Zenon

(* A step of a call that leaves the jobs alone, but for that of the client.*)
LEMMA CallOfKnownJob ==
    ASSUME CallsInv, NEW op \in Operations, NEW c, SetCall(op, c), kind' = kind,
           JobsTyped', known' = known, Len(jobs') = Len(jobs),
           c.at \in {"idle", "sent", "served"}, c.answer.ok \in BOOLEAN,
           c.at # "served" => c.answer = Failure,
           c.at # "idle" => (op = "submit" <=> known = 0)
    PROVE  CallsTyped'
<1>1. CallsTyped /\ \A o \in Operations : ~IsAt(o, "idle") => (o = "submit" <=> known = 0)
  BY Zenon DEF CallsInv, CallsTyped
<1>2. QED
  BY <1>1, CallIsTyped

LEMMA Untold ==
    ASSUME ToldTheTruth, kind' = kind, known' = known,
           known # 0 =>
             /\ KeepsEnds(kind.tasks, jobs[known], jobs'[known])
             /\ seen' = seen \/ InfosHold(kind.tasks, seen', jobs'[known]),
           \A o \in {"info", "steps"} : call'[o] = call[o] \/ ~call'[o].answer.ok
    PROVE  ToldTheTruth'
<1>1. \A o \in {"info", "steps"} :
        \/ call'[o] = call[o]
        \/ AnswerHolds(o, kind.tasks, call'[o].answer, jobs'[known])
  BY Zenon DEF AnswerHolds
<1>2. QED
  BY <1>1, TruthKept, Zenon

LEMMA SendStep ==
    ASSUME CallsInv, NEW op \in Operations, Send(op)
    PROVE  CallsInv'
<1> DEFINE c == Call("sent", Failure)
<1>1. /\ SetCall(op, c) /\ IsAt(op, "idle") /\ (op = "submit" <=> known = 0)
      /\ kind' = kind /\ jobs' = jobs /\ known' = known /\ seen' = seen /\ failures' = failures
  BY Zenon DEF Send
<1>2. c.at = "sent" /\ c.answer = Failure
  BY CallFacts, Zenon
<1> HIDE DEF c
<1>3. JobsTyped'
  BY <1>1, SameKind DEF CallsInv, JobsTyped
<1>4. CallsTyped'
  <2>1. c.answer.ok \in BOOLEAN
    BY <1>2, CallFacts, Zenon
  <2>2. QED
    BY <1>1, <1>2, <1>3, <2>1, CallOfKnownJob
<1>5. call'[op] = c /\ \A o \in Operations \ {op} : call'[o] = call[o]
  BY <1>1, CallGoes DEF CallsInv
<1>6. SubmissionsCounted'
  <2>1. CASE op = "submit"
    <3>1. ~IsAt("submit", "served") /\ ~IsAt("submit", "served")'
      BY <1>1, <1>2, <1>5, <2>1 DEF IsAt
    <3>2. QED
      BY <1>1, <3>1 DEF CallsInv, SubmissionsCounted
  <2>2. CASE op # "submit"
    BY <1>1, <2>2, KnownCallCounted
  <2>3. QED
    BY <2>1, <2>2
<1>7. ToldTheTruth'
  <2>1. \A o \in {"info", "steps"} : call'[o] = call[o] \/ ~call'[o].answer.ok
    <3>1. ASSUME NEW o \in {"info", "steps"} PROVE call'[o] = call[o] \/ ~call'[o].answer.ok
      <4>1. CASE o = op
        BY <1>2, <1>5, <4>1, CallFacts, Zenon
      <4>2. CASE o # op
        BY <1>5, <4>2 DEF Operations
      <4>3. QED
        BY <4>1, <4>2
    <3>2. QED
      BY <3>1
  <2>2. QED
    BY <1>1, <2>1, Untold, EndsKept DEF CallsInv
<1>8. QED
  BY <1>3, <1>4, <1>6, <1>7 DEF CallsInv

(* The answer is lost, or the client did not get it read. *)
LEMMA LoseStep ==
    ASSUME CallsInv, NEW op \in Operations, Lose(op)
    PROVE  CallsInv'
<1>1. /\ SetCall(op, Idle) /\ IsAt(op, "served") /\ failures < MaxFailures
      /\ kind' = kind /\ jobs' = jobs /\ known' = known /\ seen' = seen
      /\ failures' = failures + 1
  BY Zenon DEF Lose
<1>2. op = "submit" <=> known = 0
  BY <1>1 DEF CallsInv, CallsTyped, IsAt
<1>3. JobsTyped'
  BY <1>1, SameKind DEF CallsInv, JobsTyped
<1>4. CallsTyped'
  BY <1>1, <1>2, <1>3, CallFacts, CallOfKnownJob
<1>5. call'[op] = Idle /\ \A o \in Operations \ {op} : call'[o] = call[o]
  BY <1>1, CallGoes DEF CallsInv
<1>6. SubmissionsCounted'
  <2>1. CASE op = "submit"
    <3>1. ~IsAt("submit", "served")' /\ IsAt("submit", "served") /\ known' = 0
      BY <1>1, <1>2, <1>5, <2>1, CallFacts DEF IsAt
    <3>2. failures \in Nat /\ MaxFailures \in Nat /\ Len(jobs) \in Nat
      BY KnownJob, KindsAssumption DEF CallsInv, SubmissionsCounted
    <3>3. Len(jobs) <= failures + 1
      BY <3>1 DEF CallsInv, SubmissionsCounted
    <3>4. failures' \in Nat /\ failures' <= MaxFailures /\ Len(jobs') <= failures'
      BY <1>1, <3>2, <3>3
    <3>5. QED
      BY <3>1, <3>4 DEF SubmissionsCounted
  <2>2. CASE op # "submit"
    BY <1>1, <1>2, <2>2, KnownCallCounted
  <2>3. QED
    BY <2>1, <2>2
<1>7. ToldTheTruth'
  <2>1. ASSUME NEW o \in {"info", "steps"} PROVE call'[o] = call[o] \/ ~call'[o].answer.ok
    <3>1. CASE o = op
      BY <1>5, <3>1, CallFacts, Zenon
    <3>2. CASE o # op
      BY <1>5, <3>2 DEF Operations
    <3>3. QED
      BY <3>1, <3>2
  <2>2. QED
    BY <1>1, <2>1, Untold, EndsKept DEF CallsInv
<1>8. QED
  BY <1>3, <1>4, <1>6, <1>7 DEF CallsInv

(* The client learns of its job when the submission did not fail.          *)
LEMMA ReceiveSubmission ==
    ASSUME CallsInv, Receive("submit")
    PROVE  CallsInv'
<1> DEFINE answer == call["submit"].answer
<1>1. /\ SetCall("submit", Idle) /\ IsAt("submit", "served") /\ kind' = kind /\ jobs' = jobs
      /\ known' = IF answer.ok THEN answer.body[1] ELSE known
      /\ seen' = seen
      /\ failures' = IF answer.ok THEN failures ELSE failures + 1
  BY Zenon DEF Receive
<1>2. known = 0 /\ seen = {}
  BY <1>1 DEF CallsInv, CallsTyped, JobsTyped, IsAt, Operations
<1>3. /\ failures \in Nat /\ MaxFailures \in Nat /\ Len(jobs) \in Nat
      /\ Len(jobs) <= failures + 1 /\ failures <= MaxFailures
  BY <1>1, KnownJob, KindsAssumption DEF CallsInv, SubmissionsCounted
<1>4. /\ answer.ok => Len(jobs) >= 1 /\ answer.body[1] = Len(jobs)
      /\ ~answer.ok => failures < MaxFailures
  BY <1>1 DEF CallsInv, SubmissionsCounted
<1> HIDE DEF answer
<1>5. /\ answer.ok => known' = Len(jobs) /\ known' # 0 /\ failures' = failures
      /\ ~answer.ok => known' = 0 /\ failures' = failures + 1 /\ failures < MaxFailures
  BY <1>1, <1>2, <1>3, <1>4
<1>6. JobsTyped'
  BY <1>1, <1>2, <1>3, <1>5, SameKind DEF CallsInv, JobsTyped
<1>7. call'["submit"] = Idle /\ \A o \in Operations \ {"submit"} : call'[o] = call[o]
  BY <1>1, CallGoes DEF CallsInv, Operations
<1>8. \A o \in Operations \ {"submit"} : IsAt(o, "idle") /\ ~call'[o].answer.ok
  BY <1>2, <1>7, NoOtherAnswer
<1>9. CallsTyped'
  <2>1. Idle.at = "idle" /\ Idle.answer = Failure /\ Idle.answer.ok \in BOOLEAN
    BY CallFacts, Zenon
  <2>2. "submit" \in Operations /\ CallsTyped
    BY DEF Operations, CallsInv
  <2>3. QED
    BY <1>1, <1>8, <2>1, <2>2, CallIsTyped
<1>10. SubmissionsCounted'
  <2>1. ~IsAt("submit", "served")'
    BY <1>7, CallFacts DEF IsAt
  <2>2. /\ failures' \in Nat /\ failures' <= MaxFailures
        /\ Len(jobs') <= IF known' = 0 THEN failures' ELSE failures' + 1
    BY <1>1, <1>3, <1>5
  <2>3. QED
    BY <2>1, <2>2 DEF SubmissionsCounted
<1>11. ToldTheTruth'
  <2>1. InfosHold(kind'.tasks, seen', jobs'[known'])
    BY <1>1, <1>2, Zenon DEF InfosHold
  <2>2. \A o \in {"info", "steps"} : ~call'[o].answer.ok
    BY <1>8 DEF Operations
  <2>3. \A o \in {"info", "steps"} :
          AnswerHolds(o, kind'.tasks, call'[o].answer, jobs'[known'])
    BY <2>2, Zenon DEF AnswerHolds
  <2>4. QED
    BY <2>1, <2>3, Zenon DEF ToldTheTruth
<1>12. QED
  BY <1>6, <1>9, <1>10, <1>11 DEF CallsInv

LEMMA ReceiveStep ==
    ASSUME CallsInv, NEW op \in Operations \ {"submit"}, Receive(op)
    PROVE  CallsInv'
<1> DEFINE answer == call[op].answer
<1>1. /\ SetCall(op, Idle) /\ IsAt(op, "served") /\ kind' = kind /\ jobs' = jobs
      /\ known' = known
      /\ seen' = IF op = "info" /\ answer.ok THEN Statuses(answer.body) ELSE seen
      /\ failures' = failures
  BY Zenon DEF Receive
<1>2. known # 0
  BY <1>1 DEF CallsInv, CallsTyped, IsAt
<1>3. JobsTyped'
  <2>1. seen' \subseteq [id : Tasks, status : JobStatus_value]
    <3>1. CASE op = "info" /\ answer.ok
      <4>1. \A info \in Range(answer.body) :
              info.id \in Tasks /\ info.status \in JobStatus_value
        <5>1. InfosHold(kind.tasks, Range(answer.body), Job) /\ Job \in JobRecord
          BY <1>2, <3>1, KnownJob DEF CallsInv, ToldTheTruth, AnswerHolds, Job
        <5>2. 1..Job.started \cup {kind.tasks} \subseteq Tasks
          BY <5>1, JobFacts, KindFacts DEF CallsInv, JobsTyped, Records
        <5>3. QED
          BY <5>1, <5>2, Zenon DEF InfosHold, Holds
      <4>2. seen' = Statuses(answer.body)
        BY <1>1, <3>1
      <4>3. QED
        BY <4>1, <4>2 DEF Statuses
    <3>2. CASE ~(op = "info" /\ answer.ok)
      BY <1>1, <3>2 DEF CallsInv, JobsTyped
    <3>3. QED
      BY <3>1, <3>2
  <2>2. QED
    BY <1>1, <1>2, <2>1, SameKind DEF CallsInv, JobsTyped
<1>4. CallsTyped'
  BY <1>1, <1>2, <1>3, CallFacts, CallOfKnownJob
<1>5. call'[op] = Idle /\ \A o \in Operations \ {op} : call'[o] = call[o]
  BY <1>1, CallGoes DEF CallsInv
<1>6. SubmissionsCounted'
  BY <1>1, <1>2, KnownCallCounted
<1>7. ToldTheTruth'
  <2>1. ASSUME NEW o \in {"info", "steps"} PROVE call'[o] = call[o] \/ ~call'[o].answer.ok
    <3>1. CASE o = op
      BY <1>5, <3>1, CallFacts, Zenon
    <3>2. CASE o # op
      BY <1>5, <3>2 DEF Operations
    <3>3. QED
      BY <3>1, <3>2
  <2>2. CASE op = "info" /\ answer.ok
    <3>1. InfosHold(kind.tasks, Range(answer.body), jobs[known])
      BY <1>2, <2>2 DEF CallsInv, ToldTheTruth, AnswerHolds
    <3>2. ASSUME NEW body, InfosHold(kind.tasks, Range(body), jobs[known])
          PROVE  InfosHold(kind.tasks, Statuses(body), jobs[known])
      BY <3>2 DEF InfosHold, Statuses
    <3>3. seen' = Statuses(answer.body)
      BY <1>1, <2>2
    <3>4. InfosHold(kind.tasks, seen', jobs'[known])
      BY <1>1, <3>1, <3>2, <3>3
    <3>5. QED
      BY <1>1, <2>1, <3>4, Untold, EndsKept DEF CallsInv
  <2>3. CASE ~(op = "info" /\ answer.ok)
    <3>1. seen' = seen
      BY <1>1, <2>3
    <3>2. QED
      BY <1>1, <2>1, <3>1, Untold, EndsKept DEF CallsInv
  <2>4. QED
    BY <2>2, <2>3
<1>8. QED
  BY <1>3, <1>4, <1>6, <1>7 DEF CallsInv

LEMMA NewJobIsJob ==
    ASSUME kind \in Kinds
    PROVE  NewJob \in JobRecord
<1>1. "PENDING" \in States /\ 0 \in 0..kind.tasks /\ {} \in SUBSET Tasks
  <2>1. kind.tasks \in Nat
    BY KindFacts
  <2>2. QED
    BY <2>1 DEF States
<1>2. NewJob \in [states : [Tasks -> States], started : 0..kind.tasks, purged : SUBSET Tasks]
  BY <1>1 DEF NewJob
<1>3. /\ NewJob.purged = {} /\ NewJob.started = 0
      /\ \A i \in Tasks : NewJob.states[i] = "PENDING"
  BY DEF NewJob
<1>4. \A i \in Tasks : ~(i <= 0)
  BY DEF Tasks
<1>5. IsShaped(kind.tasks, NewJob)
  BY <1>3, <1>4, KindFacts DEF IsShaped, Tasks
<1>6. QED
  BY <1>2, <1>5, Zenon DEF JobRecord

(* Whether the client will know it or not, there is one job more. *)
LEMMA SBatchStep ==
    ASSUME CallsInv, SBatch
    PROVE  CallsInv'
<1>1. PICK answer :
        /\ IsAt("submit", "sent") /\ SetCall("submit", Call("served", answer))
        /\ \/ answer = Answer(<<Len(jobs) + 1>>)
           \/ answer = Failure /\ failures < MaxFailures
  BY Zenon DEF SBatch, Serve
<1>2. PICK job \in JobRecord : jobs' = Append(jobs, job)
  BY NewJobIsJob, Zenon DEF SBatch, CallsInv, JobsTyped
<1>3. kind' = kind /\ known' = known /\ seen' = seen /\ failures' = failures
  BY Zenon DEF SBatch
<1>4. known = 0 /\ seen = {}
  BY <1>1 DEF CallsInv, CallsTyped, JobsTyped, IsAt, Operations
<1>5. /\ failures \in Nat /\ MaxFailures \in Nat /\ Len(jobs) \in Nat
      /\ Len(jobs) <= failures /\ failures <= MaxFailures
  BY <1>1, <1>4, KnownJob, KindsAssumption DEF CallsInv, SubmissionsCounted, IsAt
<1>6. jobs' \in Seq(JobRecord) /\ Len(jobs') = Len(jobs) + 1
  BY <1>2 DEF CallsInv, JobsTyped
<1>7. JobsTyped'
  BY <1>3, <1>4, <1>5, <1>6, SameKind DEF CallsInv, JobsTyped
<1>8. Call("served", answer).at = "served" /\ Call("served", answer).answer = answer
  BY CallFacts, Zenon
<1>9. answer.ok \in BOOLEAN
  BY <1>1, CallFacts, Zenon
<1>10. "submit" \in Operations /\ CallsTyped
  BY DEF Operations, CallsInv
<1>11. /\ call'["submit"] = Call("served", answer)
       /\ \A o \in Operations \ {"submit"} : call'[o] = call[o]
  BY <1>1, <1>10, CallGoes
<1>12. \A o \in Operations \ {"submit"} : IsAt(o, "idle")
  BY <1>4, NoOtherAnswer
<1>13. CallsTyped'
  BY <1>1, <1>3, <1>4, <1>8, <1>9, <1>10, <1>12, CallIsTyped
<1>14. SubmissionsCounted'
  <2>1. IsAt("submit", "served")' /\ call'["submit"].answer = answer
    BY <1>8, <1>11, Zenon DEF IsAt
  <2>2. answer.ok => answer.body[1] = Len(jobs')
    <3>1. ASSUME answer.ok PROVE answer.body = <<Len(jobs) + 1>>
      BY <1>1, <3>1, CallFacts, Zenon
    <3>2. QED
      BY <1>6, <3>1
  <2>3. ~answer.ok => failures < MaxFailures
    BY <1>1, CallFacts, Zenon
  <2>4. Len(jobs') <= failures' + 1 /\ Len(jobs') >= 1
    BY <1>3, <1>5, <1>6
  <2>5. QED
    BY <1>3, <1>5, <2>1, <2>2, <2>3, <2>4 DEF SubmissionsCounted
<1>15. ToldTheTruth'
  BY <1>3, <1>4, Zenon DEF ToldTheTruth
<1>16. QED
  BY <1>7, <1>13, <1>14, <1>15 DEF CallsInv

LEMMA SubmitRefusedStep ==
    ASSUME CallsInv, SubmitRefused
    PROVE  CallsInv'
<1> DEFINE c == Call("served", Failure)
<1>1. /\ IsAt("submit", "sent") /\ SetCall("submit", c) /\ failures < MaxFailures
      /\ kind' = kind /\ jobs' = jobs /\ known' = known /\ seen' = seen /\ failures' = failures
  BY Zenon DEF SubmitRefused, Serve
<1>2. known = 0 /\ "submit" \in Operations
  BY <1>1 DEF CallsInv, CallsTyped, IsAt, Operations
<1>3. JobsTyped'
  BY <1>1, SameKind DEF CallsInv, JobsTyped
<1>4. c.at = "served" /\ c.answer = Failure /\ c.answer.ok \in BOOLEAN
  <2>1. c.at = "served" /\ c.answer = Failure
    BY CallFacts, Zenon
  <2>2. Failure.ok \in BOOLEAN
    BY CallFacts, Zenon
  <2> HIDE DEF c
  <2>3. QED
    BY <2>1, <2>2
<1> HIDE DEF c
<1>5. CallsTyped'
  BY <1>1, <1>2, <1>3, <1>4, CallOfKnownJob
<1>6. call'["submit"] = c
  BY <1>1, <1>2, CallGoes DEF CallsInv
<1>7. SubmissionsCounted'
  <2>1. IsAt("submit", "served")' /\ ~call'["submit"].answer.ok
    BY <1>4, <1>6, CallFacts, Zenon DEF IsAt
  <2>2. Len(jobs) <= failures /\ failures \in Nat /\ Len(jobs) \in Nat
    BY <1>1, <1>2, KnownJob DEF CallsInv, SubmissionsCounted, IsAt
  <2>3. Len(jobs') <= failures' + 1
    BY <1>1, <2>2
  <2>4. QED
    BY <1>1, <2>1, <2>2, <2>3 DEF CallsInv, SubmissionsCounted
<1>8. ToldTheTruth'
  BY <1>1, <1>2, Zenon DEF ToldTheTruth
<1>9. QED
  BY <1>3, <1>5, <1>7, <1>8 DEF CallsInv

(* The steps that answer a call about a known job.  *)
LEMMA ServedCall ==
    ASSUME CallsInv, NEW op \in Operations \ {"submit"}, NEW answer, Serve(op, answer),
           answer.ok \in BOOLEAN, kind' = kind, JobsTyped', known' = known,
           Len(jobs') = Len(jobs), seen' = seen,
           failures' = failures \/ (failures < MaxFailures /\ failures' = failures + 1),
           known # 0 => KeepsEnds(kind.tasks, jobs[known], jobs'[known]),
           op \in {"info", "steps"} => AnswerHolds(op, kind.tasks, answer, jobs'[known])
    PROVE  CallsInv'
<1> DEFINE c == Call("served", answer)
<1>1. SetCall(op, c) /\ IsAt(op, "sent")
  BY Zenon DEF Serve
<1>2. c.at = "served" /\ c.answer = answer
  BY CallFacts, Zenon
<1> HIDE DEF c
<1>3. known # 0
  BY <1>1 DEF CallsInv, CallsTyped, IsAt
<1>4. CallsTyped'
  BY <1>1, <1>2, <1>3, CallOfKnownJob
<1>5. call'[op] = c /\ \A o \in Operations \ {op} : call'[o] = call[o]
  BY <1>1, CallGoes DEF CallsInv
<1>6. SubmissionsCounted'
  BY <1>1, <1>3, KnownCallCounted
<1>7. ToldTheTruth'
  <2>1. ASSUME NEW o \in {"info", "steps"}
        PROVE  \/ call'[o] = call[o]
               \/ AnswerHolds(o, kind.tasks, call'[o].answer, jobs'[known])
    <3>1. CASE o = op
      <4>1. call'[o].answer = answer
        BY <1>2, <1>5, <3>1
      <4>2. QED
        BY <3>1, <4>1, Zenon
    <3>2. CASE o # op
      BY <1>5, <3>2 DEF Operations
    <3>3. QED
      BY <3>1, <3>2
  <2>2. QED
    BY <2>1, TruthKept DEF CallsInv
<1>8. QED
  BY <1>4, <1>6, <1>7 DEF CallsInv

LEMMA JobsMove ==
    ASSUME JobsTyped, known # 0, kind' = kind, known' = known, seen' = seen,
           NEW new \in JobRecord, jobs' = [jobs EXCEPT ![known] = new]
    PROVE  JobsTyped' /\ Len(jobs') = Len(jobs) /\ jobs'[known] = new
<1>1. known \in DOMAIN jobs /\ jobs \in Seq(JobRecord) /\ DOMAIN jobs = 1..Len(jobs)
  BY KnownJob DEF JobsTyped
<1>2. jobs' \in Seq(JobRecord) /\ Len(jobs') = Len(jobs) /\ jobs'[known] = new
  BY <1>1
<1>3. JobsTyped'
  BY <1>2, SameKind DEF JobsTyped
<1>4. QED
  BY <1>2, <1>3

LEMMA IsJobRecord ==
    ASSUME NEW job, job = [states |-> job.states, started |-> job.started, purged |-> job.purged],
           job.states \in [Tasks -> States], job.started \in 0..kind.tasks,
           job.purged \in SUBSET Tasks, IsShaped(kind.tasks, job)
    PROVE  job \in JobRecord
<1>1. job \in [states : [Tasks -> States], started : 0..kind.tasks, purged : SUBSET Tasks]
  OBVIOUS
<1>2. QED
  BY <1>1, Zenon DEF JobRecord

LEMMA JobFields ==
    ASSUME NEW job \in JobRecord
    PROVE  /\ job = [states |-> job.states, started |-> job.started, purged |-> job.purged]
           /\ job.states \in [Tasks -> States] /\ job.started \in 0..kind.tasks
           /\ job.purged \in SUBSET Tasks /\ IsShaped(kind.tasks, job)
<1>1. /\ job \in [states : [Tasks -> States], started : 0..kind.tasks, purged : SUBSET Tasks]
      /\ IsShaped(kind.tasks, job)
  BY Zenon DEF JobRecord
<1>2. QED
  BY <1>1

(* All that has not ended is cancelled. *)
LEMMA Cancelled ==
    ASSUME kind \in Kinds, NEW job \in JobRecord, NEW new,
           new = [job EXCEPT !.states =
                    [i \in Tasks |-> IF @[i] \in Ended THEN @[i] ELSE "CANCELLED"]]
    PROVE  new \in JobRecord /\ KeepsEnds(kind.tasks, job, new)
<1>1. /\ job = [states |-> job.states, started |-> job.started, purged |-> job.purged]
      /\ job.states \in [Tasks -> States] /\ job.started \in 0..kind.tasks
      /\ job.purged \in SUBSET Tasks /\ IsShaped(kind.tasks, job)
  BY JobFields
<1>2. kind.tasks \in Nat /\ Tasks = 1..kind.tasks /\ kind.tasks \in Tasks
  BY KindFacts DEF Tasks
<1>3. /\ new.states = [i \in Tasks |-> IF job.states[i] \in Ended THEN job.states[i]
                                                               ELSE "CANCELLED"]
      /\ new.started = job.started /\ new.purged = job.purged
      /\ new = [states |-> new.states, started |-> new.started, purged |-> new.purged]
  BY <1>1
<1>4. "CANCELLED" \in Ended /\ "PENDING" \notin Ended /\ Ended \subseteq States
  BY KindFacts DEF States, Ended
<1>5. new.states \in [Tasks -> States]
  BY <1>3, <1>4
<1>6. IsShaped(kind.tasks, new)
  <2>1. ASSUME NEW i \in Tasks
        PROVE  IF i <= job.started THEN new.states[i] # "PENDING"
               ELSE /\ new.states[i] \in {"PENDING", "CANCELLED"}
                    /\ new.states[i] = new.states[kind.tasks]
    BY <1>1, <1>2, <1>3, <1>4 DEF IsShaped
  <2>2. QED
    BY <1>1, <1>2, <1>3, <2>1 DEF IsShaped
<1>7. new \in JobRecord
  BY <1>1, <1>3, <1>5, <1>6, IsJobRecord
<1>8. ASSUME NEW i \in 1..kind.tasks, job.states[i] \in EndStatuses
      PROVE  new.states[i] = job.states[i]
  <2>1. job.states[i] \in States
    BY <1>1, <1>2
  <2>2. job.states[i] \in Ended
    BY <1>8, <2>1, StatusesAreTrue
  <2>3. QED
    BY <1>2, <1>3, <2>2
<1>9. KeepsEnds(kind.tasks, job, new)
  <2>1. new.started = job.started /\ job.started \in Nat /\ kind.tasks \in Nat
    BY <1>1, <1>2, <1>3
  <2>2. QED
    BY <1>8, <2>1, EndsAreFinal
<1>10. QED
  BY <1>7, <1>9

LEMMA CancelStep ==
    ASSUME CallsInv, CancelJob
    PROVE  CallsInv'
<1> DEFINE new == [jobs[known] EXCEPT !.states =
                     [i \in Tasks |-> IF @[i] \in Ended THEN @[i] ELSE "CANCELLED"]]
<1>1. PICK answer : Serve("cancel", answer) /\ answer.ok \in BOOLEAN
  BY CallFacts, Zenon DEF CancelJob
<1>2. kind' = kind /\ known' = known /\ seen' = seen /\ failures' = failures /\ SCancel
  BY Zenon DEF CancelJob
<1>3. known # 0 /\ JobsTyped
  BY <1>1 DEF CallsInv, CallsTyped, IsAt, Operations, Serve
<1>4. known \in DOMAIN jobs /\ jobs[known] \in JobRecord /\ kind \in Kinds
  BY <1>3, KnownJob DEF Job, JobsTyped
<1>5. jobs' = [jobs EXCEPT ![known] = new]
  BY <1>2, <1>4 DEF SCancel
<1>6. new \in JobRecord /\ KeepsEnds(kind.tasks, jobs[known], new)
  BY <1>4, Cancelled
<1> HIDE DEF new
<1>7. JobsTyped' /\ Len(jobs') = Len(jobs) /\ jobs'[known] = new
  BY <1>2, <1>3, <1>5, <1>6, JobsMove
<1>8. "cancel" \in Operations \ {"submit"} /\ "cancel" \notin {"info", "steps"}
  BY DEF Operations
<1>9. QED
  BY <1>1, <1>2, <1>6, <1>7, <1>8, ServedCall

(* Statuses that JobInfo and JobSteps tell are true when they are told.    *)
LEMMA NothingTold ==
    ASSUME NEW op, NEW n, NEW job PROVE AnswerHolds(op, n, Failure, job)
  BY CallFacts, Zenon DEF AnswerHolds

LEMMA JobInfoStep ==
    ASSUME CallsInv, JobInfo
    PROVE  CallsInv'
<1>1. kind' = kind /\ jobs' = jobs /\ known' = known /\ seen' = seen /\ failures' = failures
  BY Zenon DEF JobInfo
<1>2. known # 0 /\ JobsTyped
  BY DEF CallsInv, CallsTyped, IsAt, Operations, JobInfo
<1>3. kind \in Kinds /\ Job \in JobRecord
  BY <1>2, KnownJob DEF JobsTyped
<1>4. PICK answer : /\ Serve("info", answer) /\ answer.ok \in BOOLEAN
                    /\ AnswerHolds("info", kind.tasks, answer, Job)
  <2>1. CASE Serve("info", Failure)
    BY <2>1, NothingTold, CallFacts, Zenon
  <2>2. CASE ~Serve("info", Failure)
    <3>1. PICK blocks \in Scontrol(Job) : Serve("info", InfoAnswer(blocks))
      BY <2>2, Zenon DEF JobInfo
    <3>2. InfoAnswer(blocks).ok \in BOOLEAN
      BY CallFacts, Zenon DEF InfoAnswer
    <3>3. AnswerHolds("info", kind.tasks, InfoAnswer(blocks), Job)
      BY <1>3, InfosAreTrue
    <3>4. QED
      BY <3>1, <3>2, <3>3, Zenon
  <2>3. QED
    BY <2>1, <2>2
<1>5. JobsTyped'
  BY <1>1, <1>2, SameKind DEF JobsTyped
<1>6. "info" \in Operations \ {"submit"}
  BY DEF Operations
<1>7. KeepsEnds(kind.tasks, jobs[known], jobs'[known])
  BY <1>1, EndsKept
<1>8. QED
  BY <1>1, <1>4, <1>5, <1>6, <1>7, ServedCall DEF Job

(* What sacct prints of a job is read, unless it says nothing or something *)
(* in it is spoilt.                                                        *)
LEMMA StepsServed ==
    ASSUME JobSteps
    PROVE  \/ /\ failures' = failures
              /\ \E lines \in Sacct(Job) : Serve("steps", StepsAnswer(lines))
           \/ /\ failures' = failures /\ Range(Job.states) = {"PENDING"}
              /\ \E lines : Serve("steps", StepsAnswer(lines)) /\ StepsAnswer(lines) = Failure
           \/ /\ failures' = failures + 1
              /\ \E lines : Serve("steps", StepsAnswer(lines)) /\ StepsAnswer(lines) = Failure
<1>1. CASE failures' = failures
           /\ \E lines \in Sacct(Job) \cup Unstarted(Job) : Serve("steps", StepsAnswer(lines))
  <2>1. PICK lines \in Sacct(Job) \cup Unstarted(Job) : Serve("steps", StepsAnswer(lines))
    BY <1>1
  <2>2. CASE lines \in Sacct(Job)
    BY <1>1, <2>1, <2>2
  <2>3. CASE lines \in Unstarted(Job)
    <3>1. lines = Nothing /\ Range(Job.states) = {"PENDING"}
      BY <2>3, Zenon DEF Unstarted
    <3>2. QED
      BY <1>1, <2>1, <3>1, NothingUnread, Zenon
  <2>4. QED
    BY <2>1, <2>2, <2>3
<1>2. CASE failures' = failures + 1
           /\ \E text \in Sacct(Job) : \E n \in DOMAIN text : \E lines \in Spoilt(text, n) :
                Serve("steps", StepsAnswer(lines))
  <2>1. PICK text \in Sacct(Job) : \E n \in DOMAIN text : \E lines \in Spoilt(text, n) :
                Serve("steps", StepsAnswer(lines))
    BY <1>2
  <2>2. PICK n \in DOMAIN text : \E lines \in Spoilt(text, n) :
                Serve("steps", StepsAnswer(lines))
    BY <2>1
  <2>3. PICK lines \in Spoilt(text, n) : Serve("steps", StepsAnswer(lines))
    BY <2>2
  <2>4. StepsAnswer(lines) = Failure
    BY SpoiltUnread
  <2>5. QED
    BY <1>2, <2>3, <2>4, Zenon
<1>3. QED
  BY <1>1, <1>2, Zenon DEF JobSteps

LEMMA JobStepsStep ==
    ASSUME CallsInv, JobSteps
    PROVE  CallsInv'
<1>1. /\ kind' = kind /\ jobs' = jobs /\ known' = known /\ seen' = seen
      /\ failures' = failures \/ (failures < MaxFailures /\ failures' = failures + 1)
  BY Zenon DEF JobSteps
<1>2. known # 0 /\ JobsTyped
  BY DEF CallsInv, CallsTyped, IsAt, Operations, JobSteps
<1>3. kind \in Kinds /\ Job \in JobRecord
  BY <1>2, KnownJob DEF JobsTyped
<1>4. PICK answer : /\ Serve("steps", answer) /\ answer.ok \in BOOLEAN
                    /\ AnswerHolds("steps", kind.tasks, answer, Job)
  <2>1. ASSUME NEW lines, Serve("steps", StepsAnswer(lines)),
               AnswerHolds("steps", kind.tasks, StepsAnswer(lines), Job)
        PROVE  \E answer : /\ Serve("steps", answer) /\ answer.ok \in BOOLEAN
                           /\ AnswerHolds("steps", kind.tasks, answer, Job)
    <3>1. StepsAnswer(lines).ok \in BOOLEAN
      BY CallFacts, Zenon DEF StepsAnswer
    <3>2. QED
      BY <2>1, <3>1, Zenon
  <2>2. CASE \E lines \in Sacct(Job) : Serve("steps", StepsAnswer(lines))
    <3>1. PICK lines \in Sacct(Job) : Serve("steps", StepsAnswer(lines))
      BY <2>2
    <3>2. AnswerHolds("steps", kind.tasks, StepsAnswer(lines), Job)
      BY <1>3, StepsAreTrue
    <3>3. QED
      BY <2>1, <3>1, <3>2
  <2>3. CASE \E lines : Serve("steps", StepsAnswer(lines)) /\ StepsAnswer(lines) = Failure
    BY <2>1, <2>3, NothingTold
  <2>4. QED
    BY <2>2, <2>3, StepsServed
<1>5. JobsTyped'
  BY <1>1, <1>2, SameKind DEF JobsTyped
<1>6. "steps" \in Operations \ {"submit"}
  BY DEF Operations
<1>7. KeepsEnds(kind.tasks, jobs[known], jobs'[known])
  BY <1>1, EndsKept
<1>8. QED
  BY <1>1, <1>4, <1>5, <1>6, <1>7, ServedCall DEF Job

----------------------------------------------------------------------------
(* Steps of Slurm, and the invariant                                       *)

LEMMA SlurmLeavesCalls ==
    ASSUME CallsInv, call' = call, kind' = kind, known' = known, seen' = seen,
           failures' = failures, JobsTyped', Len(jobs') = Len(jobs),
           known # 0 => KeepsEnds(kind.tasks, jobs[known], jobs'[known])
    PROVE  CallsInv'
<1>1. CallsTyped'
  BY DEF CallsInv, CallsTyped, IsAt
<1>2. SubmissionsCounted'
  BY DEF CallsInv, SubmissionsCounted, IsAt
<1>3. ToldTheTruth'
  BY TruthKept DEF CallsInv
<1>4. QED
  BY <1>1, <1>2, <1>3 DEF CallsInv

LEMMA JobMoves ==
    ASSUME CallsInv, known # 0, NEW new \in JobRecord,
           KeepsEnds(kind.tasks, jobs[known], new), jobs' = [jobs EXCEPT ![known] = new],
           UNCHANGED <<kind, known, call, seen, failures>>
    PROVE  CallsInv'
<1>1. JobsTyped' /\ Len(jobs') = Len(jobs) /\ jobs'[known] = new
  BY JobsMove DEF CallsInv
<1>2. KeepsEnds(kind.tasks, jobs[known], jobs'[known])
  BY <1>1
<1>3. QED
  BY <1>1, <1>2, SlurmLeavesCalls

LEMMA TaskChanged ==
    ASSUME NEW job, job = [states |-> job.states, started |-> job.started, purged |-> job.purged],
           NEW i, NEW state, NEW m, NEW new,
           new = [job EXCEPT !.states[i] = state, !.started = m]
    PROVE  /\ new.states = [job.states EXCEPT ![i] = state]
           /\ new.started = m /\ new.purged = job.purged
           /\ new = [states |-> new.states, started |-> new.started, purged |-> new.purged]
<1>1. PICK s, t, p : job = [states |-> s, started |-> t, purged |-> p]
  BY Zenon
<1>2. new = [states |-> [s EXCEPT ![i] = state], started |-> m, purged |-> p]
  BY <1>1
<1>3. job.states = s /\ job.purged = p
  BY <1>1
<1>4. QED
  BY <1>2, <1>3

LEMMA TaskStarts ==
    ASSUME kind \in Kinds, NEW job \in JobRecord, NEW i \in Tasks,
           i = job.started + 1, job.states[i] = "PENDING", NEW new,
           new = [job EXCEPT !.states[i] = "RUNNING", !.started = IF i > @ THEN i ELSE @]
    PROVE  new \in JobRecord /\ KeepsEnds(kind.tasks, job, new)
<1>1. /\ job = [states |-> job.states, started |-> job.started, purged |-> job.purged]
      /\ job.states \in [Tasks -> States] /\ job.started \in 0..kind.tasks
      /\ job.purged \in SUBSET Tasks /\ IsShaped(kind.tasks, job)
  BY JobFields
<1>2. kind.tasks \in Nat /\ Tasks = 1..kind.tasks /\ kind.tasks \in Tasks
  BY KindFacts DEF Tasks
<1>3. "RUNNING" \in States /\ "RUNNING" # "PENDING" /\ "PENDING" \notin EndStatuses
  BY DEF States, EndStatuses
<1>4. /\ new.states = [job.states EXCEPT ![i] = "RUNNING"]
      /\ new.started = job.started + 1 /\ new.purged = job.purged
      /\ new = [states |-> new.states, started |-> new.started, purged |-> new.purged]
  <2>1. i > job.started
    BY <1>1, <1>2
  <2>2. new = [job EXCEPT !.states[i] = "RUNNING", !.started = job.started + 1]
    BY <2>1
  <2>3. QED
    BY <1>1, <2>2, TaskChanged
<1>5. new.states \in [Tasks -> States] /\ new.started \in 0..kind.tasks
  BY <1>1, <1>2, <1>3, <1>4
<1>6. IsShaped(kind.tasks, new)
  <2>1. ASSUME NEW m \in Tasks
        PROVE  IF m <= new.started THEN new.states[m] # "PENDING"
               ELSE /\ new.states[m] \in {"PENDING", "CANCELLED"}
                    /\ new.states[m] = new.states[kind.tasks]
    <3>1. CASE m <= job.started
      BY <1>1, <1>2, <1>3, <1>4, <3>1 DEF IsShaped
    <3>2. CASE m = i
      BY <1>1, <1>2, <1>3, <1>4, <3>2
    <3>3. CASE m > i
      <4>1. kind.tasks # i /\ m # i /\ ~(m <= job.started) /\ ~(m <= new.started)
        BY <1>1, <1>2, <1>4, <3>3
      <4>2. new.states[m] = job.states[m] /\ new.states[kind.tasks] = job.states[kind.tasks]
        BY <1>1, <1>2, <1>4, <4>1
      <4>3. QED
        BY <1>1, <1>2, <4>1, <4>2 DEF IsShaped
    <3>4. QED
      BY <1>1, <1>2, <3>1, <3>2, <3>3
  <2>2. new.purged \subseteq 1..new.started \cup {kind.tasks}
    BY <1>1, <1>4 DEF IsShaped
  <2>3. QED
    BY <1>2, <2>1, <2>2, Zenon DEF IsShaped
<1>7. new \in JobRecord
  BY <1>1, <1>4, <1>5, <1>6, IsJobRecord
<1>8. ASSUME NEW m \in 1..kind.tasks, job.states[m] \in EndStatuses
      PROVE  new.states[m] = job.states[m]
  BY <1>1, <1>2, <1>3, <1>4, <1>8
<1>9. KeepsEnds(kind.tasks, job, new)
  <2>1. /\ new.started = job.started + 1 /\ new.started <= kind.tasks
        /\ job.states[new.started] \notin EndStatuses /\ job.started \in Nat
    BY <1>1, <1>2, <1>3, <1>4, <1>5
  <2>2. QED
    BY <1>2, <1>8, <2>1, EndsAreFinal
<1>10. QED
  BY <1>7, <1>9

LEMMA TaskEnds ==
    ASSUME kind \in Kinds, NEW job \in JobRecord, NEW i \in Tasks,
           job.states[i] = "RUNNING", NEW state \in kind.ends, NEW new,
           new = [job EXCEPT !.states[i] = state, !.started = IF i > @ THEN i ELSE @]
    PROVE  new \in JobRecord /\ KeepsEnds(kind.tasks, job, new)
<1>1. /\ job = [states |-> job.states, started |-> job.started, purged |-> job.purged]
      /\ job.states \in [Tasks -> States] /\ job.started \in 0..kind.tasks
      /\ job.purged \in SUBSET Tasks /\ IsShaped(kind.tasks, job)
  BY JobFields
<1>2. kind.tasks \in Nat /\ Tasks = 1..kind.tasks /\ kind.tasks \in Tasks
  BY KindFacts DEF Tasks
<1>3. state \in States /\ state # "PENDING" /\ "RUNNING" \notin EndStatuses
  <2>1. state \in Ended /\ state \in {"COMPLETED", "FAILED", "TIMEOUT", "OUT_OF_MEMORY"}
    BY KindFacts DEF Ended
  <2>2. "RUNNING" \notin EndStatuses
    BY DEF EndStatuses, JobStatus_value
  <2>3. QED
    BY <2>1, <2>2 DEF States
<1>4. i <= job.started
  <2>1. "RUNNING" # "PENDING" /\ "RUNNING" # "CANCELLED"
    OBVIOUS
  <2>2. QED
    BY <1>1, <1>2, <2>1 DEF IsShaped
<1>5. /\ new.states = [job.states EXCEPT ![i] = state]
      /\ new.started = job.started /\ new.purged = job.purged
      /\ new = [states |-> new.states, started |-> new.started, purged |-> new.purged]
  <2>1. ~(i > job.started)
    BY <1>1, <1>2, <1>4
  <2>2. new = [job EXCEPT !.states[i] = state, !.started = job.started]
    BY <2>1
  <2>3. QED
    BY <1>1, <2>2, TaskChanged
<1>6. new.states \in [Tasks -> States]
  BY <1>1, <1>3, <1>5
<1>7. IsShaped(kind.tasks, new)
  <2>1. ASSUME NEW m \in Tasks
        PROVE  IF m <= new.started THEN new.states[m] # "PENDING"
               ELSE /\ new.states[m] \in {"PENDING", "CANCELLED"}
                    /\ new.states[m] = new.states[kind.tasks]
    <3>1. CASE m <= job.started
      BY <1>1, <1>2, <1>3, <1>5, <3>1 DEF IsShaped
    <3>2. CASE ~(m <= job.started)
      <4>1. kind.tasks # i /\ m # i /\ ~(m <= new.started)
        BY <1>1, <1>2, <1>4, <1>5, <3>2
      <4>2. new.states[m] = job.states[m] /\ new.states[kind.tasks] = job.states[kind.tasks]
        BY <1>1, <1>2, <1>5, <4>1
      <4>3. QED
        BY <1>1, <1>2, <3>2, <4>1, <4>2 DEF IsShaped
    <3>3. QED
      BY <3>1, <3>2
  <2>2. new.purged \subseteq 1..new.started \cup {kind.tasks}
    BY <1>1, <1>5 DEF IsShaped
  <2>3. QED
    BY <1>2, <2>1, <2>2, Zenon DEF IsShaped
<1>8. new \in JobRecord
  BY <1>1, <1>5, <1>6, <1>7, IsJobRecord
<1>9. ASSUME NEW m \in 1..kind.tasks, job.states[m] \in EndStatuses
      PROVE  new.states[m] = job.states[m]
  BY <1>1, <1>2, <1>3, <1>5, <1>9
<1>10. KeepsEnds(kind.tasks, job, new)
  BY <1>1, <1>2, <1>5, <1>9, EndsAreFinal
<1>11. QED
  BY <1>8, <1>10

LEMMA TaskForgotten ==
    ASSUME kind \in Kinds, NEW job \in JobRecord, NEW i \in Kept(job), NEW new,
           new = [job EXCEPT !.purged = @ \cup {i}]
    PROVE  new \in JobRecord /\ KeepsEnds(kind.tasks, job, new)
<1>1. /\ job = [states |-> job.states, started |-> job.started, purged |-> job.purged]
      /\ job.states \in [Tasks -> States] /\ job.started \in 0..kind.tasks
      /\ job.purged \in SUBSET Tasks /\ IsShaped(kind.tasks, job)
  BY JobFields
<1>2. kind.tasks \in Nat /\ Tasks = 1..kind.tasks /\ kind.tasks \in Tasks
  BY KindFacts DEF Tasks
<1>3. /\ new.states = job.states /\ new.started = job.started
      /\ new.purged = job.purged \cup {i}
      /\ new = [states |-> new.states, started |-> new.started, purged |-> new.purged]
  BY <1>1
<1>4. i \in 1..job.started \cup {kind.tasks}
  BY Zenon DEF Kept, Records
<1>5. i \in Tasks
  BY <1>1, <1>2, <1>4
<1>6. IsShaped(kind.tasks, new)
  <2>1. new.purged \subseteq 1..new.started \cup {kind.tasks}
    BY <1>1, <1>3, <1>4 DEF IsShaped
  <2>2. QED
    BY <1>1, <1>3, <2>1, Zenon DEF IsShaped
<1>7. new \in JobRecord
  BY <1>1, <1>3, <1>5, <1>6, IsJobRecord
<1>8. KeepsEnds(kind.tasks, job, new)
  BY <1>1, <1>2, <1>3, EndsAreFinal
<1>9. QED
  BY <1>7, <1>8

LEMMA SlurmStep ==
    ASSUME CallsInv, Slurm
    PROVE  CallsInv'
<1>1. known # 0 /\ \E i \in Tasks : Start(known, i) \/ End(known, i) \/ Purge(known, i)
  BY Zenon DEF Slurm
<1>2. known \in DOMAIN jobs /\ jobs[known] \in JobRecord /\ kind \in Kinds
  BY <1>1, KnownJob DEF CallsInv, JobsTyped, Job
<1>3. ASSUME NEW i \in Tasks, Start(known, i) PROVE CallsInv'
  <2> DEFINE new == [jobs[known] EXCEPT !.states[i] = "RUNNING",
                                        !.started = IF i > @ THEN i ELSE @]
  <2>1. /\ i = jobs[known].started + 1 /\ jobs[known].states[i] = "PENDING"
        /\ SetState(known, i, "RUNNING")
    BY <1>3, Zenon DEF Start
  <2>2. new \in JobRecord /\ KeepsEnds(kind.tasks, jobs[known], new)
    BY <1>2, <2>1, TaskStarts
  <2>3. jobs' = [jobs EXCEPT ![known] = new]
    BY <1>2, <2>1 DEF SetState
  <2>4. UNCHANGED <<kind, known, call, seen, failures>>
    BY <2>1 DEF SetState
  <2> HIDE DEF new
  <2>5. QED
    BY <1>1, <2>2, <2>3, <2>4, JobMoves
<1>4. ASSUME NEW i \in Tasks, End(known, i) PROVE CallsInv'
  <2>1. PICK state \in kind.ends :
          jobs[known].states[i] = "RUNNING" /\ SetState(known, i, state)
    BY <1>4, Zenon DEF End
  <2> DEFINE new == [jobs[known] EXCEPT !.states[i] = state,
                                        !.started = IF i > @ THEN i ELSE @]
  <2>2. new \in JobRecord /\ KeepsEnds(kind.tasks, jobs[known], new)
    BY <1>2, <2>1, TaskEnds
  <2>3. jobs' = [jobs EXCEPT ![known] = new]
    BY <1>2, <2>1 DEF SetState
  <2>4. UNCHANGED <<kind, known, call, seen, failures>>
    BY <2>1 DEF SetState
  <2> HIDE DEF new
  <2>5. QED
    BY <1>1, <2>2, <2>3, <2>4, JobMoves
<1>5. ASSUME NEW i \in Tasks, Purge(known, i) PROVE CallsInv'
  <2> DEFINE new == [jobs[known] EXCEPT !.purged = @ \cup {i}]
  <2>1. /\ i \in Kept(jobs[known])
        /\ jobs' = [jobs EXCEPT ![known].purged = @ \cup {i}]
        /\ UNCHANGED <<kind, known, call, seen, failures>>
    BY <1>5, Zenon DEF Purge
  <2>2. new \in JobRecord /\ KeepsEnds(kind.tasks, jobs[known], new)
    BY <1>2, <2>1, TaskForgotten
  <2>3. jobs' = [jobs EXCEPT ![known] = new]
    BY <1>2, <2>1
  <2> HIDE DEF new
  <2>4. QED
    BY <1>1, <2>1, <2>2, <2>3, JobMoves
<1>6. QED
  BY <1>1, <1>3, <1>4, <1>5

LEMMA InitCallsInv == Init => CallsInv
<1> SUFFICES ASSUME Init PROVE CallsInv
  OBVIOUS
<1>1. /\ kind \in Kinds /\ jobs = <<>> /\ known = 0 /\ seen = {} /\ failures = 0
      /\ call = [op \in Operations |-> Idle]
  BY Zenon DEF Init
<1>2. JobsTyped
  BY <1>1 DEF JobsTyped
<1>3. \A op \in Operations : call[op] = Idle
  BY <1>1
<1>4. CallsTyped
  BY <1>1, <1>3, CallFacts DEF CallsTyped, IsAt
<1>5. SubmissionsCounted
  <2>1. ~IsAt("submit", "served")
    BY <1>3, CallFacts DEF IsAt, Operations
  <2>2. Len(jobs) = 0 /\ MaxFailures \in Nat
    BY <1>1, KindsAssumption
  <2>3. QED
    BY <1>1, <2>1, <2>2 DEF SubmissionsCounted
<1>6. ToldTheTruth
  BY <1>1, Zenon DEF ToldTheTruth
<1>7. QED
  BY <1>2, <1>4, <1>5, <1>6 DEF CallsInv

LEMMA NextCallsInv == CallsInv /\ [Next]_vars => CallsInv'
<1> SUFFICES ASSUME CallsInv, [Next]_vars PROVE CallsInv'
  OBVIOUS
<1>1. ASSUME NEW op \in Operations, Receive(op) PROVE CallsInv'
  <2>1. CASE op = "submit"
    BY <1>1, <2>1, ReceiveSubmission
  <2>2. CASE op # "submit"
    BY <1>1, <2>2, ReceiveStep
  <2>3. QED
    BY <2>1, <2>2
<1>2. CASE UNCHANGED vars
  <2>1. /\ call' = call /\ kind' = kind /\ known' = known /\ seen' = seen
        /\ failures' = failures /\ jobs' = jobs
    BY <1>2, Zenon DEF vars
  <2>2. JobsTyped'
    BY <2>1, SameKind DEF CallsInv, JobsTyped
  <2>3. QED
    BY <2>1, <2>2, EndsKept, SlurmLeavesCalls
<1>3. CASE SubmitJob \/ SubmitJobContainer
  BY <1>3, SBatchStep DEF SubmitJob, SubmitJobContainer
<1>4. QED
  BY <1>1, <1>2, <1>3, SendStep, LoseStep, SubmitRefusedStep, CancelStep, JobInfoStep,
     JobStepsStep, SlurmStep DEF Next

LEMMA CallsInvariant == Spec => []CallsInv
  BY InitCallsInv, NextCallsInv, PTL DEF Spec

----------------------------------------------------------------------------
(* The properties                                                          *)

(* Whatever the calls of a client and the steps of Slurm, every variable   *)
(* has its type, and what the client is told are statuses of the protocol. *)
THEOREM TypeCorrect == Spec => []TypeOK
<1>1. CallsInv => TypeOK
  <2> SUFFICES ASSUME CallsInv PROVE TypeOK
    OBVIOUS
  <2>1. kind \in Kinds /\ known \in 0..Len(jobs)
        /\ seen \subseteq [id : Tasks, status : JobStatus_value]
    BY DEF CallsInv, JobsTyped
  <2>2. ASSUME NEW j \in DOMAIN jobs
        PROVE  /\ Range(jobs[j].states) \subseteq States /\ jobs[j].started \in 0..kind.tasks
               /\ jobs[j].purged \subseteq Records(jobs[j])
    <3>1. jobs[j] \in JobRecord
      BY DEF CallsInv, JobsTyped
    <3>2. jobs[j].states \in [Tasks -> States] /\ jobs[j].started \in 0..kind.tasks
      BY <3>1, JobFields
    <3>3. jobs[j].purged \subseteq Records(jobs[j])
      BY <2>1, <3>1, JobFacts, KindFacts
    <3>4. Range(jobs[j].states) \subseteq States
      BY <3>2 DEF Range
    <3>5. QED
      BY <3>2, <3>3, <3>4
  <2>3. failures \in 0..(MaxFailures + 1)
    <3>1. failures \in Nat /\ failures <= MaxFailures
      BY DEF CallsInv, SubmissionsCounted
    <3>2. MaxFailures \in Nat
      BY KindsAssumption
    <3>3. QED
      BY <3>1, <3>2
  <2>4. \A op \in Operations : call[op].at \in {"idle", "sent", "served"}
    BY DEF CallsInv, CallsTyped
  <2>5. QED
    BY <2>1, <2>2, <2>3, <2>4 DEF TypeOK
<1>2. QED
  BY <1>1, CallsInvariant, PTL

(* For any number of jobs, tasks and lost answers: a task that JobInfo or  *)
(* JobSteps reports as ended has ended that way, however late the answer.  *)
THEOREM EndIsTold == Spec => []ReportedEndIsReal
<1>1. CallsInv => ReportedEndIsReal
  <2> SUFFICES ASSUME CallsInv, NEW i \in Tasks
               PROVE  /\ \A told \in seen \cup Told("info") :
                            told.id = RecordOf(Job, i) /\ told.status \in EndStatuses =>
                              Job.states[i] = told.status
                      /\ \A told \in Told("steps") :
                            told.id = <<RecordOf(Job, i), NoText>>
                              /\ told.status \in EndStatuses => Job.states[i] = told.status
    BY Zenon DEF ReportedEndIsReal, NoText
  <2>1. ASSUME NEW id, NEW status, Holds(kind.tasks, id, status, Job), id = RecordOf(Job, i),
               status \in EndStatuses
        PROVE  Job.states[i] = status
    <3>1. i \in 1..kind.tasks
      BY DEF Tasks
    <3>2. QED
      BY <2>1, <3>1, Zenon DEF Holds, RecordOf
  <2>2. CASE known = 0
    <3>1. Told("info") = {} /\ Told("steps") = {}
      BY <2>2, NoOtherAnswer DEF Told, Operations
    <3>2. seen = {}
      BY <2>2 DEF CallsInv, JobsTyped
    <3>3. QED
      BY <3>1, <3>2, Zenon
  <2>3. CASE known # 0
    <3>1. /\ InfosHold(kind.tasks, seen, Job)
          /\ AnswerHolds("info", kind.tasks, call["info"].answer, Job)
          /\ AnswerHolds("steps", kind.tasks, call["steps"].answer, Job)
      BY <2>3, Zenon DEF CallsInv, ToldTheTruth, Job
    <3>2. \A told \in seen \cup Told("info") : Holds(kind.tasks, told.id, told.status, Job)
      BY <3>1 DEF InfosHold, AnswerHolds, Told
    <3>3. ASSUME NEW told \in Told("steps"), told.id = <<RecordOf(Job, i), NoText>>
          PROVE  Holds(kind.tasks, RecordOf(Job, i), told.status, Job)
      <4>1. told.id[1] = RecordOf(Job, i) /\ told.id[2] = NoText
        BY <3>3
      <4>2. call["steps"].answer.ok /\ told \in Range(call["steps"].answer.body)
        BY DEF Told
      <4>3. "steps" # "info"
        OBVIOUS
      <4>4. StepsHold(kind.tasks, Range(call["steps"].answer.body), Job)
        BY <3>1, <4>2, <4>3, Zenon DEF AnswerHolds
      <4>5. QED
        BY <4>1, <4>2, <4>4, Zenon DEF StepsHold
    <3>4. QED
      BY <2>1, <3>2, <3>3, Zenon
  <2>4. QED
    BY <2>2, <2>3
<1>2. QED
  BY <1>1, CallsInvariant, PTL

(* SubmitJob and SubmitJobContainer queue a job once: Slurm has no more    *)
(* jobs of the client than one and the submissions that failed for it.     *)
THEOREM JobsAreCounted == Spec => []DuplicatesOnlyAfterFailures
<1>1. CallsInv => DuplicatesOnlyAfterFailures
  <2> SUFFICES ASSUME CallsInv PROVE Len(jobs) <= 1 + failures
    BY DEF DuplicatesOnlyAfterFailures
  <2>1. Len(jobs) \in Nat /\ failures \in Nat
    BY KnownJob DEF CallsInv, SubmissionsCounted
  <2>2. Len(jobs) <= failures \/ Len(jobs) <= failures + 1
    BY DEF CallsInv, SubmissionsCounted
  <2>3. QED
    BY <2>1, <2>2
<1>2. QED
  BY <1>1, CallsInvariant, PTL

(* Only JobInfo and JobSteps answer a call of their own.                   *)
LEMMA WhoAnswers ==
    ASSUME CallsInv, [Next]_vars, NEW op \in {"info", "steps"}, IsAt(op, "sent"),
           call'[op].at = "served"
    PROVE  (op = "info" => JobInfo) /\ (op = "steps" => JobSteps)
<1>1. /\ op \in Operations /\ CallsTyped /\ op # "submit" /\ call[op].at # "served"
      /\ call[op].at # "idle"
  BY DEF CallsInv, Operations, IsAt
<1>2. ASSUME NEW o \in Operations, NEW c, SetCall(o, c), o # op \/ c.at # "served" PROVE FALSE
  <2>1. call'[o] = c /\ (o # op => call'[op] = call[op])
    BY <1>1, <1>2, CallGoes
  <2>2. QED
    BY <1>1, <1>2, <2>1
<1>3. ASSUME NEW o \in Operations, Send(o) \/ Receive(o) \/ Lose(o) PROVE FALSE
  <2>1. SetCall(o, Call("sent", Failure)) \/ SetCall(o, Idle)
    BY <1>3, Zenon DEF Send, Receive, Lose
  <2>2. Call("sent", Failure).at # "served" /\ Idle.at # "served"
    BY CallFacts
  <2>3. QED
    BY <1>2, <2>1, <2>2
<1>4. ASSUME NEW o \in Operations, NEW answer, Serve(o, answer), o # op PROVE FALSE
  BY <1>2, <1>4 DEF Serve
<1>5. ASSUME SubmitJob \/ SubmitJobContainer \/ SubmitRefused PROVE FALSE
  <2>1. \E answer : Serve("submit", answer)
    BY <1>5, Zenon DEF SubmitJob, SubmitJobContainer, SubmitRefused, SBatch
  <2>2. QED
    BY <1>1, <1>4, <2>1 DEF Operations
<1>6. ASSUME CancelJob PROVE FALSE
  <2>1. \E answer : Serve("cancel", answer)
    BY <1>6, Zenon DEF CancelJob
  <2>2. QED
    BY <1>4, <2>1 DEF Operations
<1>7. ASSUME Slurm \/ UNCHANGED vars PROVE FALSE
  <2>1. call' = call
    BY <1>7, Zenon DEF Slurm, Purge, Start, End, SetState, vars
  <2>2. QED
    BY <1>1, <2>1
<1>8. JobInfo \/ JobSteps
  BY <1>3, <1>5, <1>6, <1>7, Zenon DEF Next
<1>9. CASE JobInfo
  <2>1. \E answer : Serve("info", answer)
    BY <1>9, Zenon DEF JobInfo
  <2>2. op = "info"
    BY <1>4, <2>1 DEF Operations
  <2>3. QED
    BY <1>9, <2>2
<1>10. CASE JobSteps
  <2>1. \E answer : Serve("steps", answer)
    BY <1>10, Zenon DEF JobSteps
  <2>2. op = "steps"
    BY <1>4, <2>1 DEF Operations
  <2>3. QED
    BY <1>10, <2>2
<1>11. QED
  BY <1>8, <1>9, <1>10

LEMMA InfoIsRightWhenTold ==
    ASSUME CallsInv, JobInfo
    PROVE  InfoIsRight(call'["info"].answer)
<1>1. CallsTyped /\ "info" \in Operations
  BY DEF CallsInv, Operations
<1>2. ASSUME NEW answer, Serve("info", answer) PROVE call'["info"].answer = answer
  <2>1. call'["info"] = Call("served", answer)
    BY <1>1, <1>2, CallGoes DEF Serve
  <2>2. QED
    BY <2>1, CallFacts
<1>3. known # 0 /\ JobsTyped
  BY DEF CallsInv, CallsTyped, IsAt, Operations, JobInfo
<1>4. kind \in Kinds /\ Job \in JobRecord
  BY <1>3, KnownJob DEF JobsTyped
<1>5. CASE IsGone(Job) /\ Serve("info", Failure)
  BY <1>2, <1>5, CallFacts, Zenon DEF InfoIsRight
<1>6. ASSUME ~IsGone(Job), NEW blocks \in Scontrol(Job), Serve("info", InfoAnswer(blocks))
      PROVE  InfoIsRight(call'["info"].answer)
  <2> DEFINE answer == InfoAnswer(blocks)
  <2>1. PICK list \in Listings :
          /\ Range(list) = TaskLines(Kept(Job))
          /\ answer.ok <=> HasReadableLimit
          /\ answer.ok =>
               /\ DOMAIN answer.body = DOMAIN list
               /\ \A n \in DOMAIN list :
                    /\ answer.body[n].id = list[n][1]
                    /\ answer.body[n].name = ReadName(kind.name)
                    /\ answer.body[n].status = Status(Job.states[list[n][1]])
                    /\ answer.body[n].start = Nil => ~(list[n][1] <= Job.started)
    BY <1>4, InfoTold
  <2>2. call'["info"].answer = answer
    BY <1>2, <1>6
  <2> HIDE DEF answer
  <2>3. \A n \in DOMAIN list : /\ list[n] = <<list[n][1], NoText>>
                               /\ list[n][1] \in Kept(Job)
    <3>1. ASSUME NEW n \in DOMAIN list PROVE list[n] \in TaskLines(Kept(Job))
      BY <2>1, Zenon DEF Range
    <3>2. QED
      BY <3>1, TaskLine
  <2>4. ASSUME answer.ok, NEW i \in Tasks
        PROVE  LET told == {n \in DOMAIN answer.body : answer.body[n].id = RecordOf(Job, i)}
               IN  IF RecordOf(Job, i) \in Job.purged THEN told = {}
                   ELSE \E n \in told :
                     /\ told = {n}
                     /\ answer.body[n].status = TrueStatus(Job.states[i])
                     /\ answer.body[n].start = Nil => i > Job.started
                     /\ answer.body[n].name
                          \in {kind.name, IF kind.name = "x y" THEN "x" ELSE NoText}
    <3> DEFINE r == RecordOf(Job, i)
               told == {n \in DOMAIN answer.body : answer.body[n].id = r}
    <3>1. DOMAIN answer.body = DOMAIN list /\ \A n \in DOMAIN list : answer.body[n].id = list[n][1]
      BY <2>1, <2>4
    <3>2. /\ r \in Records(Job) /\ Job.states[r] = Job.states[i]
          /\ (r <= Job.started) <=> (i <= Job.started)
          /\ Job.states[i] \in States
          /\ i \in Int /\ Job.started \in Int
      <4>1. Job.states \in [Tasks -> States] /\ Job.started \in Nat /\ i \in Int
        BY <1>4, JobFacts, KindFacts
      <4>2. QED
        BY <1>4, <4>1, JobFacts
    <3> HIDE DEF r
    <3>3. CASE r \in Job.purged
      <4>1. \A n \in DOMAIN list : list[n][1] # r
        BY <2>3, <3>3 DEF Kept
      <4>2. told = {}
        BY <3>1, <4>1
      <4>3. QED
        BY <3>3, <4>2 DEF r
    <3>4. CASE r \notin Job.purged
      <4>1. PICK n \in DOMAIN list : list[n] = <<r, NoText>> /\ n \in DOMAIN list
        <5>1. <<r, NoText>> \in TaskLines(Kept(Job))
          BY <3>2, <3>4, Zenon DEF TaskLines, Kept, NoText
        <5>2. QED
          BY <2>1, <5>1, Zenon DEF Range
      <4>2. list[n][1] = r
        BY <4>1
      <4>3. told = {n}
        <5>1. \A m \in DOMAIN list : list[m][1] = r => m = n
          BY <2>3, <4>1, ListFacts
        <5>2. QED
          BY <3>1, <4>1, <4>2, <5>1
      <4>4. /\ answer.body[n].status = TrueStatus(Job.states[i])
            /\ answer.body[n].start = Nil => i > Job.started
            /\ answer.body[n].name \in {kind.name, IF kind.name = "x y" THEN "x" ELSE NoText}
        <5>1. /\ answer.body[n].status = Status(Job.states[i])
              /\ answer.body[n].start = Nil => ~(i <= Job.started)
              /\ answer.body[n].name = ReadName(kind.name)
          BY <2>1, <2>4, <3>2, <4>1, <4>2
        <5>2. Status(Job.states[i]) = TrueStatus(Job.states[i])
          BY <1>4, <3>2, StatusesAreTrue
        <5>3. ReadName(kind.name) \in {kind.name, IF kind.name = "x y" THEN "x" ELSE NoText}
          BY DEF ReadName
        <5>4. ~(i <= Job.started) => i > Job.started
          BY <3>2
        <5>5. QED
          BY <5>1, <5>2, <5>3, <5>4, Zenon
      <4> HIDE DEF told
      <4>5. \E m \in told :
              /\ told = {m}
              /\ answer.body[m].status = TrueStatus(Job.states[i])
              /\ answer.body[m].start = Nil => i > Job.started
              /\ answer.body[m].name \in {kind.name, IF kind.name = "x y" THEN "x" ELSE NoText}
        BY <4>3, <4>4
      <4>6. QED
        BY <3>4, <4>5, Zenon DEF told, r
    <3>5. QED
      BY <3>3, <3>4
  <2>5. answer.ok <=> (~IsGone(Job) /\ HasReadableLimit)
    BY <1>6, <2>1, Zenon
  <2>6. InfoIsRight(answer)
    BY <2>4, <2>5, Zenon DEF InfoIsRight, NoText
  <2>7. QED
    BY <2>2, <2>6
<1>7. QED
  BY <1>5, <1>6, Zenon DEF JobInfo

LEMMA StepsAreRightWhenTold ==
    ASSUME CallsInv, JobSteps
    PROVE  StepsAreRight(call'["steps"].answer, failures' > failures)
<1>1. CallsTyped /\ "steps" \in Operations
  BY DEF CallsInv, Operations
<1>2. ASSUME NEW answer, Serve("steps", answer) PROVE call'["steps"].answer = answer
  <2>1. call'["steps"] = Call("served", answer)
    BY <1>1, <1>2, CallGoes DEF Serve
  <2>2. QED
    BY <2>1, CallFacts
<1>3. known # 0 /\ JobsTyped
  BY DEF CallsInv, CallsTyped, IsAt, Operations, JobSteps
<1>4. kind \in Kinds /\ Job \in JobRecord
  BY <1>3, KnownJob DEF JobsTyped
<1>5. failures \in Nat
  BY DEF CallsInv, SubmissionsCounted
<1>6. ASSUME NEW lines, Serve("steps", StepsAnswer(lines)), StepsAnswer(lines) = Failure,
             failures' > failures \/ Range(Job.states) = {"PENDING"}
      PROVE  StepsAreRight(call'["steps"].answer, failures' > failures)
  BY <1>2, <1>6, CallFacts, Zenon DEF StepsAreRight
<1>7. ASSUME NEW lines \in Sacct(Job), Serve("steps", StepsAnswer(lines)), failures' = failures
      PROVE  StepsAreRight(call'["steps"].answer, failures' > failures)
  <2> DEFINE answer == StepsAnswer(lines)
  <2>1. PICK list \in Listings :
          /\ IsOfJob(list, Job)
          /\ answer.ok <=> kind.name # "x|y"
          /\ answer.ok =>
               /\ DOMAIN answer.body = DOMAIN list
               /\ \A n \in DOMAIN list :
                    /\ answer.body[n].id = list[n]
                    /\ list[n][2] = NoText =>
                         /\ answer.body[n].name = kind.name
                         /\ answer.body[n].status = Status(SacctState(Job.states[list[n][1]]))
                         /\ (answer.body[n].start = Nil) <=> ~(list[n][1] <= Job.started)
                         /\ (answer.body[n].end # Nil) <=> (Job.states[list[n][1]] \in Ended)
    BY <1>4, StepsTold
  <2>2. call'["steps"].answer = answer
    BY <1>2, <1>7
  <2>3. ~(failures' > failures)
    BY <1>5, <1>7
  <2> HIDE DEF answer
  <2>4. ASSUME answer.ok, NEW i \in Tasks
        PROVE  LET told == {n \in DOMAIN answer.body :
                              answer.body[n].id = <<RecordOf(Job, i), NoText>>}
               IN  \E n \in told :
                     /\ told = {n}
                     /\ answer.body[n].name = kind.name
                     /\ answer.body[n].status = IF Job.states[i] = "CANCELLED" THEN "UNKNOWN"
                                                ELSE TrueStatus(Job.states[i])
                     /\ answer.body[n].start = Nil <=> i > Job.started
                     /\ (answer.body[n].end # Nil) <=> (Job.states[i] \in Ended)
    <3> DEFINE r == RecordOf(Job, i)
               told == {n \in DOMAIN answer.body : answer.body[n].id = <<r, NoText>>}
    <3>1. DOMAIN answer.body = DOMAIN list /\ \A n \in DOMAIN list : answer.body[n].id = list[n]
      BY <2>1, <2>4
    <3>2. /\ r \in Records(Job) /\ Job.states[r] = Job.states[i]
          /\ (r <= Job.started) <=> (i <= Job.started)
          /\ Job.states[i] \in States
          /\ i \in Int /\ Job.started \in Int
      <4>1. Job.states \in [Tasks -> States] /\ Job.started \in Nat /\ i \in Int
        BY <1>4, JobFacts, KindFacts
      <4>2. QED
        BY <1>4, <4>1, JobFacts
    <3> HIDE DEF r
    <3>3. PICK n \in DOMAIN list : list[n] = <<r, NoText>> /\ n \in DOMAIN list
      <4>1. <<r, NoText>> \in TaskLines(Records(Job))
        BY <3>2, Zenon DEF TaskLines, NoText
      <4>2. <<r, NoText>> \in Range(list)
        BY <2>1, <4>1, Zenon DEF IsOfJob
      <4>3. QED
        BY <4>2, Zenon DEF Range
    <3>4. list[n][1] = r /\ list[n][2] = NoText
      BY <3>3
    <3>5. told = {n}
      <4>1. \A m \in DOMAIN list : list[m] = list[n] => m = n
        BY <3>3, ListFacts
      <4>2. QED
        BY <3>1, <3>3, <4>1
    <3>6. /\ answer.body[n].name = kind.name
          /\ answer.body[n].status = IF Job.states[i] = "CANCELLED" THEN "UNKNOWN"
                                     ELSE TrueStatus(Job.states[i])
          /\ (answer.body[n].start = Nil) <=> (i > Job.started)
          /\ (answer.body[n].end # Nil) <=> (Job.states[i] \in Ended)
      <4>1. /\ answer.body[n].name = kind.name
            /\ answer.body[n].status = Status(SacctState(Job.states[i]))
            /\ (answer.body[n].start = Nil) <=> ~(i <= Job.started)
            /\ (answer.body[n].end # Nil) <=> (Job.states[i] \in Ended)
        BY <2>1, <2>4, <3>2, <3>3, <3>4
      <4>2. Status(SacctState(Job.states[i])) = IF Job.states[i] = "CANCELLED" THEN "UNKNOWN"
                                                ELSE TrueStatus(Job.states[i])
        BY <1>4, <3>2, StatusesAreTrue
      <4>3. ~(i <= Job.started) <=> i > Job.started
        BY <3>2
      <4>4. QED
        BY <4>1, <4>2, <4>3, Zenon
    <3> HIDE DEF told
    <3>7. \E m \in told :
            /\ told = {m}
            /\ answer.body[m].name = kind.name
            /\ answer.body[m].status = IF Job.states[i] = "CANCELLED" THEN "UNKNOWN"
                                       ELSE TrueStatus(Job.states[i])
            /\ (answer.body[m].start = Nil) <=> (i > Job.started)
            /\ (answer.body[m].end # Nil) <=> (Job.states[i] \in Ended)
      BY <3>5, <3>6
    <3>8. QED
      BY <3>7, Zenon DEF told, r
  <2>5. StepsAreRight(answer, failures' > failures)
    BY <2>1, <2>3, <2>4, Zenon DEF StepsAreRight, NoText
  <2>6. QED
    BY <2>2, <2>5, Zenon
<1>8. failures' = failures + 1 => failures' > failures
  BY <1>5
<1>9. QED
  BY <1>6, <1>7, <1>8, StepsServed, Zenon

(* JobInfo and JobSteps tell of every task of any job array once, with its *)
(* own status, times and name, in whatever order Slurm lists its tasks and *)
(* steps and whether or not it sums up those that wait, and whatever form  *)
(* name and limit have.  They fail only of a job that is gone or has not   *)
(* started, of a limit or name they cannot read, and of spoilt text.       *)
THEOREM AnswersTellTheTruth == Spec => AnswersAreRight
<1> DEFINE Right == \A op \in {"info", "steps"} :
                      (IsAt(op, "sent") /\ call'[op].at = "served") =>
                        IF op = "info" THEN InfoIsRight(call'[op].answer)
                        ELSE StepsAreRight(call'[op].answer, failures' > failures)
<1>1. CallsInv /\ [Next]_vars => [Right]_vars
  <2> SUFFICES ASSUME CallsInv, [Next]_vars, NEW op \in {"info", "steps"}, IsAt(op, "sent"),
                      call'[op].at = "served"
               PROVE  IF op = "info" THEN InfoIsRight(call'[op].answer)
                      ELSE StepsAreRight(call'[op].answer, failures' > failures)
    BY Zenon
  <2>1. (op = "info" => JobInfo) /\ (op = "steps" => JobSteps)
    BY WhoAnswers
  <2>2. CASE op = "info"
    BY <2>1, <2>2, InfoIsRightWhenTold
  <2>3. CASE op = "steps"
    BY <2>1, <2>3, StepsAreRightWhenTold
  <2>4. QED
    BY <2>2, <2>3
<1>2. Spec => [][Right]_vars
  BY <1>1, CallsInvariant, PTL DEF Spec
<1>3. QED
  BY <1>2 DEF AnswersAreRight
=============================================================================
