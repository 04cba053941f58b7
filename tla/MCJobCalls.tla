----------------------------- MODULE MCJobCalls -----------------------------
(* Instances of JobCalls for TLC: jobs and job arrays of every kind of name *)
(* and time limit.                                                         *)
EXTENDS JobCalls

Kind(name, limit, tasks, container, ends) ==
    [name |-> name, limit |-> limit, tasks |-> tasks, container |-> container,
     ends |-> ends]

Single == {"TIMEOUT", "OUT_OF_MEMORY"}
SomeKinds == {Kind("x y", "1:00", 1, FALSE, Single), Kind("x=y", "UNLIMITED", 1, TRUE, Single),
              Kind("x|y", "Partition_Limit", 1, FALSE, Single),
              Kind("x", "1:00", 2, FALSE, {"TIMEOUT"})}

(* Tasks in any order, steps behind the task they belong to.               *)
SomeListings ==
    {<<<<1, "">>>>, <<<<1, "">>, <<1, "0">>, <<1, "1">>>>, <<<<2, "">>>>,
     <<<<1, "">>, <<2, "">>>>, <<<<2, "">>, <<1, "">>, <<1, "0">>>>}
=============================================================================
