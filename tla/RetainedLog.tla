---------------------------- MODULE RetainedLog ----------------------------
(***************************************************************************)
(* What a partition promises to its readers: the messages that were        *)
(* appended, in the order they were appended, each once, less a prefix     *)
(* that only grows.  How the prefix is chosen is not said here.            *)
(***************************************************************************)
EXTENDS Integers, Sequences

VARIABLES
  log,          \* the retained messages; message n is the n-th appended
  first         \* number of messages that have been dropped from the front

Init == log = <<>> /\ first = 0

AppendOne ==
  /\ log' = Append(log, first + Len(log) + 1)
  /\ UNCHANGED first

Trim ==
  \E n \in 1..Len(log) :
    /\ log' = SubSeq(log, n + 1, Len(log))
    /\ first' = first + n

Next == AppendOne \/ Trim

Spec == Init /\ [][Next]_<<log, first>>
=============================================================================
