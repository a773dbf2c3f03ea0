--------------------------- MODULE TelemetryTable ---------------------------
(***************************************************************************)
(* What the pipeline promises to those who read the database: each row is  *)
(* a record that was published, no GPU has two rows of a second, and a row *)
(* that is there stays as it is (collector/README.md:150-153).             *)
(***************************************************************************)
EXTENDS Integers, Sequences

VARIABLES
  published,    \* the messages that were published, in order
  table         \* the numbers of those that have a row

Init ==
  /\ published = <<>>
  /\ table = {}

\* Any message.
Publish ==
  /\ Len(published') > Len(published)
  /\ published' = Append(published, published'[Len(published) + 1])
  /\ UNCHANGED table

SameRow(m, n) == m.gpu = n.gpu /\ m.sec = n.sec

Store ==
  /\ \E n \in DOMAIN published \ table :
       /\ published[n].payload = "record"
       /\ \A r \in table : ~ SameRow(published[r], published[n])
       /\ table' = table \cup {n}
  /\ UNCHANGED published

Next == Publish \/ Store

Spec == Init /\ [][Next]_<<published, table>>
=============================================================================
