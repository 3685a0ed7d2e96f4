------------------------------- MODULE CallLog -------------------------------
(***************************************************************************)
(* What the tracer promises to a reader of its output about evaluations:   *)
(* the BEGIN and FINISH records of the trace file nest like brackets, no   *)
(* call begins twice, and a call gets its row in the `calls' table in the  *)
(* same step in which its bracket closes, once.  An unwinding closes       *)
(* several brackets at once; the end of a pass drops the open ones, whose  *)
(* calls get no row.                                                       *)
(***************************************************************************)
EXTENDS Integers, Sequences

CONSTANT Events            \* the brackets: records with a type and an id

VARIABLES open,            \* the brackets still open, outermost first
          calls            \* ids of the calls that have a row

CallIds(s) == {s[i].id : i \in {j \in DOMAIN s : s[j].type = "CALL"}}

Init == open = <<>> /\ calls = {}

Begin(e) ==
  /\ e.type = "CALL" => e.id \notin calls \cup CallIds(open)
  /\ open' = Append(open, e)
  /\ calls' = calls

Finish(k) ==
  /\ open' = SubSeq(open, 1, Len(open) - k)
  /\ calls' = calls \cup CallIds(SubSeq(open, Len(open) - k + 1, Len(open)))
  /\ CallIds(SubSeq(open, Len(open) - k + 1, Len(open))) \cap calls = {}

EndOfPass == open' = <<>> /\ calls' = calls

Next ==
  \/ EndOfPass
  \/ \E e \in Events : Begin(e)
  \/ \E k \in 1..Len(open) : Finish(k)

Spec == Init /\ [][Next]_<<open, calls>>
=============================================================================
