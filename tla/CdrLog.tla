------------------------------- MODULE CdrLog -------------------------------
(***************************************************************************)
(* What the CDR topic promises, independently of how it is built: a log to  *)
(* which records are appended at the end and from which they are read once, *)
(* in order, and which never holds more than Capacity unread records.       *)
(***************************************************************************)
EXTENDS Naturals, Sequences

CONSTANTS Records, Capacity

VARIABLES log,   \* the records accepted, in order
          read   \* how many of them have been read

Init == log = <<>> /\ read = 0

Accept(r) ==
    /\ Len(log) - read < Capacity
    /\ log' = Append(log, r)
    /\ UNCHANGED read

Read ==
    /\ read < Len(log)
    /\ read' = read + 1
    /\ UNCHANGED log

Next == Read \/ \E r \in Records : Accept(r)

Spec == Init /\ [][Next]_<<log, read>>
=============================================================================
