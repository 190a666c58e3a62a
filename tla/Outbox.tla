------------------------------- MODULE Outbox -------------------------------
(* What a question report is promised once it is stored: it is mailed, and  *)
(* marked as mailed only after the mail server took it.  Nothing is said of *)
(* how many copies the team receives.                                       *)

CONSTANTS
  Attempts,     \* a report is named by the attempt it is about
  Rejected      \* the reports the mail server will never take

VARIABLE stage  \* attempt -> how far its report has come

File(a) ==
  /\ stage[a] = "unfiled"
  /\ stage' = [stage EXCEPT ![a] = "pending"]

Receive(a) ==
  /\ stage[a] = "pending"
  /\ a \notin Rejected
  /\ stage' = [stage EXCEPT ![a] = "received"]

Mark(a) ==
  /\ stage[a] = "received"
  /\ stage' = [stage EXCEPT ![a] = "mailed"]

Init == stage = [a \in Attempts |-> "unfiled"]

Next == \E a \in Attempts : File(a) \/ Receive(a) \/ Mark(a)

Spec == Init /\ [][Next]_stage

\* A stored report does not wait for ever.
LiveSpec ==
  /\ Spec
  /\ \A a \in Attempts : WF_stage(Receive(a) \/ Mark(a))
=============================================================================
