------------------------------ MODULE Approval ------------------------------
(***************************************************************************)
(* What request_decision promises to the step that asks: an ask is settled *)
(* once; it is approved or rejected only if a human said so, except that   *)
(* an automatic ask may be approved by nobody; and it may fail at any      *)
(* time.  Module HumanApproval implements it.                              *)
(***************************************************************************)
CONSTANT Askers

VARIABLES
  automatic, \* the asks that a timeout may approve
  votes,     \* what humans were told is their decision: <<asker, decision>>
  outcome

Decisions == {"approved", "rejected"}

ApprovalInit ==
  automatic \subseteq Askers /\ votes = {} /\ outcome = [a \in Askers |-> "none"]

Vote(a, d) ==
  /\ votes' = votes \cup {<<a, d>>}
  /\ UNCHANGED <<automatic, outcome>>

Settle(a, o) ==
  /\ outcome[a] = "none"
  /\ \/ o = "failed"
     \/ o \in Decisions /\ <<a, o>> \in votes
     \/ o = "approved" /\ a \in automatic
  /\ outcome' = [outcome EXCEPT ![a] = o]
  /\ UNCHANGED <<automatic, votes>>

ApprovalNext ==
  \E a \in Askers :
    \/ \E d \in Decisions : Vote(a, d)
    \/ \E o \in Decisions \cup {"failed"} : Settle(a, o)

Spec == ApprovalInit /\ [][ApprovalNext]_<<automatic, votes, outcome>>
=============================================================================
