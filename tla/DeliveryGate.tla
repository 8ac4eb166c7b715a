---------------------------- MODULE DeliveryGate ----------------------------
(***************************************************************************)
(* What the outbound gate promises: a message leaves only after it was     *)
(* released, and leaves again only as often as the operator accepted that  *)
(* a copy may already be out.  Outbound implements this specification.     *)
(***************************************************************************)
EXTENDS Naturals

CONSTANTS Messages, Bound

VARIABLES verdict, copies, acks

gateVars == <<verdict, copies, acks>>

Init ==
    /\ verdict = [m \in Messages |-> "none"]
    /\ copies = [m \in Messages |-> 0]
    /\ acks = [m \in Messages |-> 0]

(* One verdict per message, never taken back.                              *)
Judge(m) ==
    /\ verdict[m] = "none"
    /\ \E v \in {"release", "refuse"} : verdict' = [verdict EXCEPT ![m] = v]
    /\ UNCHANGED <<copies, acks>>

(* The operator accepts a possible duplicate of a released message.        *)
Acknowledge(m) ==
    /\ verdict[m] = "release"
    /\ acks' = [acks EXCEPT ![m] = @ + 1]
    /\ UNCHANGED <<verdict, copies>>

(* The upstream accepts a copy: the first, or one that was accepted.       *)
Deliver(m) ==
    /\ verdict[m] = "release"
    /\ copies[m] < Bound
    /\ copies[m] <= acks[m]
    /\ copies' = [copies EXCEPT ![m] = @ + 1]
    /\ UNCHANGED <<verdict, acks>>

Next == \E m \in Messages : Judge(m) \/ Acknowledge(m) \/ Deliver(m)

Spec == Init /\ [][Next]_gateVars
=============================================================================
