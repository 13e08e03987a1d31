----------------------------- MODULE RideService -----------------------------
(***************************************************************************)
(* What ride dispatch promises: a request waits until it is matched or     *)
(* cancelled, a matched ride is completed once, and a driver never has two *)
(* rides at a time.                                                        *)
(***************************************************************************)
CONSTANTS Requests, Drivers

VARIABLES
  phase,   \* phase[r]: "none", "waiting", "riding", "completed" or "cancelled"
  driver   \* driver[r]: the driver matched with r, or NoDriver

NoDriver == "nobody"

Init ==
  /\ phase = [r \in Requests |-> "none"]
  /\ driver = [r \in Requests |-> NoDriver]

Ask(r) ==
  phase[r] = "none" /\ phase' = [phase EXCEPT ![r] = "waiting"] /\ UNCHANGED driver

Free(d) == \A r \in Requests : phase[r] = "riding" => driver[r] # d

Match(r, d) ==
  /\ phase[r] = "waiting" /\ Free(d)
  /\ phase' = [phase EXCEPT ![r] = "riding"] /\ driver' = [driver EXCEPT ![r] = d]

Complete(r) ==
  phase[r] = "riding" /\ phase' = [phase EXCEPT ![r] = "completed"] /\ UNCHANGED driver

Cancel(r) ==
  phase[r] = "waiting" /\ phase' = [phase EXCEPT ![r] = "cancelled"] /\ UNCHANGED driver

Next ==
  \E r \in Requests :
    Ask(r) \/ Complete(r) \/ Cancel(r) \/ \E d \in Drivers : Match(r, d)

Spec == Init /\ [][Next]_<<phase, driver>>
=============================================================================
