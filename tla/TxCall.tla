------------------------------- MODULE TxCall -------------------------------
(***************************************************************************)
(* What near_rpc_send_tx (src/src/cnear.c) lets its caller conclude.  A    *)
(* call's transaction takes effect at most once, never before the call     *)
(* began, and the response says how much is known: with rpc_code 0 nothing *)
(* was sent and nothing ever will take effect, so the call may be made     *)
(* again; with a result under HTTP 200, for a status that waits for        *)
(* execution, it has taken effect; after anything else it may or may not.  *)
(***************************************************************************)
CONSTANT Calls

VARIABLES phase,    \* call -> what its caller knows
          applied   \* the calls whose transaction took effect

Phases == {"new", "open", "notSent", "unknown", "confirmed"}

Init ==
  /\ phase = [c \in Calls |-> "new"]
  /\ applied = {}

Open(c) ==
  /\ phase[c] = "new"
  /\ phase' = [phase EXCEPT ![c] = "open"]
  /\ UNCHANGED applied

Apply(c) ==
  /\ phase[c] \in {"open", "unknown"}
  /\ c \notin applied
  /\ applied' = applied \cup {c}
  /\ UNCHANGED phase

Close(c, outcome) ==
  /\ phase[c] = "open"
  /\ outcome = "notSent" => c \notin applied
  /\ outcome = "confirmed" => c \in applied
  /\ phase' = [phase EXCEPT ![c] = outcome]
  /\ UNCHANGED applied

\* The process ends: its open calls never return.
Abandon ==
  /\ phase' = [c \in Calls |-> IF phase[c] = "open" THEN "unknown" ELSE phase[c]]
  /\ UNCHANGED applied

Next ==
  \/ \E c \in Calls :
       \/ Open(c) \/ Apply(c)
       \/ \E outcome \in {"notSent", "unknown", "confirmed"} : Close(c, outcome)
  \/ Abandon

Spec == Init /\ [][Next]_<<phase, applied>>
=============================================================================
