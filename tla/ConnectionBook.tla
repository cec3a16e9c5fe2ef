--------------------------- MODULE ConnectionBook ---------------------------
(***************************************************************************)
(* What the daemon promises of the connection states it reports on         *)
(* /v1/status, with nothing of how it keeps them: a peer is "connecting"   *)
(* only while an attempt to reach it is open, and an outcome ("connected", *)
(* "failed") is written only by an attempt that is open, which it closes.  *)
(* Attempts on one peer may overlap.                                       *)
(***************************************************************************)

CONSTANTS Peers,   \* peer ids
          Tasks    \* whoever may hold an attempt open

VARIABLES status,    \* status[p]: the state reported for p
          attempts   \* attempts[p]: the attempts open on p

bookVars == <<status, attempts>>

States   == {"none", "available", "connecting", "connected", "failed"}
Outcomes == {"connected", "failed"}

Init ==
  /\ status   = [p \in Peers |-> "none"]
  /\ attempts = [p \in Peers |-> {}]

Begin(p, t) ==
  /\ \A q \in Peers : t \notin attempts[q]
  /\ status'   = [status EXCEPT ![p] = "connecting"]
  /\ attempts' = [attempts EXCEPT ![p] = attempts[p] \cup {t}]

Settle(p, t, s) ==
  /\ t \in attempts[p]
  /\ status'   = [status EXCEPT ![p] = s]
  /\ attempts' = [attempts EXCEPT ![p] = attempts[p] \ {t}]

Release(p) ==
  /\ status' = [status EXCEPT ![p] = "available"]
  /\ UNCHANGED attempts

\* Runtime state is never persisted: a new daemon knows of no attempt.
Reboot ==
  /\ status'   = [p \in Peers |-> "none"]
  /\ attempts' = [p \in Peers |-> {}]

Next ==
  \/ \E p \in Peers, t \in Tasks :
       \/ Begin(p, t)
       \/ \E s \in Outcomes : Settle(p, t, s)
  \/ \E p \in Peers : Release(p)
  \/ Reboot

Spec == Init /\ [][Next]_bookVars

=============================================================================
