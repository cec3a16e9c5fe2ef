-------------------------------- MODULE Rpc --------------------------------
(***************************************************************************)
(* What a CLI command may rely on when it asks the daemon for something    *)
(* (src/ipc/client.rs, IpcClient::request): the daemon carries the request *)
(* out, or refuses it, or never sees it, and it does so at most once.  An  *)
(* exact request is carried out as it was meant; another one may be taken  *)
(* for a request that was never made.  Ok means that it was carried out,   *)
(* one way or the other.  An error means nothing: the request may have     *)
(* been carried out, or may yet be.                                        *)
(***************************************************************************)

VARIABLES exact,    \* can the request be taken for itself only?
          outcome,  \* what the daemon made of the request
          result    \* what the caller has been told

vars == <<exact, outcome, result>>

Init == exact \in BOOLEAN /\ outcome = "none" /\ result = "none"

Ask ==
  /\ result # "pending"
  /\ exact' \in BOOLEAN
  /\ outcome' = "none"
  /\ result' = "pending"

Handle ==
  /\ outcome = "none"
  /\ outcome' \in {"done", "refused"} \cup (IF exact THEN {} ELSE {"misread"})
  /\ UNCHANGED <<exact, result>>

Succeed ==
  /\ result = "pending"
  /\ outcome \in {"done", "misread"}
  /\ result' = "ok"
  /\ UNCHANGED <<exact, outcome>>

Fail ==
  /\ result = "pending"
  /\ result' = "error"
  /\ UNCHANGED <<exact, outcome>>

\* The caller is gone before it was told anything.
Abandon ==
  /\ result = "pending"
  /\ result' = "none"
  /\ UNCHANGED <<exact, outcome>>

Next == Ask \/ Handle \/ Succeed \/ Fail \/ Abandon

Spec == Init /\ [][Next]_vars

=============================================================================
