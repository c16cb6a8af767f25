----------------------------- MODULE DapService -----------------------------
(***************************************************************************)
(* What the debug host relies on, whatever the USB class that carries the  *)
(* requests: as long as it leaves at most Window requests unanswered, each *)
(* request gets exactly one response, in the order of the requests.        *)
(***************************************************************************)
EXTENDS Naturals
CONSTANTS Window, MaxRequests   \* MaxRequests bounds the requests of a run
VARIABLES
  sent,       \* number of requests the host has sent
  answered,   \* number of responses it has read
  last        \* the request the last response it read belongs to

vars == <<sent, answered, last>>

Init == sent = 0 /\ answered = 0 /\ last = 0

Send == /\ sent < MaxRequests /\ sent - answered < Window
        /\ sent' = sent + 1
        /\ UNCHANGED <<answered, last>>

Answer == /\ answered < sent
          /\ answered' = answered + 1 /\ last' = answered + 1
          /\ UNCHANGED sent

Next == Send \/ Answer
Spec == Init /\ [][Next]_vars /\ WF_vars(Answer)
=============================================================================
