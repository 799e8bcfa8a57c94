-------------------------- MODULE MCQueueSessions --------------------------
(***************************************************************************)
(* The withdraw queue and the sessions of the server on small instances.   *)
(* They share no state, so a behaviour exercises one of them.              *)
(***************************************************************************)
EXTENDS WithdrawQueue, SessionCache

VARIABLE part

\* Without invoices the service has nothing to do.
MCInit == part \in {"queue", "sessions"} /\ Init /\ SessionInit
          /\ (part = "sessions" => \A t \in Trades : invoice[t] = None)

MCNext ==
    \/ part = "queue" /\ Next /\ UNCHANGED <<sessionVars, part>>
    \/ part = "sessions" /\ SessionNext /\ UNCHANGED <<vars, part>>

MCSpec == MCInit /\ [][MCNext]_<<vars, sessionVars, part>>
=============================================================================
