------------------------------ MODULE MCLegacy ------------------------------
(***************************************************************************)
(* The first server in one run: reading and writing its messages, its       *)
(* thread pool with any caller, and the server built on the pool.  An       *)
(* execution exercises the part chosen at its start.                        *)
(***************************************************************************)
EXTENDS LegacyMessages, LegacyServer

VARIABLE part

Events == Session \X (1..MaxRequests)

Init ==
  /\ part \in {"messages", "pool", "server"}
  /\ LegacyMessagesInit /\ ServerInit
  /\ part # "messages" => message = "mobile_request" /\ wire = <<>>

\* The pool never looks at what a task is: its caller posts always the same.
PoolAlone == \/ Post(<<1, 1>>)
             \/ PoolSteps

Next ==
  \/ part = "messages" /\ LegacyMessagesNext /\ UNCHANGED <<part, poolvars, servervars>>
  \/ part = "pool" /\ PoolAlone /\ UNCHANGED <<part, lmvars, servervars>>
  \/ part = "server" /\ ServerNext /\ UNCHANGED <<part, lmvars>>

vars == <<part, lmvars, poolvars, servervars>>

Fairness ==
  /\ WF_vars(part = "server" /\ ~broken /\ Main /\ UNCHANGED <<part, lmvars>>)
  /\ \A w \in Thread :
       WF_vars(part = "server" /\ ~broken /\ (Cycle(w) \/ Handler(w)) /\ UNCHANGED <<part, lmvars>>)

Spec == Init /\ [][Next]_vars /\ Fairness

=============================================================================
