------------------------------ MODULE Requests ------------------------------
(***************************************************************************)
(* The requests and messages that the API serves beside each other, as the   *)
(* modules of its components see them: a worker serves one of them, and      *)
(* remembers what its handler knows until it goes on after an await.         *)
(***************************************************************************)
CONSTANT Workers        \* requests and messages the API can serve at the same time
VARIABLE request        \* request[w]: what worker w remembers between two awaits

IdleRequest == [step : {"idle"}]
Idle == [step |-> "idle"]

Serve(w, r) == request' = [request EXCEPT ![w] = r]
Finish(w) == Serve(w, Idle)
=============================================================================
