------------------------------ MODULE MCEcafeTwo ------------------------------
(***************************************************************************)
(* The three programs with two web workers, and beside them the batches of *)
(* messages that one read() returns: one behaviour is one of either part.  *)
(***************************************************************************)
EXTENDS MCEcafe, EcafeBatches

VARIABLE part

TwoInit == part \in {"programs", "batches"} /\ Init /\ BatchInit

TwoNext ==
    \/ part = "programs" /\ Next /\ UNCHANGED <<batch, part>>
    \/ part = "batches" /\ BatchNext /\ UNCHANGED <<vars, part>>

TwoSafe == TwoInit /\ [][TwoNext]_<<vars, batch, part>>

-----------------------------------------------------------------------------
(* Values of the constants.                                                *)

Tokens ==
    BatchWord \cup {SP, CR, LF, COLON, EQ, "GET", "POST", "PATCH", "DELETE", "msg", "uri"}

BatchRequest(uri, id, action, duration, given) ==
    [MakeRequest(uri, id, given, 0) EXCEPT !.action = action, !.duration = duration]

BatchMessages ==
    {BatchRequest("lock", 1, NoUri, "none", {}),
     BatchRequest("message", 2, NoUri, "none", {"msg"}),
     BatchRequest("getdetails", 0, NoUri, "none", {}),
     BatchRequest("timer", 1, "lock", "some", {}),
     BatchRequest("action", 2, NoUri, "none", {"prog"}),
     MakeResponse("lock", 200, FALSE, 0),
     MakeResponse("ping", 200, TRUE, 0),
     MakeResponse("message", 400, FALSE, 0)}
===============================================================================
