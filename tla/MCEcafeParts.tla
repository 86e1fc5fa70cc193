----------------------------- MODULE MCEcafeParts -----------------------------
(***************************************************************************)
(* The parts that work below the three programs' loops, or before them,    *)
(* side by side: one behaviour is one of a single part.                    *)
(***************************************************************************)
EXTENDS LinkedList, MessageTables, EcafeRelay, EcafeStartup

VARIABLE part

Init ==
    /\ part \in {"list", "tables", "relay", "startup"}
    /\ ListInit /\ TableInit /\ RelayInit /\ StartInit
    /\ part # "relay" => nrows = 1

Next ==
    \/ /\ part = "list" /\ ListNext
       /\ UNCHANGED <<tableVars, relayVars, startVars, part>>
    \/ /\ part = "tables" /\ TableNext
       /\ UNCHANGED <<listVars, relayVars, startVars, part>>
    \/ /\ part = "relay" /\ RelayNext
       /\ UNCHANGED <<listVars, tableVars, startVars, part>>
    \/ /\ part = "startup" /\ StartNext
       /\ UNCHANGED <<listVars, tableVars, relayVars, part>>

vars == <<listVars, tableVars, relayVars, startVars, part>>

Spec ==
    /\ Init /\ [][Next]_vars
    /\ WF_walkVars(ListStep)
    /\ \A s \in Instance : WF_startVars(StartStep(s))
    /\ \A a \in Agent : WF_startVars(AgentSeesEof(a))

-----------------------------------------------------------------------------
(* Values of the constants.                                                *)

Letters(n) == [k \in 1..n |-> "x"]

Tokens ==
    {SP, CR, LF, COLON, EQ, "GET", "POST", "PATCH", "DELETE", "msg", "uri", "/uri", "200", "k",
     "a", "b", "c", "x", "y", "/message", "/clientall", "id", "uptime", "1", "2"}
KeyTexts == {<<"a">>, <<"b">>, <<"c">>}
ValueTexts == {<<"x", EQ, "y">>, <<"x", COLON, SP, "y", LF>>}
Sizes == {12, 14, 15, 16, 19, 20, 24, 25, 26, 28, 40, 90}

(* The second line of a message is a parameter of its own to the parser.   *)
SecondMessage == {<<"x", LF, "msg", EQ, "y">>}
SecondPC == {<<"x", LF, "id", EQ, "2">>}

(* Messages of every length around the sizes of the buffers, with a        *)
(* delimiter, with a line end after them and one within.                   *)
Payloads ==
    {Letters(n) : n \in 0..6} \cup SecondMessage \cup SecondPC \cup
    {<<"x", EQ, "y">>, <<"x", SP, "y", LF>>, <<"x", LF, "y">>}

ClientDetails ==
    [n \in 1..4 |-> [k \in 1..n |-> <<Entry(<<"id">>, Letters(k)),
                                      Entry(<<"uptime">>, <<"1", COLON, "2">>)>>]]
=============================================================================
