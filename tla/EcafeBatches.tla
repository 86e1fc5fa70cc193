----------------------------- MODULE EcafeBatches -----------------------------
(***************************************************************************)
(* What EcafeMessages says of several messages that one read() returns,    *)
(* compared with what the parsers find in the texts of these messages.     *)
(***************************************************************************)
EXTENDS EcafeMessages, EcafeTexts

CONSTANTS
    BatchMessage,   \* the messages that may follow each other
    MaxBatch        \* bound: how many one read() returns

ASSUME BatchAssumption == BatchMessage \subseteq Message /\ MaxBatch \in Nat

(* The tables have room for every parameter there is.                      *)
ASSUME RoomAssumption == MaxParam > 6

(* The words of the messages.                                              *)
BatchWord ==
    Uri \cup {"id", "hello", "prog", "Chrome", "duration", "none", "zero", "some", "action",
             "0", "1", "2", "200", "400", "k", "v"}

ASSUME BatchWordAssumption == BatchWord \subseteq Token

VARIABLE batch

BatchInit == batch = <<>>

Arrive(msg) ==
    /\ Len(batch) < MaxBatch
    /\ \A k \in DOMAIN batch : batch[k].kind = msg.kind
    /\ batch' = Append(batch, msg)

BatchNext == \E msg \in BatchMessage : Arrive(msg)

BatchSafe == BatchInit /\ [][BatchNext]_batch

-----------------------------------------------------------------------------
ParamIf(present, k, v) == IF present THEN <<Entry(<<k>>, <<v>>)>> ELSE <<>>

Digit(n) == CASE n = 1 -> "1" [] n = 2 -> "2" [] OTHER -> "0"

(* The texts that the programs write for a message of EcafeMessages.       *)
RequestText(msg) ==
    request_prepare(
        [NewRequest(<<msg.uri>>) EXCEPT
           !.params = ParamIf(msg.id # 0, "id", Digit(msg.id))
                        \o ParamIf("msg" \in msg.params, "msg", "hello")
                        \o ParamIf("prog" \in msg.params, "prog", "Chrome")
                        \o ParamIf(msg.duration # "none", "duration", msg.duration)
                        \o ParamIf(msg.action # NoUri, "action", msg.action)],
        1000)

ResponseText(msg) ==
    response_prepare(
        [NewResponse(<<IF msg.status = 200 THEN "200" ELSE "400">>, <<msg.uri>>) EXCEPT
           !.records = IF msg.records THEN <<(<<Entry(<<"k">>, <<"v">>)>>)>> ELSE <<>>],
        1000)

ParamOf(req, k) == request_param_get(req, <<k>>)

(* Several requests in one text are read as EcafeMessages says: the first  *)
(* request line, and each parameter as it was given last.                  *)
RequestsAgree ==
    batch # <<>> /\ batch[1].kind = "request" =>
      LET got  == ParseRequest(FlattenSeq([k \in DOMAIN batch |-> RequestText(batch[k])]))
          said == request_parse(batch)
      IN  /\ got.ok /\ got.uri = <<said.uri>>
          /\ ParamOf(got, "id") = IF said.id = 0 THEN NULL ELSE <<Digit(said.id)>>
          /\ ParamOf(got, "duration") = IF said.duration = "none" THEN NULL ELSE <<said.duration>>
          /\ ParamOf(got, "action") = IF said.action = NoUri THEN NULL ELSE <<said.action>>
          /\ \A p \in {"msg", "prog"} : p \in said.params <=> ParamOf(got, p) # NULL

(* Several responses in one text are read as EcafeMessages says: which     *)
(* texts do not parse at all, and whose uri, status and records are found. *)
ResponsesAgree ==
    batch # <<>> /\ batch[1].kind = "response" =>
      LET text == FlattenSeq([k \in DOMAIN batch |-> ResponseText(batch[k])])
          got  == ParseResponse(text)
          said == response_parse(batch)
      IN  /\ got.ok <=> ResponseParses(batch)
          /\ got.ok => /\ response_header_get(got, <<"uri">>) = <<said.uri>>
                       /\ got.status = <<IF said.status = 200 THEN "200" ELSE "400">>
                       /\ got.records # <<>> <=> said.records
=============================================================================
