----------------------------- MODULE MessageTables -----------------------------
(***************************************************************************)
(* How the programs fill in a request or a response before they write it,  *)
(* and what the reader finds in its text: tables of a fixed size, keys     *)
(* that are set again, values with blanks and delimiters in them.          *)
(***************************************************************************)
EXTENDS EcafeTexts

CONSTANTS
    Key, Value,     \* texts without a delimiter, and texts of one line
    MaxSet,         \* bound: how often a table is written to
    TextSize        \* the sizes of the buffers for the texts

ASSUME WordAssumption == {"/uri", "200", "k"} \subseteq Token

ASSUME KeyAssumption ==
    \A k \in Key : k \in Text /\ str_trim(k) = k /\ Range(k) \cap {COLON, EQ, LF} = {}

ASSUME ValueAssumption ==
    \A v \in Value : v \in Text /\ LF \notin Range(str_trim(v)) /\ str_trim(v) # NULL

(* A header "content-type" may announce a binary body, which is not        *)
(* modelled.                                                               *)
ASSUME NoBinaryBody == <<"content-type">> \notin Key

ASSUME TextSizeAssumption == TextSize \subseteq Nat

VARIABLES
    request, response,
    params, headers,    \* ghosts: the value last set for each key, or NULL
    rows,               \* ghost: the records that were to be told
    nset

tableVars == <<request, response, params, headers, rows, nset>>

TableInit ==
    /\ request = NewRequest(<<"/uri">>)
    /\ response = NewResponse(<<"200">>, <<"/uri">>)
    /\ params = [k \in Key |-> NULL] /\ headers = [k \in Key |-> NULL]
    /\ rows = <<>>
    /\ nset = 0

Set == nset < MaxSet /\ nset' = nset + 1

SetParam(k, v) ==
    /\ Set
    /\ request' = request_param_set(request, k, v)
    /\ params' = [params EXCEPT ![k] = str_trim(v)]
    /\ UNCHANGED <<response, headers, rows>>

SetHeader(k, v) ==
    /\ Set
    /\ request' = request_header_set(request, k, v)
    /\ headers' = [headers EXCEPT ![k] = str_trim(v)]
    /\ UNCHANGED <<response, params, rows>>

(* A record of n keyvals; the k-th key is k letters long.                  *)
Row(n, v) == [k \in 1..n |-> Entry([l \in 1..k |-> "k"], v)]
PushAll(rec, row) ==
    FoldLeft(LAMBDA r, e : response_keyval_push(r, e.key, e.val), rec, row)

PushRecord(n, v) ==
    /\ Set
    /\ response' = response_record_push(response, PushAll(<<>>, Row(n, v)))
    /\ rows' = Append(rows, Row(n, v))
    /\ UNCHANGED <<request, params, headers>>

TableNext ==
    \/ \E k \in Key, v \in Value : SetParam(k, v) \/ SetHeader(k, v)
    \/ \E n \in 1..(MaxKeyval + 1), v \in Value : Range(v) \cap {CR, LF} = {} /\ PushRecord(n, v)

TableSafe == TableInit /\ [][TableNext]_tableVars

-----------------------------------------------------------------------------
Given(table) == {k \in Key : table[k] # NULL}
HasRoom(table) == Cardinality(Given(table)) < MaxParam

(* A text of a request that is shorter than the buffer reads as the        *)
(* request; values may hold either delimiter.  If no more keys were set    *)
(* than there is room for, that says for each key what was set last.       *)
RequestReadsBack ==
    /\ \A size \in TextSize :
         LET text == request_prepare(request, size)
         IN  Len(text) < size => ParseRequest(text) = request
    /\ HasRoom(params) =>
         \A k \in Key : request_param_get(request, k) = params[k]
    /\ HasRoom(headers) =>
         \A k \in Key : Lookup(request.headers, k) = headers[k]

(* Of a record that is not full the reader finds every key.                *)
KeysAreFound(res) ==
    \A rec \in Range(res.records), k \in 1..MaxKeyval :
        Len(rec) < MaxKeyval /\ k <= Len(rec) => response_keyval_get(rec, rec[k].key) = rec[k].val

(* How long the text of a response is that leaves room behind it.          *)
WholeLength(res) ==
    {Len(response_prepare(res, size)) : size \in
        {s \in TextSize : /\ response_prepare(res, s) # CutText
                          /\ Len(response_prepare(res, s)) < s - 2}}

(* Whatever the buffer's size, the reader of a response finds records that *)
(* were pushed, whole and in their order, as many as the tables hold, or   *)
(* learns that the text is not whole; and finds all of them if the text    *)
(* fits.  That some of the last are missing is not always an error:        *)
(* response_prepare may cut a text behind a record.  A record that is full *)
(* has all its keys, but response_keyval_get finds none of them.           *)
ResponseReadsBack ==
    LET told == [n \in 1..Min({Len(rows), MaxRecord}) |-> Cut(rows[n], MaxKeyval)]
        all  == WholeLength(response)
    IN  \A size \in TextSize :
          LET text == response_prepare(response, size)
              got  == IF text = CutText THEN NoResponse ELSE ParseResponse(text)
          IN  /\ got.ok => IsPrefix(got.records, told) /\ KeysAreFound(got)
              /\ (\E n \in all : n < size) => got.ok /\ got.records = told
=============================================================================
