------------------------------ MODULE EcafeTexts ------------------------------
(***************************************************************************)
(* The texts of requests and responses: request.c and response.c, of which *)
(* each of the three programs has its copy.  A text is a sequence of       *)
(* tokens, each of which stands for one byte.                              *)
(***************************************************************************)
EXTENDS SequencesExt, Naturals

CONSTANTS
    Token,      \* the delimiters, and words of which only the equality matters
    MaxParam,   \* REQ_MAX_PARAM_LEN, RES_MAX_PARAM_LEN
    MaxKeyval,  \* RES_MAX_KEYVAL_LEN
    MaxRecord   \* RES_MAX_RECORD_LEN

ASSUME TableAssumption ==
    MaxParam \in Nat \ {0} /\ MaxKeyval \in Nat \ {0} /\ MaxRecord \in Nat \ {0}

SP == "SP"  CR == "CR"  LF == "LF"  COLON == ":"  EQ == "="

ASSUME TokenAssumption ==
    {SP, CR, LF, COLON, EQ, "GET", "POST", "PATCH", "DELETE", "msg", "uri"} \subseteq Token

Text == Seq(Token)

CRLF == <<CR, LF>>
IsSpace == {SP, CR, LF}

(* The first c from position p on; 0 if there is none.                     *)
strchr(text, p, c) ==
    LET hits == {k \in p..Len(text) : text[k] = c}
    IN  IF hits = {} THEN 0 ELSE Min(hits)

StartsAt(text, p, prefix) ==
    /\ p + Len(prefix) - 1 <= Len(text)
    /\ SubSeq(text, p, p + Len(prefix) - 1) = prefix

str_trim(text) ==
    LET kept == {k \in DOMAIN text : text[k] \notin IsSpace}
    IN  IF kept = {} THEN <<>> ELSE SubSeq(text, Min(kept), Max(kept))

Cut(text, size) == SubSeq(text, 1, Min({size, Len(text)}))

-----------------------------------------------------------------------------
(* Tables of keys and values.                                              *)

Entry(k, v) == [key |-> k, val |-> v]

Without(table, k) ==
    FoldLeft(LAMBDA kept, e : IF e.key = k THEN kept ELSE Append(kept, e), <<>>, table)

(* Fault: the table is found full before the old value was taken out. *)
PutLast_Full(table, k, v) ==
    IF Len(table) = MaxParam - 1 THEN Without(table, k)
    ELSE Append(Without(table, k), Entry(k, v))

(* Fault: a key that is set again keeps its value. *)
PutLast_Keep(table, k, v) ==
    IF Len(table) = MaxParam - 1 \/ Without(table, k) # table THEN table
    ELSE Append(table, Entry(k, v))

(* A key that is set again moves to the end; the table never gets its last *)
(* entry.                                                                  *)
PutLast(table, k, v) ==
    IF Len(Without(table, k)) = MaxParam - 1 THEN Without(table, k)
    ELSE Append(Without(table, k), Entry(k, v))

NULL == <<"NULL">>

Lookup(table, k) ==
    LET hits == {n \in DOMAIN table : table[n].key = k}
    IN  IF hits = {} THEN NULL ELSE table[Min(hits)].val

request_param_set(req, k, v) == [req EXCEPT !.params = PutLast(@, k, str_trim(v))]
request_header_set(req, k, v) == [req EXCEPT !.headers = PutLast(@, k, str_trim(v))]

(* Fault: the keys are not compared. *)
request_param_get_First(req, k) == IF req.params = <<>> THEN NULL ELSE req.params[1].val

request_param_get(req, k) == Lookup(req.params, k)

response_header_set(res, k, v) == [res EXCEPT !.headers = PutLast(@, k, v)]
response_header_get(res, k) == Lookup(res.headers, k)

response_keyval_push(rec, k, v) ==
    IF Len(rec) >= MaxKeyval THEN rec ELSE Append(rec, Entry(k, v))

(* Nothing is found in a record that is full.                              *)
response_keyval_get(rec, k) ==
    IF Len(rec) >= MaxKeyval THEN NULL ELSE Lookup(rec, k)

response_record_push(res, rec) ==
    IF Len(res.records) >= MaxRecord THEN res
    ELSE [res EXCEPT !.records = Append(@, rec)]

-----------------------------------------------------------------------------
(* Requests.                                                               *)

ReqType == {<<"GET">>, <<"POST">>, <<"PATCH">>, <<"DELETE">>}

NewRequest(uri) == [ok |-> TRUE, type |-> <<"POST">>, uri |-> uri,
                    headers |-> <<>>, params |-> <<>>]
NoRequest == [ok |-> FALSE]

(* The entries of a table, one after the other.                            *)
Spelled(table, delim, end) ==
    FlattenSeq([n \in DOMAIN table |-> table[n].key \o delim \o table[n].val \o end])

(* What does not fit is left out, without an error.                        *)
request_prepare(req, buflen) ==
    Cut(req.type \o <<SP>> \o req.uri \o <<LF>>
          \o Spelled(req.headers, <<COLON, SP>>, <<LF>>) \o <<LF>>
          \o Spelled(req.params, <<EQ>>, <<LF>>),
        buflen)

(* getstring: the lines of a text.  An empty one at its end, which is the  *)
(* end of the text, changes nothing.                                       *)
Lines(text) ==
    FoldLeft(LAMBDA lines, t : IF t = LF THEN Append(lines, <<>>)
                               ELSE [lines EXCEPT ![Len(lines)] = Append(@, t)],
             <<(<<>>)>>, text)

(* Fault: the last delimiter counts. *)
request_extract_key_value_Last(table, line, delim) ==
    LET hits == {k \in DOMAIN line : line[k] = delim}
    IN  IF hits = {} THEN table
        ELSE PutLast(table, str_trim(SubSeq(line, 1, Max(hits) - 1)),
                            str_trim(SubSeq(line, Max(hits) + 1, Len(line))))

(* A line without the delimiter says nothing; the first one counts.        *)
request_extract_key_value(table, line, delim) ==
    LET p == strchr(line, 1, delim)
    IN  IF p = 0 THEN table
        ELSE PutLast(table, str_trim(SubSeq(line, 1, p - 1)),
                            str_trim(SubSeq(line, p + 1, Len(line))))

Extract(lines, delim) ==
    FoldLeft(LAMBDA table, line : request_extract_key_value(table, line, delim), <<>>, lines)

(* The request line, headers up to an empty line, then parameters.         *)
ParseRequest(text) ==
    LET lines  == Lines(text)
        first  == lines[1]
        sp     == strchr(first, 1, SP)
        header == Min({k \in 2..(Len(lines) + 1) : k > Len(lines) \/ lines[k] = <<>>})
    IN  IF sp = 0 \/ SubSeq(first, 1, sp - 1) \notin ReqType THEN NoRequest
        ELSE [ok      |-> TRUE,
              type    |-> SubSeq(first, 1, sp - 1),
              uri     |-> SubSeq(first, sp + 1, Len(first)),
              headers |-> Extract(SubSeq(lines, 2, header - 1), COLON),
              params  |-> Extract(SubSeq(lines, header + 1, Len(lines)), EQ)]

-----------------------------------------------------------------------------
(* Responses.                                                              *)

NewResponse(status, uri) ==
    [ok |-> TRUE, status |-> status, headers |-> <<Entry(<<"uri">>, uri)>>,
     records |-> <<>>]
NoResponse == [ok |-> FALSE]

CutText == <<"error">>

Ended(text, size) == IF Len(text) < size - 2 THEN text \o CRLF ELSE text

(* The line feed after the last keyval of a record gives way to CR LF, if  *)
(* these fit.  A text that did not fit is thereby one token short of the   *)
(* buffer, and is no error.                                                *)
WithRecord(text, rec, size) ==
    Ended(Front(Cut(text \o Spelled(rec, <<EQ>>, <<LF>>), size)), size)

WithRecords(text, records, size) ==
    FoldLeft(LAMBDA sofar, rec : WithRecord(sofar, rec, size), text, records)

HeadText(res, size) ==
    LET status == res.status \o <<SP, "msg">> \o CRLF
    IN  status \o Cut(Spelled(res.headers, <<COLON, SP>>, CRLF)
                        \o IF res.records = <<>> THEN <<>> ELSE CRLF,
                      size - Len(status))

response_prepare(res, size) ==
    LET whole == Ended(WithRecords(HeadText(res, size), res.records, size), size)
    IN  IF Len(whole) >= size THEN CutText ELSE whole

(* The parser goes from delimiter to delimiter.  What it finds on its way  *)
(* is a sequence of entries, each with the place where it ends, or, where  *)
(* a delimiter is missing, Broken.                                         *)
Found(k, v, end) == [key |-> k, val |-> v, end |-> end]
Broken == Found(NULL, NULL, 0)

HeaderIn(text, p, colon, cr) ==
    Found(SubSeq(text, p, colon - 1), str_trim(SubSeq(text, colon + 1, cr - 1)), cr)

(* Fault: the end of the header is not looked for. *)
HeadersFrom_End(text, ptr) ==
    LET rest[p \in 1..(Len(text) + 1)] ==
          LET Line(colon, cr) ==
                IF p >= Len(text) THEN <<>>
                ELSE IF colon = 0 \/ cr = 0 \/ ~StartsAt(text, cr, CRLF) THEN <<Broken>>
                ELSE <<HeaderIn(text, p, colon, cr)>> \o rest[cr + 2]
              From(colon) == Line(colon, strchr(text, Max({1, colon}), CR))
          IN  From(strchr(text, p, COLON))
    IN  rest[ptr]

(* Headers, up to the first that an empty line follows.                    *)
HeadersFrom(text, ptr) ==
    LET rest[p \in 1..(Len(text) + 1)] ==
          LET Line(colon, cr) ==
                IF p >= Len(text) THEN <<>>
                ELSE IF colon = 0 \/ cr = 0 \/ ~StartsAt(text, cr, CRLF) THEN <<Broken>>
                ELSE IF StartsAt(text, cr, CRLF \o CRLF)
                  THEN <<HeaderIn(text, p, colon, cr)>>
                ELSE <<HeaderIn(text, p, colon, cr)>> \o rest[cr + 2]
              From(colon) == Line(colon, strchr(text, Max({1, colon}), CR))
          IN  From(strchr(text, p, COLON))
    IN  rest[ptr]

(* The keyvals of one record.  A value reaches to the line feed; one that  *)
(* CR stands before ends the record.                                       *)
KeyvalsFrom(text, ptr) ==
    LET rest[p \in 1..(Len(text) + 1)] ==
          LET Keyval(eq, end, lf) ==
                Found(SubSeq(text, p, eq - 1), SubSeq(text, eq + 1, end), lf)
              Line(eq, lf) ==
                IF eq = 0 \/ lf = 0 THEN <<Broken>>
                ELSE IF text[lf - 1] = CR THEN <<Keyval(eq, lf - 2, lf)>>
                ELSE <<Keyval(eq, lf - 1, lf)>> \o rest[lf + 1]
              From(eq) == Line(eq, strchr(text, Max({1, eq}), LF))
          IN  From(strchr(text, p, EQ))
    IN  rest[ptr]

(* Records, up to the first that an empty line follows.                    *)
RecordsFrom(text, ptr) ==
    LET rest[p \in 1..(Len(text) + 1)] ==
          LET Record(rec, end) ==
                IF p >= Len(text) THEN <<>>
                ELSE IF strchr(text, p, CR) \in {0, Len(text)} \/ end = 0 THEN <<(<<Broken>>)>>
                ELSE IF StartsAt(text, end - 1, CRLF \o CRLF) THEN <<rec>>
                ELSE <<rec>> \o rest[end + 1]
              From(rec) == Record(rec, Last(rec).end)
          IN  From(KeyvalsFrom(text, p))
    IN  rest[ptr]

(* What is found goes into tables that may be full.                        *)
ResponseOf(status, headers, records) ==
    [ok      |-> TRUE,
     status  |-> status,
     headers |-> FoldLeft(LAMBDA table, e : PutLast(table, e.key, e.val), <<>>, headers),
     records |-> [n \in 1..Min({Len(records), MaxRecord}) |->
                    FoldLeft(LAMBDA rec, e : response_keyval_push(rec, e.key, e.val),
                             <<>>, records[n])]]

(* The status line, headers up to an empty line, then records.             *)
ParseResponse(text) ==
    LET Whole(headers, records) ==
          IF \/ headers # <<>> /\ Last(headers) = Broken
             \/ records # <<>> /\ Last(records) = <<Broken>>
          THEN NoResponse
          ELSE ResponseOf(<<text[1]>>, headers, records)
        Body(headers, at) ==
          Whole(headers, IF at > Len(text) THEN <<>> ELSE RecordsFrom(text, at))
        Headers(headers) ==
          IF headers = <<>> THEN Whole(<<>>, <<>>) ELSE Body(headers, Last(headers).end + 4)
        Status(cr) ==
          IF cr = 0 \/ ~StartsAt(text, cr, CRLF) THEN NoResponse
          ELSE IF StartsAt(text, cr, CRLF \o CRLF) THEN Whole(<<>>, <<>>)
          ELSE Headers(HeadersFrom(text, cr + 2))
    IN  Status(strchr(text, 1, CR))
=============================================================================
