---------------------------- MODULE MonetraParse ----------------------------
(***************************************************************************)
(* Reading responses: monetra_parse.c and the response accessors of        *)
(* monetra_trans.c.  A server answers transactions; TCP delivers its bytes *)
(* in segments of any size; after each segment the READ handler parses off *)
(* every complete message.  Bytes are model values of their own: the three *)
(* framing bytes, the digits of an id, and one byte per class that         *)
(* LM_conn_determine_response_type and the KV reader tell apart.           *)
(***************************************************************************)
EXTENDS Integers, Sequences, FiniteSetsExt

CONSTANTS
    Ids,         \* transaction ids, each a sequence of digits
    Bodies,      \* what the server may put into a response (see Answer)
    MaxAnswers,  \* bound on the number of responses the server sends
    ScanLimit    \* bytes that decide the type of a response (32 in the code)

Digits == {"1", "2"}
KeyBytes == Digits \cup {"a"}
Bytes == Digits \cup {"STX", "FS", "ETX", "=", ",", "newline", "quote", "a", "other"}

ASSUME ParseAssumption ==
    /\ \A id \in Ids : id \in Seq(Digits) /\ id # <<>>
    /\ MaxAnswers \in Nat /\ ScanLimit \in Nat \ {0}

VARIABLES
    answers,   \* history: the responses the server has sent, each with its end in the stream
    flight,    \* bytes sent and not yet delivered
    inbuf,     \* conn->inbuf
    verdict,   \* "rest": waiting for bytes; "parse": in the READ loop; "error"
    tstatus,   \* trans->status; FREE: not in trans_id_map
    response   \* response_type, response_params, response_raw, response_csv

vars == <<answers, flight, inbuf, verdict, tstatus, response>>

(* A pointer is NULL or holds one value.                                    *)
NULL == <<>>
Holds(x) == <<x>>

NoResponse == [type |-> "UNKNOWN", params |-> NULL, raw |-> NULL, csv |-> NULL]

-----------------------------------------------------------------------------
(* The server and the network.                                             *)

(* How a value is quoted when it must be: quotes doubled, quotes around.    *)
Doubling(v) ==
    LET double[i \in 1 .. Len(v) + 1] ==
            IF i > Len(v) THEN <<>>
            ELSE (IF v[i] = "quote" THEN <<"quote", "quote">> ELSE <<v[i]>>) \o double[i + 1]
    IN  double
Quote(v) ==
    IF \A i \in DOMAIN v : v[i] = "a" THEN v
    ELSE <<"quote">> \o Doubling(v)[1] \o <<"quote">>

(* A body is a list of key/value pairs, one to a line, or other data.       *)
Line(pair) == pair.key \o <<"=">> \o Quote(pair.value)
Writing(list) ==
    LET text[i \in 1 .. Len(list) + 1] ==
            IF i > Len(list) THEN <<>> ELSE Line(list[i]) \o <<"newline">> \o text[i + 1]
    IN  text
Serialize(body) == IF body.kind = "pairs" THEN Writing(body.data)[1] ELSE body.data

(* The frame, as LM_trans_structure writes it: STX id FS data ETX.          *)
Frame(id, body) == <<"STX">> \o id \o <<"FS">> \o Serialize(body) \o <<"ETX">>

(* The number of bytes of the first k answers.                              *)
Sent(k) == IF k = 0 THEN 0 ELSE answers[k].end

Answer(id, body) ==
    /\ Len(answers) < MaxAnswers
    /\ answers' = Append(answers, [id |-> id, body |-> body,
                                   end |-> Sent(Len(answers)) + Len(Frame(id, body))])
    /\ flight' = flight \o Frame(id, body)
    /\ UNCHANGED <<inbuf, verdict, tstatus, response>>

(* A READ event: M_io_read_into_parser takes what has arrived.              *)
Receive(n) ==
    /\ verdict = "rest"
    /\ n \in 1 .. Len(flight)
    /\ inbuf' = inbuf \o SubSeq(flight, 1, n)
    /\ flight' = SubSeq(flight, n + 1, Len(flight))
    /\ verdict' = "parse"
    /\ UNCHANGED <<answers, tstatus, response>>

-----------------------------------------------------------------------------
(* What a response says: LM_conn_determine_response_type and the KV reader.*)

(* The bytes that end the scan (letters, digits and quotes do not, every    *)
(* other one does, the framing bytes too), and what they make of the        *)
(* response.                                                                *)
PassedOver == KeyBytes \cup {"quote"}
Ends(b) == b \notin PassedOver
TypeBy(b) == IF b = "=" THEN "KV" ELSE IF b \in {",", "newline"} THEN "CSV" ELSE "BULK"

(* The scan: it starts at the second byte, the first having only been       *)
(* compared with '=' and ','.                                               *)
Scanned(data) == IF Len(data) > ScanLimit THEN ScanLimit ELSE Len(data)
Scan(data) ==
    LET scan[i \in 1 .. Scanned(data) + 1] ==
            IF i > Scanned(data) THEN "BULK"
            ELSE IF Ends(data[i]) THEN TypeBy(data[i]) ELSE scan[i + 1]
    IN  scan
ResponseType(data) ==
    IF Scanned(data) = 0 \/ data[1] \in {"=", ","} THEN "BULK" ELSE Scan(data)[2]

(* M_hash_dict_deserialize_unquote: NULL for an empty value; otherwise strip *)
(* the quotes around it, then of each pair of quotes skip the second.        *)
Stripped(v) ==
    IF Len(v) >= 2 /\ v[1] = "quote" /\ v[Len(v)] = "quote"
    THEN SubSeq(v, 2, Len(v) - 1) ELSE v
Copying(s) ==
    LET copy[i \in 1 .. Len(s) + 1] ==
            IF i > Len(s) THEN <<>>
            ELSE <<s[i]>> \o copy[IF s[i] = "quote" /\ i < Len(s) /\ s[i + 1] = "quote"
                                  THEN i + 2 ELSE i + 1]
    IN  copy
UnquoteKeepsPairs(v) == IF v = <<>> THEN NULL ELSE Holds(Stripped(v))
Unquote(v) == IF v = <<>> THEN NULL ELSE Holds(Copying(Stripped(v))[1])

(* M_str_explode_quoted: a delimiter counts where an even number of quotes  *)
(* is behind it, and the pieces are what is between those that count.       *)
Quoting(s) ==
    LET open[i \in 0 .. Len(s)] ==
            IF i = 0 THEN 0 ELSE IF s[i] = "quote" THEN 1 - open[i - 1] ELSE open[i - 1]
    IN  open
Delimiters(s, delim) == {i \in 1 .. Len(s) : s[i] = delim /\ Quoting(s)[i] = 0}
PieceEnd(s, delim, i) == Min({j \in Delimiters(s, delim) : j >= i} \cup {Len(s) + 1})
Exploding(s, delim) ==
    LET pieces[i \in 1 .. Len(s) + 2] ==
            IF i > Len(s) + 1 THEN <<>>
            ELSE <<SubSeq(s, i, PieceEnd(s, delim, i) - 1)>> \o pieces[PieceEnd(s, delim, i) + 1]
    IN  pieces

(* LM_hash_dict_deserialize: one pair per line, blank lines skipped, a      *)
(* later pair replaces an earlier one; a line without '=' makes it NULL.    *)
Lines(data) == Exploding(data, "newline")[1]
HalfLine(lines) == \E i \in DOMAIN lines : lines[i] # <<>> /\ Delimiters(lines[i], "=") = {}
KeyEnd(l) == Min(Delimiters(l, "="))
Insert(dict, key, value) ==
    [k \in DOMAIN dict \cup {key} |-> IF k = key THEN value ELSE dict[k]]
Inserting(lines) ==
    LET dict[i \in 0 .. Len(lines)] ==
            IF i = 0 THEN <<>>
            ELSE IF lines[i] = <<>> THEN dict[i - 1]
            ELSE Insert(dict[i - 1], SubSeq(lines[i], 1, KeyEnd(lines[i]) - 1),
                        Unquote(SubSeq(lines[i], KeyEnd(lines[i]) + 1, Len(lines[i]))))
    IN  dict
Deserialize(data) ==
    IF HalfLine(Lines(data)) THEN NULL
    ELSE Holds(Inserting(Lines(data))[Len(Lines(data))])

(* The response fields LM_conn_parse_msg fills in.                          *)
KeyValue(params) == [type |-> "KV", params |-> params, raw |-> NULL, csv |-> NULL]
Raw(type, data) == [type |-> type, params |-> NULL, raw |-> Holds(data), csv |-> NULL]
ResponseTo(data) ==
    IF ResponseType(data) = "KV"
    THEN KeyValue(Deserialize(data))
    ELSE Raw(ResponseType(data), data)

(* The first byte from the second on that tells what data is, within reach *)
(* of the scan.                                                            *)
Telling(data) == {i \in 2 .. Len(data) : i <= ScanLimit /\ data[i] \notin KeyBytes \cup {"quote"}}
SaysBy(data, b) ==
    /\ data # <<>> /\ data[1] \notin {"=", ","}
    /\ \E i \in Telling(data) : data[i] = b /\ \A j \in Telling(data) : i <= j

(* What bodies may be: no data holds the byte that ends a frame, keys are   *)
(* plain, and of the rest what reads like pairs are pairs that break off.   *)
ASSUME BodyAssumption ==
    \A body \in Bodies :
        /\ Serialize(body) \in Seq(Bytes \ {"ETX"})
        /\ body.kind \in {"pairs", "badpairs", "data"}
        /\ body.kind = "pairs" =>
              body.data \in Seq([key : Seq(KeyBytes) \ {<<>>}, value : Seq(Bytes)]) \ {<<>>}
        /\ body.kind = "badpairs" => SaysBy(body.data, "=") /\ HalfLine(Lines(body.data))
        /\ body.kind = "data" => ~SaysBy(body.data, "=")

-----------------------------------------------------------------------------
(* LM_conn_parse_trans_buffer, one turn of its loop (and of its caller's)  *)
(* per action.                                                             *)

(* STX, one byte of id, FS, one byte of data, ETX.                          *)
MinMessageSix == 6
MinMessage == 5

(* M_parser_consume_until(ETX, eat): bytes up to and with the first ETX.    *)
Etxs == {i \in DOMAIN inbuf : inbuf[i] = "ETX"}
UptoEtxLeft == IF Etxs = {} THEN 0 ELSE Min(Etxs) - 1
UptoEtx == IF Etxs = {} THEN 0 ELSE Min(Etxs)

Buffered == verdict = "parse" /\ Len(inbuf) >= MinMessage

ParseWait ==
    /\ verdict = "parse"
    /\ Buffered => inbuf[1] = "STX" /\ UptoEtx = 0
    /\ verdict' = "rest"
    /\ UNCHANGED <<answers, flight, inbuf, tstatus, response>>

(* The message without STX and ETX, its id, and whether FS follows the id.  *)
Message == SubSeq(inbuf, 2, UptoEtx - 1)
IdLength(msg) == Max({k \in 0 .. Len(msg) : \A i \in 1 .. k : msg[i] \in Digits})
IdOf(msg) == SubSeq(msg, 1, IdLength(msg))
WellFormed(msg) ==
    /\ IdLength(msg) > 0
    /\ IdLength(msg) < Len(msg) /\ msg[IdLength(msg) + 1] = "FS"

ParseError ==
    /\ Buffered
    /\ \/ inbuf[1] # "STX"
       \/ UptoEtx > 0 /\ (UptoEtx < MinMessage \/ ~WellFormed(Message))
    /\ verdict' = "error"
    /\ inbuf' = <<>>
    /\ UNCHANGED <<answers, flight, tstatus, response>>

(* LM_conn_parse_msg: an answer to a PENDING transaction is kept, one to    *)
(* any other id dropped; either way the message is consumed.                *)
ParseMsg ==
    /\ Buffered
    /\ inbuf[1] = "STX" /\ UptoEtx >= MinMessage /\ WellFormed(Message)
    /\ LET id   == IdOf(Message)
           data == SubSeq(Message, IdLength(Message) + 2, Len(Message))
       IN  IF id \in Ids /\ tstatus[id] = "PENDING"
           THEN /\ tstatus' = [tstatus EXCEPT ![id] = "DONE"]
                /\ response' = [response EXCEPT ![id] = ResponseTo(data)]
           ELSE UNCHANGED <<tstatus, response>>
    /\ inbuf' = SubSeq(inbuf, UptoEtx + 1, Len(inbuf))
    /\ UNCHANGED <<answers, flight, verdict>>

(* LM_trans_response_csv: the CSV parser takes the raw response over, once. *)
CsvTaken(r) == [r EXCEPT !.csv = r.raw, !.raw = NULL]

LM_trans_response_csv(id) ==
    /\ tstatus[id] = "DONE" /\ response[id].type = "CSV"
    /\ response[id].csv = NULL /\ response[id].raw # NULL
    /\ response' = [response EXCEPT ![id] = CsvTaken(@)]
    /\ UNCHANGED <<answers, flight, inbuf, verdict, tstatus>>

Init ==
    /\ answers = <<>> /\ flight = <<>> /\ inbuf = <<>> /\ verdict = "rest"
    /\ tstatus \in [Ids -> {"FREE", "PENDING"}]
    /\ response = [id \in Ids |-> NoResponse]

Next ==
    \/ \E id \in Ids, body \in Bodies : Answer(id, body)
    \/ \E n \in 1 .. Len(flight) : Receive(n)
    \/ ParseWait \/ ParseError \/ ParseMsg
    \/ \E id \in Ids : LM_trans_response_csv(id)

Spec == Init /\ [][Next]_vars

-----------------------------------------------------------------------------
(* Properties.                                                             *)

FrameOf(k) == Frame(answers[k].id, answers[k].body)
Delivered(k) == Sent(k) + Len(flight) <= Sent(Len(answers))

(* What the reader makes of a value: an empty one is NULL.                  *)
ValueOf(v) == IF v = <<>> THEN NULL ELSE Holds(v)

(* What the server meant, stated without scanning: pairs are pairs if the   *)
(* first '=' is within reach, other data is classified by its first telling *)
(* byte after the first one.  The first byte itself is only compared with   *)
(* '=' and ',', whatever the comment in the code says of newlines and of    *)
(* bytes that are not alphanumeric.                                         *)
Meaning(body) ==
    LET data == Serialize(body)
    IN  IF body.kind = "pairs" /\ Len(body.data[1].key) < ScanLimit
        THEN KeyValue(Holds([k \in {body.data[i].key : i \in DOMAIN body.data} |->
                 ValueOf(body.data[Max({i \in DOMAIN body.data : body.data[i].key = k})].value)]))
        ELSE IF body.kind = "badpairs" THEN KeyValue(NULL)
        ELSE IF body.kind = "data" /\ (SaysBy(data, ",") \/ SaysBy(data, "newline")) THEN Raw("CSV", data)
        ELSE Raw("BULK", data)

FirstAnswer(id) == Min({k \in DOMAIN answers : answers[k].id = id})

(* What the application reads is what the server meant with its first       *)
(* answer to that transaction, whatever the segmentation and whatever other *)
(* answers, orphans and duplicates surround it.                             *)
AnswersUnderstood ==
    \A id \in Ids :
        IF tstatus[id] # "DONE" THEN response[id] = NoResponse
        ELSE LET m == Meaning(answers[FirstAnswer(id)].body)
             IN  response[id] \in {m, IF m.type = "CSV" THEN CsvTaken(m) ELSE m}

(* No complete answer waits for more bytes: when the handler is done, every *)
(* transaction whose answer has arrived in full is DONE (an answer without  *)
(* data, one byte below the minimum, excepted).                             *)
NoAnswerWaits ==
    verdict = "rest" =>
        \A k \in DOMAIN answers :
            Delivered(k) /\ Len(FrameOf(k)) >= 5 => tstatus[answers[k].id] # "PENDING"

(* Well-formed answers never count as a malformed stream: an error needs an *)
(* answer without data.                                                     *)
ErrorNeedsEmptyAnswer ==
    verdict = "error" => \E k \in DOMAIN answers : Len(FrameOf(k)) < 5

=============================================================================
