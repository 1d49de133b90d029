--------------------------- MODULE RequestParser ---------------------------
(***************************************************************************)
(* What the http server makes of a request: the callbacks of                *)
(* sim_parser.cpp, which http_parser calls with pieces of the request, and  *)
(* the parameters that are taken from urls and bodies.                      *)
(*                                                                         *)
(* Text is a sequence of atoms: a delimiter, a digit, or a run of letters   *)
(* that no comparison in the code needs to cut further.  Lengths count      *)
(* atoms.  Cookies and the X-Forwarded-For header are left out.             *)
(***************************************************************************)
EXTENDS Integers, Sequences, SequencesExt, TLC, MultipartParser

NoLength == -1      \* ULLONG_MAX

(* http_parser_init.  mark and text are what is collected for a callback.  *)
NewParser ==
    [state |-> "s_start_req", header_state |-> "h_general", index |-> <<>>, flags |-> {},
     method |-> <<>>, http |-> <<0, 0>>, content_length |-> NoLength, upgrade |-> FALSE,
     errno |-> FALSE, exited |-> FALSE, mark |-> "none", text |-> <<>>]

NewRequest ==
    [_parse_part |-> "PARSE_REQ_LINE", method |-> <<>>, url |-> <<>>, params |-> <<>>,
     _header_fields |-> <<>>, _header_values |-> <<>>, _last_was_value |-> TRUE,
     _headers |-> <<>>, body |-> <<>>, form |-> <<>>, p |-> NewParser]

(* Small letters for those that are told apart from capital ones.          *)
Capitals ==
    "Content-" :> "content-" @@ "Content" :> "content" @@ "Length" :> "length" @@ "Type" :> "type"
      @@ "Connection" :> "connection" @@ "Keep-" :> "keep-" @@ "Alive" :> "alive"
      @@ "Transfer-" :> "transfer-" @@ "Encoding" :> "encoding" @@ "Chunked" :> "chunked"
      @@ "Host" :> "host" @@ "Close" :> "close"
LOWER(c) == IF c \in DOMAIN Capitals THEN Capitals[c] ELSE c
ss_str_tolower(text) == [i \in DOMAIN text |-> LOWER(text[i])]

get_header(req, name) == IF name \in DOMAIN req._headers THEN req._headers[name] ELSE <<>>

get_request_uri(req) == Split(req.url, "?")[1]
-----------------------------------------------------------------------------
(* urlDecode, for the characters that separate parameters.                 *)
Escapes == "+" :> " " @@ "%26" :> "&" @@ "%3D" :> "=" @@ "%3F" :> "?"
urlDecode(text) ==
    [i \in DOMAIN text |-> IF text[i] \in DOMAIN Escapes THEN Escapes[text[i]] ELSE text[i]]

(* A text like a=1&b=2.  What follows a second "=" is a pair of its own.   *)
Pairs(s) ==
    [i \in 1 .. (Len(s) + 1) \div 2 |->
        <<s[2 * i - 1], IF 2 * i \in DOMAIN s THEN urlDecode(s[2 * i]) ELSE <<>> >>]

parse_query_url(text) ==
    FlattenSeq([i \in DOMAIN Split(text, "&") |-> Pairs(Split(Split(text, "&")[i], "="))])

(* Only what is between the first and the second "?". *)
parse_request_url_params(url) ==
    IF "?" \in Range(url) THEN parse_query_url(Split(url, "?")[2]) ELSE <<>>

ss_on_url(req, d) == [req EXCEPT !.url = @ \o d]

(* The request line is over with the first header, and only then is the    *)
(* method taken from http_parser.                                          *)
LineOver(req) ==
    IF req._parse_part = "PARSE_REQ_LINE"
      THEN [req EXCEPT !._parse_part = "PARSE_REQ_HEAD", !.method = req.p.method,
                       !.params = parse_request_url_params(req.url)]
      ELSE req

AppendToLast(texts, d) == [texts EXCEPT ![Len(texts)] = @ \o d]

ss_on_header_field(req, d) ==
    LET r == LineOver(req)
    IN IF r._last_was_value
         THEN [r EXCEPT !._header_fields = Append(@, d), !._last_was_value = FALSE]
         ELSE [r EXCEPT !._header_fields = AppendToLast(@, d)]

ss_on_header_value(req, d) ==
    [req EXCEPT !._header_values = IF req._last_was_value THEN AppendToLast(@, d)
                                                           ELSE Append(@, d),
                !._last_was_value = TRUE]

(* add_header: of two headers with one name the later one counts. *)
Headers(fields, values) ==
    LET names == [i \in DOMAIN fields |-> ss_str_tolower(fields[i])]
    IN [name \in Range(names) |->
          values[CHOOSE i \in DOMAIN names :
                    names[i] = name /\ \A j \in i + 1 .. Len(names) : names[j] # name]]

(* A callback that fails stops http_parser, so that parse_request returns  *)
(* -1 before it gets to look at _parse_err (PARSE_LEN_REQUIRED, 411), or a  *)
(* _parse_err that is negative, too.                                       *)
SET_ERRNO(p) == [p EXCEPT !.errno = TRUE]
Error(req) == [req EXCEPT !.p = SET_ERRNO(@)]

(* Mutant of ss_on_headers_complete: a POST need not say how long it is. *)
AnyPost(req) ==
    [req EXCEPT !._headers = Headers(req._header_fields, req._header_values),
                !._parse_part = "PARSE_REQ_HEAD_OVER"]

LengthChecked(req) ==
    IF req.method = <<"POST">> /\ get_header(req, <<"content-", "length">>) = <<>>
      THEN Error(req) ELSE req

ss_on_headers_complete(req) ==
    IF Len(req._header_fields) # Len(req._header_values) THEN Error(req)
    ELSE LengthChecked(
           [req EXCEPT !._headers = Headers(req._header_fields, req._header_values),
                       !._parse_part = "PARSE_REQ_HEAD_OVER"])

ss_on_body(req, d) == [req EXCEPT !.body = @ \o d, !._parse_part = "PARSE_REQ_BODY"]

(* An object of plain values; arrays, which are joined to one value, and    *)
(* objects, which are skipped, are left out.                               *)
NotJson == "not json"
JsonMember(text) == <<Split(text, ":")[1], Split(text, ":")[2]>>

parse_json_params(body) ==
    LET members == SubSeq(body, 2, Len(body) - 1)
    IN IF members = <<>> THEN <<>>
       ELSE [i \in DOMAIN Split(members, ",") |-> JsonMember(Split(members, ",")[i])]

(* "Content-Type: multipart/form-data; boundary=B".  Anything else is no    *)
(* error, but leaves the parts unread.                                     *)
WithForm(req, m) == IF m.failed THEN Error(req) ELSE [req EXCEPT !.form = m.params]

PartsBetween(req, boundary) ==
    IF Len(boundary) # 2 THEN req
    ELSE WithForm(req, multipart_parser_execute(<<"-", "-">> \o boundary[2], req.body))

PartsOf(req, ct) ==
    IF req.body = <<>> \/ Len(ct) # 2 THEN req ELSE PartsBetween(req, Tokens(ct[2], "="))

ss_parse_multipart_data(req) ==
    PartsOf(req, Tokens(get_header(req, <<"content-", "type">>), ";"))

ss_on_message_complete(req) ==
    LET kind == Range(get_header(req, <<"content-", "type">>))
        r == [req EXCEPT !._parse_part = "PARSE_REQ_OVER"]
    IN IF "application/x-www-form-urlencoded" \in kind
         THEN [r EXCEPT !.form = IF r.body = <<>> THEN @ ELSE parse_query_url(r.body)]
       ELSE IF "application/json" \in kind
         THEN IF NotJson \in Range(r.body) THEN Error(r)
              ELSE [r EXCEPT !.form = parse_json_params(r.body)]
       ELSE IF "multipart/form-data" \in kind THEN ss_parse_multipart_data(r)
       ELSE r

(* What parse_request returns after http_parser_execute. *)
ParseResult(req) ==
    IF req.p.errno THEN "READ_CLOSE"
    ELSE IF req._parse_part = "PARSE_REQ_OVER" THEN "READ_OVER" ELSE "READ_CONTINUE"

(* Compared without regard to case (strcasecmp). *)
HeaderIs(req, name, value) == ss_str_tolower(get_header(req, name)) = value
=============================================================================
