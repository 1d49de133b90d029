----------------------------- MODULE HttpParser -----------------------------
(***************************************************************************)
(* http_parser.c as the server uses it, for requests: a request comes in    *)
(* pieces that are cut anywhere, and the parser keeps its state between     *)
(* them.  Data for a callback is collected from a mark on; what is collected *)
(* at the end of a piece is delivered, and the next piece sets the mark     *)
(* again, so that a callback sees a url or a header in parts.              *)
(*                                                                         *)
(* The limit on the size of the headers (80 KB) and the overflow test of    *)
(* lengths are left out.                                                   *)
(***************************************************************************)
EXTENDS RequestParser

Go(req, s) == [req EXCEPT !.p.state = s]
Expect(req, ok, s) == IF ok THEN Go(req, s) ELSE Error(req)

(* MARK, and the character it is set at. *)
MARK(req, what, c) == [req EXCEPT !.p.mark = what, !.p.text = <<c>>]
Collect(req, c) ==
    IF req.p.mark = "none" THEN req ELSE [req EXCEPT !.p.text = Append(@, c)]

(* The callbacks.  The parser stops if one fails, and looks at nothing else *)
(* they do.                                                                *)
Callback(req, what, d) ==
    IF req.p.errno THEN req ELSE
    CASE what = "url"               -> ss_on_url(req, d)
      [] what = "header_field"      -> ss_on_header_field(req, d)
      [] what = "header_value"      -> ss_on_header_value(req, d)
      [] what = "headers_complete"  -> ss_on_headers_complete(req)
      [] what = "body"              -> ss_on_body(req, d)
      [] what = "message_complete"  -> ss_on_message_complete(req)
      [] OTHER                      -> req

CALLBACK_NOTIFY(req, what) == Callback(req, what, <<>>)
CALLBACK_DATA(req) ==
    Callback([req EXCEPT !.p.mark = "none", !.p.text = <<>>], req.p.mark, req.p.text)
-----------------------------------------------------------------------------
(* The request line. *)

UrlStart == "s_req_spaces_before_url"
Methods == {<<"GET">>, <<"POST">>, <<"PUT">>, <<"HEAD">>, <<"CONNECT">>, <<"OP", "TIONS">>}

s_start_req(req, c) ==
    CASE c \in {CR, LF} -> req
      [] \E m \in Methods : m[1] = c ->
           [req EXCEPT !.p.flags = {}, !.p.content_length = NoLength, !.p.index = <<c>>,
                       !.p.state = "s_req_method"]
      [] OTHER -> Error(req)

s_req_method(req, c) ==
    LET longer == Append(req.p.index, c)
    IN IF c = " "
         THEN Expect([req EXCEPT !.p.method = req.p.index], req.p.index \in Methods, UrlStart)
         ELSE IF \E m \in Methods : IsPrefix(longer, m) THEN [req EXCEPT !.p.index = longer]
         ELSE Error(req)

UrlStates ==
    {"s_req_schema", "s_req_schema_slash", "s_req_schema_slash_slash", "s_req_server_start",
     "s_req_server", "s_req_server_with_at", "s_req_path", "s_req_query_string_start",
     "s_req_query_string", "s_req_fragment_start", "s_req_fragment"}
UrlMayEnd == UrlStates \ {"s_req_schema", "s_req_schema_slash", "s_req_schema_slash_slash",
                          "s_req_server_start"}
NoUrlChar == {" ", CR, LF, "?", "#"}
Word(c) == c \notin NoUrlChar \cup {"/", "*", ":", "@", "&", "=", "-", ".", "%"}

parse_url_char(s, c) ==
    LET server == s \in {"s_req_server_start", "s_req_server", "s_req_server_with_at"}
        query == s \in {"s_req_query_string_start", "s_req_query_string"}
        fragment == s \in {"s_req_fragment_start", "s_req_fragment"}
    IN CASE s = UrlStart /\ c \in {"/", "*"}                    -> "s_req_path"
         [] s \in {UrlStart, "s_req_schema"} /\ Word(c)         -> "s_req_schema"
         [] s = "s_req_schema" /\ c = ":"                       -> "s_req_schema_slash"
         [] s = "s_req_schema_slash" /\ c = "/"                 -> "s_req_schema_slash_slash"
         [] s = "s_req_schema_slash_slash" /\ c = "/"           -> "s_req_server_start"
         [] server /\ c = "@" /\ s # "s_req_server_with_at"     -> "s_req_server_with_at"
         [] server /\ c = "/"                                   -> "s_req_path"
         [] server /\ c = "?"                                   -> "s_req_query_string_start"
         [] server /\ c \notin NoUrlChar \cup {"@", "/"}        -> "s_req_server"
         [] s = "s_req_path" /\ c \notin NoUrlChar              -> s
         [] s = "s_req_path" /\ c = "?"                         -> "s_req_query_string_start"
         [] query /\ c \notin NoUrlChar \ {"?"}                 -> "s_req_query_string"
         [] (s = "s_req_path" \/ query) /\ c = "#"              -> "s_req_fragment_start"
         [] fragment /\ c \notin NoUrlChar \ {"?"}              -> "s_req_fragment"
         [] fragment /\ c = "#"                                 -> s
         [] OTHER                                               -> "s_dead"

UrlChar(req, s, c) ==
    LET next == parse_url_char(s, c) IN Expect(req, next # "s_dead", next)

s_req_spaces_before_url(req, c) ==
    LET s == IF req.p.method = <<"CONNECT">> THEN "s_req_server_start" ELSE UrlStart
    IN IF c = " " THEN req ELSE UrlChar(MARK(req, "url", c), s, c)

(* A line that ends after the url is one of HTTP/0.9. *)
UrlState(req, c) ==
    IF c \notin {" ", CR, LF} THEN UrlChar(Collect(req, c), req.p.state, c) ELSE
    IF req.p.state \notin UrlMayEnd THEN Error(req) ELSE
    IF c = " " THEN CALLBACK_DATA(Go(req, "s_req_http_start"))
               ELSE CALLBACK_DATA(Go([req EXCEPT !.p.http = <<0, 9>>],
                        IF c = CR THEN "s_req_line_almost_done" ELSE "s_header_field_start"))

Digits == [d \in {"0", "1", "2", "3", "4", "5", "6", "7", "8", "9"} |->
             CHOOSE n \in 0 .. 9 : ToString(n) = d]
Hex == Digits @@ "a" :> 10 @@ "b" :> 11 @@ "c" :> 12 @@ "d" :> 13 @@ "e" :> 14 @@ "f" :> 15

HttpVersion(req, c) ==
    CASE req.p.state = "s_req_http_start" ->
           IF c = " " THEN req ELSE Expect(req, c = "HTTP/", "s_req_http_major")
      [] req.p.state = "s_req_http_major" ->
           IF c \in DOMAIN Digits THEN Go([req EXCEPT !.p.http[1] = Digits[c]], "s_req_http_dot")
                                  ELSE Error(req)
      [] req.p.state = "s_req_http_dot" -> Expect(req, c = ".", "s_req_http_minor")
      [] req.p.state = "s_req_http_minor" ->
           IF c \in DOMAIN Digits THEN Go([req EXCEPT !.p.http[2] = Digits[c]], "s_req_http_end")
                                  ELSE Error(req)
      [] req.p.state = "s_req_http_end" ->
           IF c = CR THEN Go(req, "s_req_line_almost_done")
                     ELSE Expect(req, c = LF, "s_header_field_start")
-----------------------------------------------------------------------------
(* The end of a message. *)

http_should_keep_alive(p) ==
    IF p.http[1] > 0 /\ p.http[2] > 0 THEN "F_CONNECTION_CLOSE" \notin p.flags
                                       ELSE "F_CONNECTION_KEEP_ALIVE" \in p.flags

NEW_MESSAGE(req) ==
    CALLBACK_NOTIFY(Go(req, IF http_should_keep_alive(req.p) THEN "s_start_req" ELSE "s_dead"),
                    "message_complete")

(* After an upgrade the rest of the piece is not the parser's. *)
s_message_done(req) == [NEW_MESSAGE(req) EXCEPT !.p.exited = req.p.upgrade]

s_headers_done(req) ==
    LET chunked == "F_CHUNKED" \in req.p.flags
        hasBody == chunked \/ req.p.content_length > 0
    IN IF req.p.upgrade /\ (req.p.method = <<"CONNECT">> \/ ~hasBody) THEN s_message_done(req)
       ELSE IF hasBody THEN Go(req, IF chunked THEN "s_chunk_size_start" ELSE "s_body_identity")
       ELSE NEW_MESSAGE(req)

s_headers_almost_done(req, c) ==
    LET flags == req.p.flags
        upgraded == [req EXCEPT !.p.upgrade =
                        \/ {"F_UPGRADE", "F_CONNECTION_UPGRADE"} \subseteq flags
                        \/ req.p.method = <<"CONNECT">>]
    IN IF c # LF THEN Error(req)
       ELSE IF "F_TRAILING" \in flags THEN s_message_done(req)
       ELSE IF {"F_CHUNKED", "F_CONTENTLENGTH"} \subseteq flags THEN Error(req)
       ELSE s_headers_done(CALLBACK_NOTIFY(upgraded, "headers_complete"))
-----------------------------------------------------------------------------
(* Headers. *)

NoToken == {" ", CR, LF, ":", "=", ";", ",", "/", "?", Quote}

(* The headers http_parser looks for, and the state of one that was found. *)
KnownHeaders ==
    <<"connection">> :> "h_connection"
      @@ <<"proxy-", "connection">> :> "h_connection"
      @@ <<"content-", "length">> :> "h_content_length"
      @@ <<"transfer-", "encoding">> :> "h_transfer_encoding"
      @@ <<"upgrade">> :> "h_upgrade"

MatchField(p, c) ==
    LET longer == Append(p.index, LOWER(c))
        begins == \E k \in DOMAIN KnownHeaders : IsPrefix(longer, k)
    IN IF p.header_state # "h_matching" \/ ~begins THEN [p EXCEPT !.header_state = "h_general"]
       ELSE [p EXCEPT !.index = longer,
                      !.header_state = IF longer \in DOMAIN KnownHeaders THEN KnownHeaders[longer]
                                                                          ELSE @]

s_header_field_start(req, c) ==
    LET p == MatchField([req.p EXCEPT !.index = <<>>, !.header_state = "h_matching"], c)
    IN CASE c = CR -> Go(req, "s_headers_almost_done")
         [] c = LF -> s_headers_almost_done(req, c)
         [] c \in NoToken \ {CR, LF} -> Error(req)
         [] OTHER -> Go(MARK([req EXCEPT !.p = p], "header_field", c), "s_header_field")

s_header_field(req, c) ==
    CASE c \notin NoToken -> Collect([req EXCEPT !.p = MatchField(req.p, c)], c)
      [] c = ":"          -> CALLBACK_DATA(Go(req, "s_header_value_discard_ws"))
      [] OTHER            -> Error(req)

(* What the values of Connection are compared with.                        *)
ConnectionTokens ==
    <<"keep-", "alive">> :> "F_CONNECTION_KEEP_ALIVE"
      @@ <<"close">> :> "F_CONNECTION_CLOSE"
      @@ <<"upgrade">> :> "F_CONNECTION_UPGRADE"

MatchToken(p, c) ==
    LET longer == Append(p.index, LOWER(c))
    IN IF \E k \in DOMAIN ConnectionTokens : IsPrefix(longer, k)
         THEN [p EXCEPT !.index = longer, !.header_state = "h_matching_connection"]
         ELSE [p EXCEPT !.header_state = "h_matching_connection_token"]

(* The flag a value that ends here has earned. *)
FlagsOf(p) ==
    CASE p.header_state = "h_matching_connection" /\ p.index \in DOMAIN ConnectionTokens ->
           {ConnectionTokens[p.index]}
      [] p.header_state = "h_transfer_encoding_chunked" -> {"F_CHUNKED"}
      [] OTHER -> {}

WithFlags(p) == [p EXCEPT !.flags = @ \cup FlagsOf(p)]

Number(p, c, base, digits) ==
    IF c \in DOMAIN digits THEN [p EXCEPT !.content_length = base * @ + digits[c]]
                           ELSE SET_ERRNO(p)

(* The first character of a value, or of a line it is folded into. *)
ValueStarts(was, c) ==
    LET p == [was EXCEPT !.index = <<>>]
        set == [p EXCEPT !.header_state = "h_general"]
    IN CASE p.header_state = "h_upgrade" -> [set EXCEPT !.flags = @ \cup {"F_UPGRADE"}]
         [] p.header_state = "h_transfer_encoding" /\ LOWER(c) = "chunked" ->
              [p EXCEPT !.header_state = "h_transfer_encoding_chunked"]
         [] p.header_state = "h_content_length" ->
              IF "F_CONTENTLENGTH" \in p.flags THEN SET_ERRNO(p)
              ELSE Number([p EXCEPT !.flags = @ \cup {"F_CONTENTLENGTH"},
                                    !.header_state = "h_content_length_num",
                                    !.content_length = 0], c, 10, Digits)
         [] p.header_state = "h_connection" -> MatchToken(p, c)
         [] p.header_state \in {"h_content_length_ws", "h_matching_connection_token_start"} -> p
         [] OTHER -> set

s_header_value_start(req, c) ==
    LET r == [req EXCEPT !.p = ValueStarts(@, c)]
    IN IF r.p.errno THEN r ELSE Go(MARK(r, "header_value", c), "s_header_value")

NextToken(p) == [p EXCEPT !.header_state = "h_matching_connection_token_start", !.index = <<>>]

(* One more character of a value. *)
MatchValue(p, c) ==
    LET to(h) == [p EXCEPT !.header_state = h]
        complete == p.index \in DOMAIN ConnectionTokens
    IN CASE p.header_state = "h_content_length_num" ->
              IF c = " " THEN to("h_content_length_ws") ELSE Number(p, c, 10, Digits)
         [] p.header_state = "h_content_length_ws" -> IF c = " " THEN p ELSE SET_ERRNO(p)
         [] p.header_state = "h_transfer_encoding_chunked" ->
              IF c = " " THEN p ELSE to("h_general")
         [] p.header_state = "h_matching_connection_token_start" ->
              IF c = " " THEN p ELSE IF c \in NoToken THEN to("h_general") ELSE MatchToken(p, c)
         [] p.header_state = "h_matching_connection" /\ ~complete -> MatchToken(p, c)
         [] p.header_state = "h_matching_connection" /\ complete ->
              CASE c = "," -> NextToken(WithFlags(p))
                [] c = " " -> p
                [] OTHER   -> to("h_matching_connection_token")
         [] p.header_state = "h_matching_connection_token" ->
              IF c = "," THEN NextToken(p) ELSE p
         [] OTHER -> p

s_header_value(req, c) ==
    CASE c = CR -> CALLBACK_DATA(Go(req, "s_header_almost_done"))
      [] c = LF -> CALLBACK_DATA(Go(req, "s_header_value_lws"))
      [] OTHER  -> Collect([req EXCEPT !.p = MatchValue(@, c)], c)

(* A line that begins with a space goes on with the value before it.       *)
s_header_value_lws(req, c) ==
    IF c = " "
      THEN s_header_value_start(
             IF req.p.header_state = "h_content_length_num"
               THEN [req EXCEPT !.p.header_state = "h_content_length_ws"] ELSE req, c)
      ELSE s_header_field_start([req EXCEPT !.p = WithFlags(@)], c)

s_header_value_discard_ws(req, c) ==
    CASE c = " " -> req
      [] c = CR  -> Go(req, "s_header_value_discard_ws_almost_done")
      [] c = LF  -> Go(req, "s_header_value_discard_lws")
      [] OTHER   -> s_header_value_start(req, c)

(* An empty value is reported, too. *)
s_header_value_discard_lws(req, c) ==
    IF c = " " THEN Go(req, "s_header_value_discard_ws")
    ELSE IF req.p.header_state = "h_content_length" THEN Error(req)
    ELSE s_header_field_start(CALLBACK_NOTIFY([req EXCEPT !.p = WithFlags(@)], "header_value"), c)

Header(req, c) ==
    CASE req.p.state = "s_header_field_start"      -> s_header_field_start(req, c)
      [] req.p.state = "s_header_field"            -> s_header_field(req, c)
      [] req.p.state = "s_header_value_discard_ws" -> s_header_value_discard_ws(req, c)
      [] req.p.state = "s_header_value_discard_ws_almost_done" ->
           Expect(req, c = LF, "s_header_value_discard_lws")
      [] req.p.state = "s_header_value_discard_lws" -> s_header_value_discard_lws(req, c)
      [] req.p.state = "s_header_value"            -> s_header_value(req, c)
      [] req.p.state = "s_header_almost_done"      -> Expect(req, c = LF, "s_header_value_lws")
      [] req.p.state = "s_header_value_lws"        -> s_header_value_lws(req, c)
      [] req.p.state = "s_headers_almost_done"     -> s_headers_almost_done(req, c)
-----------------------------------------------------------------------------
(* The body. *)

(* One character of a body whose length is known. *)
BodyChar(req, c) ==
    [(IF req.p.mark = "body" THEN Collect(req, c) ELSE MARK(req, "body", c))
        EXCEPT !.p.content_length = @ - 1]

s_body_identity(req, c) ==
    LET r == BodyChar(req, c)
    IN IF r.p.content_length = 0 THEN s_message_done(CALLBACK_DATA(r)) ELSE r

s_chunk_size_almost_done(req) ==
    IF req.p.content_length = 0
      THEN Go([req EXCEPT !.p.flags = @ \cup {"F_TRAILING"}], "s_header_field_start")
      ELSE Go(req, "s_chunk_data")

s_chunk_data(req, c) ==
    LET r == BodyChar(req, c)
    IN IF r.p.content_length = 0 THEN Go(r, "s_chunk_data_almost_done") ELSE r

Size(req, c) == [req EXCEPT !.p = Number(@, c, 16, Hex)]

Chunk(req, c) ==
    CASE req.p.state = "s_chunk_size_start" ->
           Size(Go([req EXCEPT !.p.content_length = 0], "s_chunk_size"), c)
      [] req.p.state = "s_chunk_size" ->
           CASE c = CR          -> Go(req, "s_chunk_size_almost_done")
             [] c \in {";", " "} -> Go(req, "s_chunk_parameters")
             [] OTHER           -> Size(req, c)
      [] req.p.state = "s_chunk_parameters" ->
           IF c = CR THEN Go(req, "s_chunk_size_almost_done") ELSE req
      [] req.p.state = "s_chunk_size_almost_done" ->
           IF c = LF THEN s_chunk_size_almost_done(req) ELSE Error(req)
      [] req.p.state = "s_chunk_data" -> s_chunk_data(req, c)
      [] req.p.state = "s_chunk_data_almost_done" ->
           IF c = CR THEN CALLBACK_DATA(Go(req, "s_chunk_data_done")) ELSE Error(req)
      [] req.p.state = "s_chunk_data_done" -> Expect(req, c = LF, "s_chunk_size_start")
-----------------------------------------------------------------------------
VersionStates == {"s_req_http_start", "s_req_http_major", "s_req_http_dot", "s_req_http_minor",
                  "s_req_http_end"}
ChunkStates == {"s_chunk_size_start", "s_chunk_size", "s_chunk_parameters",
                "s_chunk_size_almost_done", "s_chunk_data", "s_chunk_data_almost_done",
                "s_chunk_data_done"}

Reads(req, c) ==
    LET s == req.p.state
    IN CASE s = "s_dead"        -> IF c \in {CR, LF} THEN req ELSE Error(req)
         [] s = "s_start_req"   -> s_start_req(req, c)
         [] s = "s_req_method"  -> s_req_method(req, c)
         [] s = UrlStart        -> s_req_spaces_before_url(req, c)
         [] s \in UrlStates     -> UrlState(req, c)
         [] s \in VersionStates -> HttpVersion(req, c)
         [] s = "s_req_line_almost_done" -> Expect(req, c = LF, "s_header_field_start")
         [] s = "s_body_identity" -> s_body_identity(req, c)
         [] s \in ChunkStates   -> Chunk(req, c)
         [] OTHER               -> Header(req, c)

Char(req, c) ==
    IF req.p.errno THEN req ELSE IF req.p.exited THEN Error(req) ELSE Reads(req, c)

(* Mutant of MarkAt: a value is marked only where it begins. *)
MarkOnlyField(s) == IF s = "s_header_field" THEN "header_field" ELSE "none"

(* The mark a piece begins with. *)
MarkAt(s) ==
    CASE s = "s_header_field" -> "header_field"
      [] s = "s_header_value" -> "header_value"
      [] s \in UrlStates      -> "url"
      [] OTHER                -> "none"

Starts(req) ==
    [req EXCEPT !.p.mark = MarkAt(req.p.state), !.p.text = <<>>, !.p.exited = FALSE]

http_parser_execute(req, piece) ==
    LET after[n \in 0 .. Len(piece)] ==
            IF n = 0 THEN Starts(req) ELSE Char(after[n - 1], piece[n])
    IN CALLBACK_DATA(after[Len(piece)])
=============================================================================
