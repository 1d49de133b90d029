---------------------------- MODULE PeerRequests ----------------------------
(***************************************************************************)
(* What peers of the http server send: a request as it is meant, and the    *)
(* text it is put into on the way.  The peers are the clients and the       *)
(* administrator, which send with libcurl, and any other http client.       *)
(***************************************************************************)
EXTENDS HttpParser

CONSTANT
    Requests    \* what peers may ask for: records with a text on their way (Wire)

CRLF == <<CR, LF>>

(* Separators within values are escaped. *)
Escape(c) == IF \E e \in DOMAIN Escapes : Escapes[e] = c
               THEN CHOOSE e \in DOMAIN Escapes : Escapes[e] = c ELSE c
urlEncode(text) == [i \in DOMAIN text |-> Escape(text[i])]

Query(params) ==
    FlattenSeq([i \in DOMAIN params |->
        (IF i = 1 THEN <<>> ELSE <<"&">>) \o params[i][1] \o <<"=">> \o urlEncode(params[i][2])])

Url(r) == r.path \o (IF r.params = <<>> THEN <<>> ELSE <<"?">> \o Query(r.params))

HeaderLine(r, h) == h[1] \o <<":", " ">> \o h[2] \o r.eol

Part(boundary, pair) ==
    <<"-", "-">> \o boundary \o CRLF
      \o <<"Content-Disposition", ":", " ", "form-data", ";", " ", "name", "=", Quote>>
      \o pair[1] \o <<Quote>> \o CRLF \o CRLF \o pair[2] \o CRLF

Multipart(boundary, form) ==
    FlattenSeq([i \in DOMAIN form |-> Part(boundary, form[i])])
      \o <<"-", "-">> \o boundary \o <<"-", "-">> \o CRLF

ChunkOf(data) == <<ToString(Len(data))>> \o CRLF \o data \o CRLF

Json(params) ==
    <<"{">> \o FlattenSeq([i \in DOMAIN params |->
        (IF i = 1 THEN <<>> ELSE <<",">>) \o params[i][1] \o <<":">> \o params[i][2]]) \o <<"}">>

(* r.how says how the body is sent; r.headers has the headers that go with *)
(* it but for the length.                                                  *)
Body(r) ==
    CASE r.how = "form"      -> Query(r.form)
      [] r.how = "json"      -> Json(r.form)
      [] r.how = "multipart" -> Multipart(r.boundary, r.form)
      [] OTHER               -> r.body

(* Two digits at most. *)
Decimal(n) == IF n < 10 THEN <<ToString(n)>> ELSE <<ToString(n \div 10), ToString(n % 10)>>

LengthLine(r) ==
    IF r.method # <<"POST">> \/ r.how = "no length" THEN <<>>
    ELSE HeaderLine(r, << <<"Content-", "Length">>, Decimal(Len(Body(r))) >>)

Payload(r) ==
    CASE r.how # "chunked" -> Body(r)
      [] OTHER -> FlattenSeq([i \in DOMAIN r.body |-> ChunkOf(<<r.body[i]>>)])
                    \o <<"0">> \o CRLF \o r.trailer \o CRLF

Wire(r) ==
    r.method \o <<" ">> \o Url(r) \o <<" ", "HTTP/", "1", ".", "1">> \o r.eol
      \o FlattenSeq([i \in DOMAIN r.headers |-> HeaderLine(r, r.headers[i])])
      \o LengthLine(r) \o r.eol \o Payload(r)

(* What a handler should see, but for the length. *)
LengthName == <<"content-", "length">>
Unfolded(value) == SelectSeq(value, LAMBDA c : c \notin {CR, LF})

Meaning(r) ==
    [method |-> r.method, uri |-> r.path, params |-> r.params,
     headers |-> {<<ss_str_tolower(r.headers[i][1]), Unfolded(r.headers[i][2])>> :
                    i \in {j \in DOMAIN r.headers : ss_str_tolower(r.headers[j][1]) # LengthName}},
     body |-> Body(r), form |-> r.form]

Seen(req) ==
    [method |-> req.method, uri |-> get_request_uri(req), params |-> req.params,
     headers |-> {<<name, req._headers[name]>> :
                    name \in DOMAIN req._headers \ {LengthName}},
     body |-> req.body, form |-> req.form]

ASSUME WireAssumption == \A r \in Requests : Wire(r) \in Seq(STRING)
=============================================================================
