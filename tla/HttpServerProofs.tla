--------------------------- MODULE HttpServerProofs ---------------------------
(***************************************************************************)
(* Theorems about the http server, its parser and the pool of threads it   *)
(* rests on.  For any text and any cuts the parser makes of a request what   *)
(* it makes of it in one piece.  For any number of threads, connections and *)
(* requests no wakeup of the pool is lost, a connection always has one      *)
(* holder, and a stop abandons nobody who was there before it, whatever the *)
(* parser does; and the server keeps HttpExchange if the parser reads        *)
(* requests in one piece as they are meant.                                *)
(***************************************************************************)
EXTENDS HttpServer, RequestInPieces, FiniteSetTheorems, SequenceTheorems,
        WellFoundedInduction, TLAPS

(* The parser: a text that is cut is read as if it were not. *)

(* Requests and parsers are records of these fields; no handler adds one.  *)
RequestFields ==
    {"_parse_part", "method", "url", "params", "_header_fields", "_header_values",
     "_last_was_value", "_headers", "body", "form", "p"}
ParserFields ==
    {"state", "header_state", "index", "flags", "method", "http", "content_length", "upgrade",
     "errno", "exited", "mark", "text"}

Parser(p) == p = [x \in ParserFields |-> p[x]]
Shaped(req) == req = [x \in RequestFields |-> req[x]] /\ Parser(req.p)

(* The text that callbacks get and collect, of characters A, and what decides *)
(* whether the parser goes on. *)
Typed(A, req) ==
    /\ req.p.upgrade \in BOOLEAN /\ req.p.exited \in BOOLEAN
    /\ req.p.text \in Seq(A) /\ req.url \in Seq(A) /\ req.body \in Seq(A)
    /\ req._header_fields \in Seq(Seq(A)) /\ req._header_values \in Seq(Seq(A))

DataKinds == {"none", "url", "header_field", "header_value", "body"}

LEMMA FunctionIsSeq ==
    ASSUME NEW S, NEW n \in Nat, NEW f \in [1 .. n -> S]
    PROVE  f \in Seq(S)
BY SeqDef

LEMMA AppendToLastType ==
    ASSUME NEW A, NEW texts \in Seq(Seq(A)), NEW d \in Seq(A)
    PROVE  AppendToLast(texts, d) \in Seq(Seq(A))
<1>1. Len(texts) \in Nat /\ DOMAIN texts = 1 .. Len(texts) /\ texts \in [1 .. Len(texts) -> Seq(A)]
  BY LenProperties
<1>2. \A i \in 1 .. Len(texts) : texts[i] \o d \in Seq(A)
  BY <1>1, ConcatProperties
<1>3. AppendToLast(texts, d) \in [1 .. Len(texts) -> Seq(A)]
  BY <1>1, <1>2 DEF AppendToLast
<1>. QED
  BY <1>1, <1>3, FunctionIsSeq

LEMMA AppendToLastTwice ==
    ASSUME NEW A, NEW texts \in Seq(Seq(A)), NEW d \in Seq(A), NEW e \in Seq(A)
    PROVE  AppendToLast(AppendToLast(texts, d), e) = AppendToLast(texts, d \o e)
<1>1. Len(texts) \in Nat /\ DOMAIN texts = 1 .. Len(texts) /\ texts \in [1 .. Len(texts) -> Seq(A)]
  BY LenProperties
<1>2. PICK t : t = AppendToLast(texts, d)
  OBVIOUS
<1>3. Len(t) = Len(texts)
  <2>1. t \in Seq(Seq(A)) /\ DOMAIN t = DOMAIN texts
    BY <1>2, AppendToLastType DEF AppendToLast
  <2>. QED
    BY <1>1, <2>1, LenProperties
<1>4. \A s \in Seq(A) : (s \o d) \o e = s \o (d \o e)
  BY ConcatAssociative, SMTT(30)
<1>5. [t EXCEPT ![Len(texts)] = @ \o e] = [texts EXCEPT ![Len(texts)] = @ \o (d \o e)]
  BY <1>1, <1>2, <1>4 DEF AppendToLast
<1>. QED
  BY <1>2, <1>3, <1>5 DEF AppendToLast

LEMMA AppendThenAppendToLast ==
    ASSUME NEW A, NEW texts \in Seq(Seq(A)), NEW d \in Seq(A), NEW e \in Seq(A)
    PROVE  AppendToLast(Append(texts, d), e) = Append(texts, d \o e)
<1>1. d \o e \in Seq(A)
  BY ConcatProperties
<1>2. PICK t : t = Append(texts, d)
  OBVIOUS
<1>3. /\ t \in Seq(Seq(A)) /\ Len(t) = Len(texts) + 1 /\ t[Len(texts) + 1] = d
      /\ \A i \in 1 .. Len(texts) : t[i] = texts[i]
  BY <1>2, AppendProperties
<1>4. PICK u : u = [t EXCEPT ![Len(texts) + 1] = d \o e]
  OBVIOUS
<1>5. Len(texts) \in Nat
  BY LenProperties
<1>6. /\ u \in Seq(Seq(A)) /\ Len(u) = Len(texts) + 1
      /\ \A i \in 1 .. Len(t) : u[i] = IF i = Len(texts) + 1 THEN d \o e ELSE t[i]
  BY <1>1, <1>3, <1>4, <1>5, ExceptSeq
<1>7. PICK x : x = Append(texts, d \o e)
  OBVIOUS
<1>8. /\ x \in Seq(Seq(A)) /\ Len(x) = Len(texts) + 1 /\ x[Len(texts) + 1] = d \o e
      /\ \A i \in 1 .. Len(texts) : x[i] = texts[i]
  BY <1>1, <1>7, AppendProperties
<1>9. ASSUME NEW i \in 1 .. Len(u) PROVE u[i] = x[i]
  <2>1. CASE i = Len(texts) + 1
    BY <1>3, <1>5, <1>6, <1>8, <2>1
  <2>2. CASE i # Len(texts) + 1
    <3>1. i \in 1 .. Len(texts) /\ i \in 1 .. Len(t)
      BY <1>3, <1>5, <1>6, <2>2
    <3>. QED
      BY <1>3, <1>6, <1>8, <2>2, <3>1
  <2>. QED
    BY <2>1, <2>2
<1>10. u = x
  BY <1>6, <1>8, <1>9, SeqEqual
<1>11. AppendToLast(t, e) = [t EXCEPT ![Len(t)] = t[Len(t)] \o e]
  BY DEF AppendToLast
<1>. QED
  BY <1>2, <1>3, <1>4, <1>7, <1>10, <1>11

(* A data callback only looks at the method of the parser, *)
(* and takes what it is given in one part or in two. *)
LEMMA CallbackTyped ==
    ASSUME NEW A, NEW req, Shaped(req), Typed(A, req), NEW d \in Seq(A), NEW w \in DataKinds
    PROVE  /\ Shaped(Callback(req, w, d)) /\ Typed(A, Callback(req, w, d))
           /\ Callback(req, w, d).p = req.p
<1>1. CASE req.p.errno
  <2>1. Callback(req, w, d) = req
    BY <1>1 DEF Callback
  <2>. QED
    BY <2>1
<1>2. CASE ~ req.p.errno /\ w = "none"
  <2>1. Callback(req, w, d) = req
    BY <1>2 DEF Callback
  <2>. QED
    BY <2>1
<1>3. CASE ~ req.p.errno /\ w = "url"
  <2>1. PICK v \in Seq(A) : v = req.url \o d
    BY ConcatProperties DEF Typed
  <2>2. Callback(req, w, d) = [req EXCEPT !.url = v]
    BY <1>3, <2>1 DEF Callback, ss_on_url
  <2>. QED
    BY <2>2 DEF Shaped, Typed, RequestFields
<1>4. CASE ~ req.p.errno /\ w = "body"
  <2>1. PICK v \in Seq(A) : v = req.body \o d
    BY ConcatProperties DEF Typed
  <2>2. Callback(req, w, d) = [req EXCEPT !.body = v, !._parse_part = "PARSE_REQ_BODY"]
    BY <1>4, <2>1 DEF Callback, ss_on_body
  <2>. QED
    BY <2>2 DEF Shaped, Typed, RequestFields
<1>5. CASE ~ req.p.errno /\ w = "header_value"
  <2>1. PICK v \in Seq(Seq(A)) :
           v = IF req._last_was_value THEN AppendToLast(req._header_values, d)
                                      ELSE Append(req._header_values, d)
    BY AppendToLastType, AppendProperties DEF Typed
  <2>2. Callback(req, w, d) = [req EXCEPT !._header_values = v, !._last_was_value = TRUE]
    BY <1>5, <2>1 DEF Callback, ss_on_header_value
  <2>. QED
    BY <2>2 DEF Shaped, Typed, RequestFields
<1>6. CASE ~ req.p.errno /\ w = "header_field"
  <2>1. PICK l : l = LineOver(req)
    OBVIOUS
  <2>2. Shaped(l) /\ Typed(A, l) /\ l.p = req.p
    BY <2>1 DEF LineOver, Shaped, Typed, RequestFields
  <2>3. PICK v \in Seq(Seq(A)) :
           v = IF l._last_was_value THEN Append(l._header_fields, d)
                                    ELSE AppendToLast(l._header_fields, d)
    BY <2>2, AppendToLastType, AppendProperties DEF Typed
  <2>4. Callback(req, w, d) = [l EXCEPT !._header_fields = v,
                                 !._last_was_value = IF l._last_was_value THEN FALSE ELSE @]
    BY <1>6, <2>1, <2>2, <2>3 DEF Callback, ss_on_header_field, Shaped, RequestFields
  <2>. QED
    BY <2>2, <2>4 DEF Shaped, Typed, RequestFields
<1>. QED
  BY <1>1, <1>2, <1>3, <1>4, <1>5, <1>6 DEF DataKinds

LEMMA CallbackTwice ==
    ASSUME NEW A, NEW req, Shaped(req), Typed(A, req), NEW w \in DataKinds,
           NEW d \in Seq(A), NEW e \in Seq(A)
    PROVE  Callback(Callback(req, w, d), w, e) = Callback(req, w, d \o e)
<1>1. CASE req.p.errno \/ w = "none"
  <2>1. ASSUME NEW x PROVE Callback(req, w, x) = req
    BY <1>1 DEF Callback
  <2>. QED
    BY <2>1
<1>2. CASE ~ req.p.errno /\ w = "url"
  <2>0. req.url \in Seq(A)
    BY DEF Typed
  <2>1. (req.url \o d) \o e = req.url \o (d \o e)
    <3>1. \A s \in Seq(A) : (s \o d) \o e = s \o (d \o e)
      BY ConcatAssociative
    <3>. QED
      BY <2>0, <3>1
  <2>2. Callback(req, w, d \o e) = [req EXCEPT !.url = (req.url \o d) \o e]
    BY <1>2, <2>1 DEF Callback, ss_on_url
  <2>3. PICK r : r = Callback(req, w, d) /\ r = [req EXCEPT !.url = req.url \o d]
    BY <1>2 DEF Callback, ss_on_url
  <2>4. r.p = req.p /\ r.url = req.url \o d
    BY <2>3 DEF Shaped, RequestFields
  <2>5. Callback(r, w, e) = [r EXCEPT !.url = r.url \o e]
    BY <1>2, <2>4 DEF Callback, ss_on_url
  <2>6. Callback(r, w, e) = [req EXCEPT !.url = (req.url \o d) \o e]
    BY <2>3, <2>4, <2>5
  <2>. QED
    BY <2>2, <2>3, <2>6
<1>3. CASE ~ req.p.errno /\ w = "body"
  <2>0. req.body \in Seq(A)
    BY DEF Typed
  <2>1. (req.body \o d) \o e = req.body \o (d \o e)
    <3>1. \A s \in Seq(A) : (s \o d) \o e = s \o (d \o e)
      BY ConcatAssociative
    <3>. QED
      BY <2>0, <3>1
  <2>2. Callback(req, w, d \o e)
            = [req EXCEPT !.body = (req.body \o d) \o e, !._parse_part = "PARSE_REQ_BODY"]
    BY <1>3, <2>1 DEF Callback, ss_on_body
  <2>3. PICK r : /\ r = Callback(req, w, d)
                 /\ r = [req EXCEPT !.body = req.body \o d, !._parse_part = "PARSE_REQ_BODY"]
    BY <1>3 DEF Callback, ss_on_body
  <2>4. r.p = req.p /\ r.body = req.body \o d
    BY <2>3 DEF Shaped, RequestFields
  <2>5. Callback(r, w, e) = [r EXCEPT !.body = r.body \o e, !._parse_part = "PARSE_REQ_BODY"]
    BY <1>3, <2>4 DEF Callback, ss_on_body
  <2>6. Callback(r, w, e)
            = [req EXCEPT !.body = (req.body \o d) \o e, !._parse_part = "PARSE_REQ_BODY"]
    BY <2>3, <2>4, <2>5
  <2>. QED
    BY <2>2, <2>3, <2>6
<1>4. CASE ~ req.p.errno /\ w = "header_value"
  <2>1. PICK V : V = [x \in Seq(A) |-> IF req._last_was_value THEN AppendToLast(req._header_values, x)
                                                             ELSE Append(req._header_values, x)]
    OBVIOUS
  <2>2. ASSUME NEW x \in Seq(A)
        PROVE  Callback(req, w, x) = [req EXCEPT !._header_values = V[x], !._last_was_value = TRUE]
    BY <1>4, <2>1 DEF Callback, ss_on_header_value
  <2>3. d \o e \in Seq(A)
    BY ConcatProperties
  <2>4. AppendToLast(V[d], e) = V[d \o e]
    <3>1. CASE req._last_was_value
      BY <2>1, <2>3, <3>1, AppendToLastTwice DEF Typed
    <3>2. CASE ~ req._last_was_value
      BY <2>1, <2>3, <3>2, AppendThenAppendToLast DEF Typed
    <3>. QED
      BY <3>1, <3>2
  <2>5. PICK r : /\ r = Callback(req, w, d)
                 /\ r = [req EXCEPT !._header_values = V[d], !._last_was_value = TRUE]
    BY <2>2
  <2>6. r.p = req.p /\ r._header_values = V[d] /\ r._last_was_value = TRUE
    BY <2>5 DEF Shaped, RequestFields
  <2>7. Callback(r, w, e) = [r EXCEPT !._header_values = V[d \o e], !._last_was_value = TRUE]
    BY <1>4, <2>4, <2>6 DEF Callback, ss_on_header_value
  <2>8. Callback(r, w, e) = [req EXCEPT !._header_values = V[d \o e], !._last_was_value = TRUE]
    BY <2>5, <2>7
  <2>. QED
    BY <2>2, <2>3, <2>5, <2>8
<1>5. CASE ~ req.p.errno /\ w = "header_field"
  <2>1. PICK l : l = LineOver(req)
    OBVIOUS
  <2>2. Shaped(l) /\ Typed(A, l) /\ l.p = req.p /\ l._parse_part # "PARSE_REQ_LINE"
    BY <2>1 DEF LineOver, Shaped, Typed, RequestFields
  <2>3. PICK F : F = [x \in Seq(A) |-> IF l._last_was_value THEN Append(l._header_fields, x)
                                                           ELSE AppendToLast(l._header_fields, x)]
    OBVIOUS
  <2>4. ASSUME NEW x \in Seq(A)
        PROVE  Callback(req, w, x) = [l EXCEPT !._header_fields = F[x],
                                         !._last_was_value = IF l._last_was_value THEN FALSE ELSE @]
    BY <1>5, <2>1, <2>2, <2>3 DEF Callback, ss_on_header_field, Shaped, RequestFields
  <2>5. d \o e \in Seq(A)
    BY ConcatProperties
  <2>6. AppendToLast(F[d], e) = F[d \o e]
    <3>0. l._header_fields \in Seq(Seq(A))
      BY <2>2 DEF Typed
    <3>1. CASE ~ l._last_was_value
      <4>1. F[d] = AppendToLast(l._header_fields, d) /\ F[d \o e] = AppendToLast(l._header_fields, d \o e)
        BY <2>3, <2>5, <3>1
      <4>. QED
        BY <3>0, <4>1, AppendToLastTwice
    <3>2. CASE l._last_was_value
      <4>1. F[d] = Append(l._header_fields, d) /\ F[d \o e] = Append(l._header_fields, d \o e)
        BY <2>3, <2>5, <3>2
      <4>2. AppendToLast(Append(l._header_fields, d), e) = Append(l._header_fields, d \o e)
        BY <3>0, AppendThenAppendToLast
      <4>. QED
        BY <4>1, <4>2
    <3>. QED
      BY <3>1, <3>2
  <2>7. PICK r : /\ r = Callback(req, w, d)
                 /\ r = [l EXCEPT !._header_fields = F[d],
                            !._last_was_value = IF l._last_was_value THEN FALSE ELSE @]
    BY <2>4
  <2>8. /\ r.p = req.p /\ r._header_fields = F[d] /\ ~ r._last_was_value
        /\ r._parse_part # "PARSE_REQ_LINE"
    BY <2>2, <2>7 DEF Shaped, RequestFields
  <2>9. Callback(r, w, e) = [r EXCEPT !._header_fields = F[d \o e]]
    BY <1>5, <2>6, <2>8 DEF Callback, ss_on_header_field, LineOver
  <2>10. Callback(r, w, e) = [l EXCEPT !._header_fields = F[d \o e],
                                !._last_was_value = IF l._last_was_value THEN FALSE ELSE @]
    BY <2>7, <2>9
  <2>. QED
    BY <2>4, <2>5, <2>7, <2>10
<1>. QED
  BY <1>1, <1>2, <1>3, <1>4, <1>5 DEF DataKinds

(* It leaves the rest of the parser to itself. *)
LEMMA CallbackMoves ==
    ASSUME NEW req, Shaped(req), NEW q, q.errno <=> req.p.errno, q.method = req.p.method,
           NEW w \in DataKinds, NEW d
    PROVE  Callback([req EXCEPT !.p = q], w, d) = [Callback(req, w, d) EXCEPT !.p = q]
<1>0. PICK r : r = [req EXCEPT !.p = q]
  OBVIOUS
<1>1. r.p = q /\ \A x \in RequestFields \ {"p"} : r[x] = req[x]
  BY <1>0 DEF Shaped, RequestFields
<1>2. CASE req.p.errno \/ w = "none"
  BY <1>0, <1>1, <1>2 DEF Callback
<1>3. CASE ~ req.p.errno /\ w = "url"
  <2>1. Callback(req, w, d) = [req EXCEPT !.url = req.url \o d]
    BY <1>3 DEF Callback, ss_on_url
  <2>2. Callback(r, w, d) = [r EXCEPT !.url = req.url \o d]
    BY <1>1, <1>3 DEF Callback, ss_on_url, RequestFields
  <2>. QED
    BY <1>0, <2>1, <2>2 DEF Shaped, RequestFields
<1>4. CASE ~ req.p.errno /\ w = "body"
  <2>1. Callback(req, w, d) = [req EXCEPT !.body = req.body \o d, !._parse_part = "PARSE_REQ_BODY"]
    BY <1>4 DEF Callback, ss_on_body
  <2>2. Callback(r, w, d) = [r EXCEPT !.body = req.body \o d, !._parse_part = "PARSE_REQ_BODY"]
    BY <1>1, <1>4 DEF Callback, ss_on_body, RequestFields
  <2>. QED
    BY <1>0, <2>1, <2>2 DEF Shaped, RequestFields
<1>5. CASE ~ req.p.errno /\ w = "header_value"
  <2>1. PICK v : v = IF req._last_was_value THEN AppendToLast(req._header_values, d)
                                            ELSE Append(req._header_values, d)
    OBVIOUS
  <2>2. Callback(req, w, d) = [req EXCEPT !._header_values = v, !._last_was_value = TRUE]
    BY <1>5, <2>1 DEF Callback, ss_on_header_value
  <2>3. Callback(r, w, d) = [r EXCEPT !._header_values = v, !._last_was_value = TRUE]
    BY <1>1, <1>5, <2>1 DEF Callback, ss_on_header_value, RequestFields
  <2>. QED
    BY <1>0, <2>2, <2>3 DEF Shaped, RequestFields
<1>6. CASE ~ req.p.errno /\ w = "header_field"
  <2>1. PICK l, m : l = LineOver(req) /\ m = LineOver(r)
    OBVIOUS
  <2>0. Callback(r, w, d) = ss_on_header_field(r, d)
    BY <1>1, <1>6 DEF Callback
  <2>2. m = [l EXCEPT !.p = q] /\ Shaped(l)
    BY <1>0, <1>1, <2>1 DEF LineOver, Shaped, RequestFields
  <2>3. /\ m._last_was_value = l._last_was_value /\ m._header_fields = l._header_fields
    BY <2>2 DEF Shaped, RequestFields
  <2>4. CASE l._last_was_value
    <3>1. Callback(req, w, d)
            = [l EXCEPT !._header_fields = Append(l._header_fields, d), !._last_was_value = FALSE]
      BY <1>6, <2>1, <2>4 DEF Callback, ss_on_header_field
    <3>2. Callback(r, w, d)
            = [m EXCEPT !._header_fields = Append(l._header_fields, d), !._last_was_value = FALSE]
      BY <2>0, <2>1, <2>3, <2>4 DEF ss_on_header_field
    <3>. QED
      BY <1>0, <2>2, <3>1, <3>2 DEF Shaped, RequestFields
  <2>5. CASE ~ l._last_was_value
    <3>1. Callback(req, w, d) = [l EXCEPT !._header_fields = AppendToLast(l._header_fields, d)]
      BY <1>6, <2>1, <2>5 DEF Callback, ss_on_header_field
    <3>2. Callback(r, w, d) = [m EXCEPT !._header_fields = AppendToLast(l._header_fields, d)]
      BY <2>0, <2>1, <2>3, <2>5 DEF ss_on_header_field
    <3>. QED
      BY <1>0, <2>2, <3>1, <3>2 DEF Shaped, RequestFields
  <2>. QED
    BY <2>4, <2>5
<1>. QED
  BY <1>0, <1>2, <1>3, <1>4, <1>5, <1>6 DEF DataKinds
-----------------------------------------------------------------------------
(* What the parser collects while it reads is what its state says. *)
HeaderStates ==
    {"s_header_field_start", "s_header_value_discard_ws", "s_header_value_discard_ws_almost_done",
     "s_header_value_discard_lws", "s_header_almost_done", "s_header_value_lws",
     "s_headers_almost_done"}
Unmarked ==
    {"s_dead", "s_start_req", "s_req_method", UrlStart, "s_req_line_almost_done", "s_body_identity"}
      \cup VersionStates \cup HeaderStates \cup ChunkStates
Marked == UrlStates \cup {"s_header_field", "s_header_value"}

(* The data of a body is marked with its first character in a piece. *)
BodyStates == {"s_body_identity", "s_chunk_data", "s_chunk_data_almost_done"}

(* Nothing is being collected. *)
NothingHeld(A, req) ==
    /\ Shaped(req)
    /\ \/ req.p.errno
       \/ Typed(A, req) /\ req.p.mark = "none" /\ req.p.text = <<>> /\ ~ req.p.exited
BetweenData(A, req) == NothingHeld(A, req) /\ (req.p.errno \/ req.p.state \in Unmarked)

Good(A, req) ==
    /\ Shaped(req)
    /\ \/ req.p.errno
       \/ /\ Typed(A, req)
          /\ req.p.state \in Unmarked \cup Marked
          /\ \/ req.p.mark = MarkAt(req.p.state)
             \/ req.p.mark = "body" /\ req.p.state \in BodyStates
          /\ req.p.mark = "none" => req.p.text = <<>>
          /\ req.p.exited => req._parse_part = "PARSE_REQ_OVER" /\ req.p.mark = "none"

LEMMA MarksOf ==
    /\ \A s \in Unmarked : MarkAt(s) = "none"
    /\ \A s \in UrlStates : MarkAt(s) = "url"
    /\ MarkAt("s_header_field") = "header_field" /\ MarkAt("s_header_value") = "header_value"
BY DEF MarkAt, Unmarked, UrlStates, VersionStates, HeaderStates, ChunkStates, UrlStart

LEMMA ReadyIsGood ==
    ASSUME NEW A, NEW req, BetweenData(A, req)
    PROVE  Good(A, req)
BY MarksOf DEF BetweenData, NothingHeld, Good

LEMMA Idles ==
    ASSUME NEW A, NEW req, Good(A, req), ~ req.p.errno, ~ req.p.exited,
           req.p.state \in Unmarked \ BodyStates
    PROVE  BetweenData(A, req)
BY MarksOf DEF BetweenData, NothingHeld, Good

(* A step that collects nothing and calls nobody. *)
KeepsMark(p, q) ==
    /\ Parser(q)
    /\ q.mark = p.mark /\ q.text = p.text /\ q.exited = p.exited /\ q.upgrade = p.upgrade

LEMMA QuietIdles ==
    ASSUME NEW A, NEW req, NothingHeld(A, req), ~ req.p.errno, NEW q, KeepsMark(req.p, q)
    PROVE  /\ NothingHeld(A, [req EXCEPT !.p = q])
           /\ q.errno \/ q.state \in Unmarked => BetweenData(A, [req EXCEPT !.p = q])
<1>1. PICK r : r = [req EXCEPT !.p = q]
  OBVIOUS
<1>2. Shaped(r) /\ r.p = q /\ \A x \in RequestFields \ {"p"} : r[x] = req[x]
  BY <1>1 DEF NothingHeld, Shaped, RequestFields, KeepsMark
<1>3. Typed(A, req) => Typed(A, r)
  BY <1>2 DEF Typed, KeepsMark, RequestFields
<1>. QED
  BY <1>1, <1>2, <1>3 DEF NothingHeld, BetweenData, KeepsMark

LEMMA ErrorIsReady ==
    ASSUME NEW A, NEW req, Shaped(req)
    PROVE  BetweenData(A, Error(req)) /\ Good(A, Error(req)) /\ Error(req).p.errno
<1>1. Shaped(Error(req)) /\ Error(req).p.errno
  BY DEF Error, SET_ERRNO, Shaped, RequestFields, ParserFields, Parser
<1>. QED
  BY <1>1 DEF BetweenData, NothingHeld, Good

LEMMA GoIsReady ==
    ASSUME NEW A, NEW req, NothingHeld(A, req), NEW s
    PROVE  /\ NothingHeld(A, Go(req, s)) /\ Go(req, s).p.state = s /\ Go(req, s).p.errno = req.p.errno
           /\ s \in Unmarked => BetweenData(A, Go(req, s))
<1>1. PICK q : q = [req.p EXCEPT !.state = s]
  OBVIOUS
<1>2. Go(req, s) = [req EXCEPT !.p = q] /\ Go(req, s).p = q
  BY <1>1 DEF Go, NothingHeld, Shaped, RequestFields
<1>3. KeepsMark(req.p, q) /\ q.state = s /\ q.errno = req.p.errno
  BY <1>1 DEF NothingHeld, Shaped, KeepsMark, Parser, ParserFields
<1>4. CASE req.p.errno
  <2>1. Shaped(Go(req, s))
    BY <1>2, <1>3 DEF NothingHeld, Shaped, KeepsMark, RequestFields
  <2>. QED
    BY <1>2, <1>3, <1>4, <2>1 DEF NothingHeld, BetweenData
<1>5. CASE ~ req.p.errno
  <2>1. NothingHeld(A, [req EXCEPT !.p = q])
    BY <1>3, <1>5, QuietIdles
  <2>. QED
    BY <1>2, <1>3, <2>1 DEF BetweenData
<1>. QED
  BY <1>4, <1>5

LEMMA ExpectIsReady ==
    ASSUME NEW A, NEW req, NothingHeld(A, req), NEW s \in Unmarked, NEW ok
    PROVE  BetweenData(A, Expect(req, ok, s))
<1>1. CASE ok
  BY <1>1, GoIsReady DEF Expect
<1>2. CASE ~ ok
  BY <1>2, ErrorIsReady DEF Expect, NothingHeld
<1>. QED
  BY <1>1, <1>2
-----------------------------------------------------------------------------
(* The callbacks that are told something, and those that get data.         *)
LEMMA NotifiedIdles ==
    ASSUME NEW A, NEW req, NothingHeld(A, req), NEW w \in {"headers_complete", "message_complete"}
    PROVE  /\ NothingHeld(A, CALLBACK_NOTIFY(req, w))
           /\ \/ CALLBACK_NOTIFY(req, w).p.errno
              \/ /\ CALLBACK_NOTIFY(req, w).p = req.p
                 /\ w = "message_complete" =>
                      CALLBACK_NOTIFY(req, w)._parse_part = "PARSE_REQ_OVER"
<1>1. CASE req.p.errno
  BY <1>1 DEF CALLBACK_NOTIFY, Callback
<1>2. CASE ~ req.p.errno /\ w = "headers_complete"
  <2>1. PICK h, r : /\ h = Headers(req._header_fields, req._header_values)
                    /\ r = [req EXCEPT !._headers = h, !._parse_part = "PARSE_REQ_HEAD_OVER"]
    OBVIOUS
  <2>2. NothingHeld(A, r) /\ r.p = req.p
    BY <2>1 DEF NothingHeld, Shaped, Typed, RequestFields
  <2>3. CALLBACK_NOTIFY(req, w) \in {r, Error(r), Error(req)}
    BY <1>2, <2>1 DEF CALLBACK_NOTIFY, Callback, ss_on_headers_complete, LengthChecked
  <2>4. /\ NothingHeld(A, Error(r)) /\ Error(r).p.errno
        /\ NothingHeld(A, Error(req)) /\ Error(req).p.errno
    BY <2>2, ErrorIsReady DEF BetweenData, NothingHeld
  <2>. QED
    BY <1>2, <2>2, <2>3, <2>4
<1>3. CASE ~ req.p.errno /\ w = "message_complete"
  <2>1. PICK r : r = [req EXCEPT !._parse_part = "PARSE_REQ_OVER"]
    OBVIOUS
  <2>2. NothingHeld(A, r) /\ r.p = req.p /\ r._parse_part = "PARSE_REQ_OVER"
    BY <2>1 DEF NothingHeld, Shaped, Typed, RequestFields
  <2>3. ASSUME NEW f
        PROVE  /\ NothingHeld(A, [r EXCEPT !.form = f]) /\ [r EXCEPT !.form = f].p = req.p
               /\ [r EXCEPT !.form = f]._parse_part = "PARSE_REQ_OVER"
    BY <2>2 DEF NothingHeld, Shaped, Typed, RequestFields
  <2>4. ss_parse_multipart_data(r) \in {r, Error(r)} \/ \E f : ss_parse_multipart_data(r) = [r EXCEPT !.form = f]
    BY DEF ss_parse_multipart_data, PartsOf, PartsBetween, WithForm
  <2>5. /\ [r EXCEPT !.form = IF r.body = <<>> THEN @ ELSE parse_query_url(r.body)]
             = [r EXCEPT !.form = IF r.body = <<>> THEN r.form ELSE parse_query_url(r.body)]
    OBVIOUS
  <2>6. \/ CALLBACK_NOTIFY(req, w) \in {r, Error(r)}
        \/ \E f : CALLBACK_NOTIFY(req, w) = [r EXCEPT !.form = f]
    BY <1>3, <2>1, <2>4, <2>5 DEF CALLBACK_NOTIFY, Callback, ss_on_message_complete
  <2>7. NothingHeld(A, Error(r)) /\ Error(r).p.errno
    BY <2>2, ErrorIsReady DEF BetweenData, NothingHeld
  <2>8. CASE CALLBACK_NOTIFY(req, w) = r
    BY <1>3, <2>2, <2>8
  <2>9. CASE CALLBACK_NOTIFY(req, w) = Error(r)
    BY <2>7, <2>9
  <2>10. CASE \E f : CALLBACK_NOTIFY(req, w) = [r EXCEPT !.form = f]
    BY <1>3, <2>3, <2>10
  <2>. QED
    BY <2>6, <2>8, <2>9, <2>10
<1>. QED
  BY <1>1, <1>2, <1>3

LEMMA DeliveredIdles ==
    ASSUME NEW A, NEW req, Shaped(req),
           req.p.errno \/ (Typed(A, req) /\ req.p.mark \in DataKinds /\ ~ req.p.exited)
    PROVE  /\ NothingHeld(A, CALLBACK_DATA(req))
           /\ CALLBACK_DATA(req).p = [req.p EXCEPT !.mark = "none", !.text = <<>>]
           /\ CALLBACK_DATA(req).p.state = req.p.state
           /\ CALLBACK_DATA(req).p.errno = req.p.errno
<1>1. PICK q, r : /\ q = [req.p EXCEPT !.mark = "none", !.text = <<>>]
                  /\ r = [req EXCEPT !.p = q]
  OBVIOUS
<1>2. /\ Parser(q) /\ q.mark = "none" /\ q.text = <<>> /\ q.state = req.p.state
      /\ q.errno = req.p.errno /\ q.exited = req.p.exited /\ q.upgrade = req.p.upgrade
  BY <1>1 DEF Shaped, Parser, ParserFields
<1>3. Shaped(r) /\ r.p = q /\ \A x \in RequestFields \ {"p"} : r[x] = req[x]
  BY <1>1, <1>2 DEF Shaped, RequestFields
<1>4. CALLBACK_DATA(req) = Callback(r, req.p.mark, req.p.text)
  BY <1>1 DEF CALLBACK_DATA
<1>5. CASE req.p.errno
  <2>1. CALLBACK_DATA(req) = r
    BY <1>2, <1>3, <1>4, <1>5 DEF Callback
  <2>. QED
    BY <1>1, <1>2, <1>3, <1>5, <2>1 DEF NothingHeld
<1>6. CASE ~ req.p.errno
  <2>1. Typed(A, r) /\ req.p.text \in Seq(A)
    BY <1>2, <1>3, <1>6, EmptySeq DEF Typed, RequestFields
  <2>2. PICK s : s = CALLBACK_DATA(req) /\ Shaped(s) /\ Typed(A, s) /\ s.p = q
    BY <1>3, <1>4, <1>6, <2>1, CallbackTyped
  <2>. QED
    BY <1>1, <1>2, <1>6, <2>2 DEF NothingHeld
<1>. QED
  BY <1>5, <1>6
-----------------------------------------------------------------------------
(* The end of a message. *)
LEMMA NewMessageIsReady ==
    ASSUME NEW A, NEW req, NothingHeld(A, req)
    PROVE  /\ BetweenData(A, NEW_MESSAGE(req))
           /\ NEW_MESSAGE(req).p.errno \/ NEW_MESSAGE(req)._parse_part = "PARSE_REQ_OVER"
<1>1. PICK s \in Unmarked : s = IF http_should_keep_alive(req.p) THEN "s_start_req" ELSE "s_dead"
  BY DEF Unmarked
<1>2. PICK r : r = Go(req, s) /\ NothingHeld(A, r) /\ r.p.state = s
  BY GoIsReady
<1>3. NEW_MESSAGE(req) = CALLBACK_NOTIFY(r, "message_complete")
  BY <1>1, <1>2 DEF NEW_MESSAGE
<1>. QED
  BY <1>1, <1>2, <1>3, NotifiedIdles DEF BetweenData

LEMMA MessageDoneIsGood ==
    ASSUME NEW A, NEW req, NothingHeld(A, req)
    PROVE  Good(A, s_message_done(req))
<1>1. PICK r : /\ r = NEW_MESSAGE(req) /\ BetweenData(A, r)
               /\ r.p.errno \/ r._parse_part = "PARSE_REQ_OVER"
  BY NewMessageIsReady
<1>2. PICK s : s = s_message_done(req) /\ s = [r EXCEPT !.p.exited = req.p.upgrade]
  BY <1>1 DEF s_message_done
<1>3. Shaped(r)
  BY <1>1 DEF BetweenData, NothingHeld
<1>4. /\ Shaped(s) /\ s.p.errno = r.p.errno /\ s.p.state = r.p.state
      /\ s.p.mark = r.p.mark /\ s.p.text = r.p.text
      /\ s.p.upgrade = r.p.upgrade /\ s.p.exited = req.p.upgrade
      /\ \A x \in RequestFields \ {"p"} : s[x] = r[x]
  BY <1>2, <1>3 DEF Shaped, RequestFields, Parser, ParserFields
<1>0. req.p.errno => r.p.errno
  <2>1. SUFFICES ASSUME req.p.errno PROVE r.p.errno
    OBVIOUS
  <2>2. \A h : Go(req, h).p.errno
    BY <2>1, GoIsReady
  <2>. QED
    BY <1>1, <2>2 DEF NEW_MESSAGE, CALLBACK_NOTIFY, Callback
<1>5. Typed(A, r) /\ ~ r.p.errno => Typed(A, s)
  BY <1>0, <1>4 DEF Typed, RequestFields, NothingHeld
<1>6. s._parse_part = r._parse_part
  BY <1>4 DEF RequestFields
<1>. QED
  BY <1>1, <1>2, <1>4, <1>5, <1>6, MarksOf DEF BetweenData, NothingHeld, Good

LEMMA HeadersDoneIsGood ==
    ASSUME NEW A, NEW req, NothingHeld(A, req)
    PROVE  Good(A, s_headers_done(req))
<1>1. Good(A, s_message_done(req)) /\ Good(A, NEW_MESSAGE(req))
  BY MessageDoneIsGood, NewMessageIsReady, ReadyIsGood
<1>2. Good(A, Go(req, "s_chunk_size_start")) /\ Good(A, Go(req, "s_body_identity"))
  <2>1. "s_chunk_size_start" \in Unmarked /\ "s_body_identity" \in Unmarked
    BY DEF Unmarked, ChunkStates
  <2>. QED
    BY <2>1, GoIsReady, ReadyIsGood
<1>3. s_headers_done(req) \in {s_message_done(req), NEW_MESSAGE(req),
                               Go(req, "s_chunk_size_start"), Go(req, "s_body_identity")}
  BY DEF s_headers_done
<1>. QED
  BY <1>1, <1>2, <1>3

LEMMA HeadersAlmostDoneIsGood ==
    ASSUME NEW A, NEW req, NothingHeld(A, req), NEW c
    PROVE  Good(A, s_headers_almost_done(req, c))
<1>1. PICK u, r : r = [req EXCEPT !.p.upgrade = u]
             /\ u = (\/ {"F_UPGRADE", "F_CONNECTION_UPGRADE"} \subseteq req.p.flags
                     \/ req.p.method = <<"CONNECT">>)
  OBVIOUS
<1>2. NothingHeld(A, r)
  BY <1>1 DEF NothingHeld, Shaped, Typed, RequestFields, Parser, ParserFields
<1>3. NothingHeld(A, CALLBACK_NOTIFY(r, "headers_complete"))
  BY <1>2, NotifiedIdles
<1>4. s_headers_almost_done(req, c) \in
         {Error(req), s_message_done(req), s_headers_done(CALLBACK_NOTIFY(r, "headers_complete"))}
  BY <1>1 DEF s_headers_almost_done
<1>5. Good(A, Error(req))
  BY ErrorIsReady DEF NothingHeld
<1>. QED
  BY <1>3, <1>4, <1>5, MessageDoneIsGood, HeadersDoneIsGood
-----------------------------------------------------------------------------
(* The request line. *)
LEMMA StartIsGood ==
    ASSUME NEW A, NEW req, BetweenData(A, req), ~ req.p.errno, NEW c
    PROVE  Good(A, s_start_req(req, c))
<1>1. PICK q : q = [req.p EXCEPT !.flags = {}, !.content_length = NoLength, !.index = <<c>>,
                                 !.state = "s_req_method"]
  OBVIOUS
<1>2. KeepsMark(req.p, q) /\ q.state = "s_req_method"
  BY <1>1 DEF BetweenData, NothingHeld, Shaped, KeepsMark, Parser, ParserFields
<1>3. Good(A, [req EXCEPT !.p = q])
  BY <1>2, QuietIdles, ReadyIsGood DEF BetweenData, Unmarked
<1>4. Good(A, req) /\ Good(A, Error(req))
  BY ReadyIsGood, ErrorIsReady DEF BetweenData, NothingHeld
<1>5. s_start_req(req, c) \in {req, Error(req), [req EXCEPT !.p = q]}
  <2>1. CASE c \in {CR, LF}
    BY <1>1, <2>1 DEF s_start_req
  <2>2. CASE c \notin {CR, LF}
    BY <1>1, <2>2 DEF s_start_req
  <2>. QED
    BY <2>1, <2>2
<1>. QED
  BY <1>3, <1>4, <1>5

LEMMA MethodIsGood ==
    ASSUME NEW A, NEW req, BetweenData(A, req), ~ req.p.errno, NEW c
    PROVE  Good(A, s_req_method(req, c))
<1>1. PICK q, r : /\ q = [req.p EXCEPT !.method = req.p.index]
                  /\ r = [req.p EXCEPT !.index = Append(req.p.index, c)]
  OBVIOUS
<1>2. KeepsMark(req.p, q) /\ KeepsMark(req.p, r) /\ r.state = req.p.state
  BY <1>1 DEF BetweenData, NothingHeld, Shaped, KeepsMark, Parser, ParserFields
<1>3. NothingHeld(A, [req EXCEPT !.p = q]) /\ Good(A, [req EXCEPT !.p = r])
  BY <1>2, QuietIdles, ReadyIsGood DEF BetweenData
<1>4. Good(A, Expect([req EXCEPT !.p = q], req.p.index \in Methods, UrlStart))
  BY <1>3, ExpectIsReady, ReadyIsGood DEF Unmarked
<1>5. Good(A, Error(req))
  BY ErrorIsReady DEF BetweenData, NothingHeld
<1>6. s_req_method(req, c) \in {Expect([req EXCEPT !.p = q], req.p.index \in Methods, UrlStart),
                                [req EXCEPT !.p = r], Error(req)}
  BY <1>1 DEF s_req_method
<1>. QED
  BY <1>3, <1>4, <1>5, <1>6

LEMMA VersionIsGood ==
    ASSUME NEW A, NEW req, BetweenData(A, req), ~ req.p.errno, req.p.state \in VersionStates, NEW c
    PROVE  Good(A, HttpVersion(req, c))
<1>1. NothingHeld(A, req)
  BY DEF BetweenData
<1>2. Good(A, Error(req)) /\ Good(A, req)
  BY ReadyIsGood, ErrorIsReady DEF BetweenData, NothingHeld
<1>3. VersionStates \cup {"s_req_line_almost_done", "s_header_field_start"} \subseteq Unmarked
  BY DEF Unmarked, HeaderStates
<1>4. ASSUME NEW i, NEW s \in VersionStates
      PROVE  Good(A, Go([req EXCEPT !.p.http[i] = Digits[c]], s))
  <2>1. PICK q : q = [req.p EXCEPT !.http[i] = Digits[c]]
    OBVIOUS
  <2>2. KeepsMark(req.p, q)
    BY <1>1, <2>1 DEF NothingHeld, Shaped, KeepsMark, Parser, ParserFields
  <2>3. NothingHeld(A, [req EXCEPT !.p = q])
    BY <1>1, <2>2, QuietIdles
  <2>4. Good(A, Go([req EXCEPT !.p = q], s))
    BY <1>3, <2>3, GoIsReady, ReadyIsGood
  <2>. QED
    BY <2>1, <2>4
<1>5. ASSUME NEW s \in Unmarked, NEW ok
      PROVE  Good(A, Expect(req, ok, s)) /\ Good(A, Go(req, s))
  BY <1>1, ExpectIsReady, GoIsReady, ReadyIsGood
<1>6. CASE req.p.state = "s_req_http_start"
  BY <1>2, <1>3, <1>5, <1>6 DEF HttpVersion, VersionStates
<1>7. CASE req.p.state = "s_req_http_major"
  BY <1>2, <1>4, <1>7 DEF HttpVersion, VersionStates
<1>8. CASE req.p.state = "s_req_http_dot"
  BY <1>3, <1>5, <1>8 DEF HttpVersion, VersionStates
<1>9. CASE req.p.state = "s_req_http_minor"
  BY <1>2, <1>4, <1>9 DEF HttpVersion, VersionStates
<1>10. CASE req.p.state = "s_req_http_end"
  BY <1>3, <1>5, <1>10 DEF HttpVersion, VersionStates
<1>. QED
  BY <1>6, <1>7, <1>8, <1>9, <1>10 DEF VersionStates

LEMMA UrlCharStates ==
    ASSUME NEW s, NEW c
    PROVE  parse_url_char(s, c) \in UrlStates \cup {"s_dead"}
<1>1. CASE s \in {UrlStart, "s_req_schema", "s_req_schema_slash", "s_req_schema_slash_slash"}
  BY <1>1 DEF parse_url_char, UrlStates, UrlStart, Word
<1>2. CASE s \in {"s_req_server_start", "s_req_server", "s_req_server_with_at"}
  BY <1>2 DEF parse_url_char, UrlStates, UrlStart, NoUrlChar
<1>3. CASE s \in {"s_req_path", "s_req_query_string_start", "s_req_query_string"}
  BY <1>3 DEF parse_url_char, UrlStates, UrlStart, NoUrlChar
<1>4. CASE s \in {"s_req_fragment_start", "s_req_fragment"}
  BY <1>4 DEF parse_url_char, UrlStates, UrlStart, NoUrlChar
<1>5. CASE s \notin UrlStates \cup {UrlStart}
  BY <1>5 DEF parse_url_char, UrlStates, UrlStart
<1>. QED
  BY <1>1, <1>2, <1>3, <1>4, <1>5 DEF UrlStates

(* A character of a url goes on with what is marked already. *)
LEMMA UrlCharIsGood ==
    ASSUME NEW A, NEW req, Shaped(req), Typed(A, req), ~ req.p.errno, ~ req.p.exited,
           req.p.mark = "url", NEW s, NEW c
    PROVE  Good(A, UrlChar(req, s, c))
<1>1. PICK n \in UrlStates \cup {"s_dead"} : n = parse_url_char(s, c)
  BY UrlCharStates
<1>2. CASE n = "s_dead"
  <2>1. UrlChar(req, s, c) = Error(req)
    BY <1>1, <1>2 DEF UrlChar, Expect
  <2>. QED
    BY <2>1, ErrorIsReady
<1>3. CASE n # "s_dead"
  <2>1. PICK r : r = UrlChar(req, s, c) /\ r = Go(req, n)
    BY <1>1, <1>3 DEF UrlChar, Expect
  <2>2. PICK q : q = [req.p EXCEPT !.state = n]
    OBVIOUS
  <2>3. /\ Parser(q) /\ q.state = n /\ q.mark = req.p.mark /\ q.text = req.p.text
        /\ q.exited = req.p.exited /\ q.upgrade = req.p.upgrade
    BY <2>2 DEF Shaped, Parser, ParserFields
  <2>4. r = [req EXCEPT !.p = q]
    BY <2>1, <2>2 DEF Go, Shaped, RequestFields
  <2>5. Shaped(r) /\ r.p = q /\ \A x \in RequestFields \ {"p"} : r[x] = req[x]
    BY <2>3, <2>4 DEF Shaped, RequestFields
  <2>6. Typed(A, r)
    BY <2>3, <2>5 DEF Typed, RequestFields
  <2>. QED
    BY <1>1, <1>3, <2>1, <2>3, <2>5, <2>6, MarksOf DEF Good, Marked
<1>. QED
  BY <1>2, <1>3

LEMMA MarkSets ==
    ASSUME NEW A, NEW req, Shaped(req), Typed(A, req), NEW w, NEW c \in A
    PROVE  LET r == MARK(req, w, c)
           IN /\ Shaped(r) /\ Typed(A, r) /\ r.p.mark = w /\ r.p.text = <<c>>
              /\ r.p.state = req.p.state /\ r.p.errno = req.p.errno /\ r.p.exited = req.p.exited
              /\ r.p.content_length = req.p.content_length
<1>1. <<c>> \in Seq(A)
  OBVIOUS
<1>2. PICK r : r = MARK(req, w, c)
  OBVIOUS
<1>3. /\ Shaped(r) /\ r.p.mark = w /\ r.p.text = <<c>> /\ r.p.state = req.p.state
      /\ r.p.errno = req.p.errno /\ r.p.exited = req.p.exited
      /\ r.p.content_length = req.p.content_length /\ r.p.upgrade = req.p.upgrade
      /\ \A x \in RequestFields \ {"p"} : r[x] = req[x]
  BY <1>2 DEF MARK, Shaped, RequestFields, Parser, ParserFields
<1>4. Typed(A, r)
  BY <1>1, <1>3 DEF Typed, RequestFields
<1>. QED
  BY <1>2, <1>3, <1>4

LEMMA CollectAdds ==
    ASSUME NEW A, NEW req, Shaped(req), Typed(A, req), NEW c \in A
    PROVE  LET r == Collect(req, c)
           IN /\ Shaped(r) /\ Typed(A, r) /\ r.p.mark = req.p.mark
              /\ r.p.text = IF req.p.mark = "none" THEN req.p.text ELSE Append(req.p.text, c)
              /\ r.p.state = req.p.state /\ r.p.errno = req.p.errno /\ r.p.exited = req.p.exited
              /\ r.p.content_length = req.p.content_length
<1>1. PICK t \in Seq(A) : t = IF req.p.mark = "none" THEN req.p.text ELSE Append(req.p.text, c)
  <2>1. req.p.text \in Seq(A)
    BY DEF Typed
  <2>. QED
    BY <2>1, AppendProperties
<1>2. PICK r : r = Collect(req, c)
  OBVIOUS
<1>3. /\ Shaped(r) /\ r.p.mark = req.p.mark /\ r.p.text = t /\ r.p.state = req.p.state
      /\ r.p.errno = req.p.errno /\ r.p.exited = req.p.exited
      /\ r.p.content_length = req.p.content_length /\ r.p.upgrade = req.p.upgrade
      /\ \A x \in RequestFields \ {"p"} : r[x] = req[x]
  BY <1>1, <1>2 DEF Collect, Shaped, RequestFields, Parser, ParserFields
<1>4. Typed(A, r)
  BY <1>1, <1>3 DEF Typed, RequestFields
<1>. QED
  BY <1>1, <1>2, <1>3, <1>4

LEMMA UrlStartsIsGood ==
    ASSUME NEW A, NEW req, BetweenData(A, req), ~ req.p.errno, NEW c \in A
    PROVE  Good(A, s_req_spaces_before_url(req, c))
<1>1. Shaped(req) /\ Typed(A, req) /\ ~ req.p.exited
  BY DEF BetweenData, NothingHeld
<1>2. PICK r : /\ r = MARK(req, "url", c) /\ Shaped(r) /\ Typed(A, r) /\ r.p.mark = "url"
               /\ r.p.errno = req.p.errno /\ r.p.exited = req.p.exited
  BY <1>1, MarkSets
<1>3. \A s : Good(A, UrlChar(r, s, c))
  BY <1>1, <1>2, UrlCharIsGood
<1>. QED
  BY <1>2, <1>3, ReadyIsGood DEF s_req_spaces_before_url

(* Whoever delivers what was collected does so on the way to a state without a mark. *)
LEMMA DeliveredIsGood ==
    ASSUME NEW A, NEW req, Shaped(req), Typed(A, req), req.p.mark \in DataKinds,
           ~ req.p.exited, ~ req.p.errno, NEW s \in Unmarked
    PROVE  /\ NothingHeld(A, CALLBACK_DATA(Go(req, s))) /\ Good(A, CALLBACK_DATA(Go(req, s)))
           /\ BetweenData(A, CALLBACK_DATA(Go(req, s)))
<1>1. PICK r : r = Go(req, s)
  OBVIOUS
<1>2. /\ Shaped(r) /\ Typed(A, r) /\ r.p.mark = req.p.mark /\ ~ r.p.exited /\ r.p.state = s
  BY <1>1 DEF Go, Shaped, Typed, RequestFields, Parser, ParserFields
<1>3. NothingHeld(A, CALLBACK_DATA(r)) /\ CALLBACK_DATA(r).p.state = s
  BY <1>2, DeliveredIdles
<1>. QED
  BY <1>1, <1>3, ReadyIsGood DEF BetweenData

LEMMA UrlIsGood ==
    ASSUME NEW A, NEW req, Good(A, req), ~ req.p.errno, ~ req.p.exited, req.p.state \in UrlStates,
           NEW c \in A
    PROVE  Good(A, UrlState(req, c))
<1>1. Shaped(req) /\ Typed(A, req) /\ req.p.mark = "url"
  BY MarksOf DEF Good, UrlStates, BodyStates
<1>2. Good(A, UrlChar(Collect(req, c), req.p.state, c))
  <2>1. PICK r : /\ r = Collect(req, c) /\ Shaped(r) /\ Typed(A, r) /\ r.p.mark = "url"
                 /\ r.p.errno = req.p.errno /\ r.p.exited = req.p.exited
    BY <1>1, CollectAdds
  <2>. QED
    BY <2>1, UrlCharIsGood
<1>3. {"s_req_http_start", "s_req_line_almost_done", "s_header_field_start"} \subseteq Unmarked
  BY DEF Unmarked, VersionStates, HeaderStates
<1>4. Good(A, CALLBACK_DATA(Go(req, "s_req_http_start")))
  BY <1>1, <1>3, DeliveredIsGood DEF DataKinds
<1>5. ASSUME NEW s \in Unmarked
      PROVE  Good(A, CALLBACK_DATA(Go([req EXCEPT !.p.http = <<0, 9>>], s)))
  <2>1. PICK r : r = [req EXCEPT !.p.http = <<0, 9>>]
    OBVIOUS
  <2>2. Shaped(r) /\ Typed(A, r) /\ r.p.mark = "url" /\ ~ r.p.exited /\ ~ r.p.errno
    BY <1>1, <2>1 DEF Shaped, Typed, RequestFields, Parser, ParserFields
  <2>. QED
    BY <2>1, <2>2, DeliveredIsGood DEF DataKinds
<1>6. Good(A, Error(req))
  BY <1>1, ErrorIsReady
<1>. QED
  BY <1>2, <1>3, <1>4, <1>5, <1>6 DEF UrlState
-----------------------------------------------------------------------------
(* Headers. *)
LEMMA FieldMatchIsQuiet ==
    ASSUME NEW p, Parser(p), NEW c
    PROVE  /\ KeepsMark(p, MatchField(p, c))
           /\ MatchField(p, c).state = p.state /\ MatchField(p, c).errno = p.errno
           /\ MatchField(p, c).method = p.method
BY DEF MatchField, KeepsMark, Parser, ParserFields

LEMMA TokenMatchIsQuiet ==
    ASSUME NEW p, Parser(p), NEW c
    PROVE  /\ KeepsMark(p, MatchToken(p, c))
           /\ MatchToken(p, c).state = p.state /\ MatchToken(p, c).errno = p.errno
           /\ MatchToken(p, c).method = p.method
BY DEF MatchToken, KeepsMark, Parser, ParserFields

LEMMA NumberIsQuiet ==
    ASSUME NEW p, Parser(p), NEW c, NEW base, NEW digits
    PROVE  /\ KeepsMark(p, Number(p, c, base, digits))
           /\ Number(p, c, base, digits).state = p.state
           /\ Number(p, c, base, digits).method = p.method
BY DEF Number, SET_ERRNO, KeepsMark, Parser, ParserFields

LEMMA FieldStartIsGood ==
    ASSUME NEW A, NEW req, NothingHeld(A, req), ~ req.p.errno, NEW c \in A
    PROVE  Good(A, s_header_field_start(req, c))
<1>1. PICK q, p : /\ q = [req.p EXCEPT !.index = <<>>, !.header_state = "h_matching"]
                  /\ p = MatchField(q, c)
  OBVIOUS
<1>2. KeepsMark(req.p, q) /\ q.state = req.p.state /\ q.errno = req.p.errno
  BY <1>1 DEF NothingHeld, Shaped, KeepsMark, Parser, ParserFields
<1>3. KeepsMark(req.p, p) /\ p.state = req.p.state /\ p.errno = req.p.errno
  <2>1. Parser(q)
    BY <1>2 DEF KeepsMark
  <2>2. KeepsMark(q, p) /\ p.state = q.state /\ p.errno = q.errno
    BY <1>1, <2>1, FieldMatchIsQuiet
  <2>. QED
    BY <1>2, <2>2 DEF KeepsMark
<1>4. PICK r : r = [req EXCEPT !.p = p]
  OBVIOUS
<1>5. NothingHeld(A, r) /\ ~ r.p.errno
  <2>1. r.p = p
    BY <1>4 DEF NothingHeld, Shaped, RequestFields
  <2>. QED
    BY <1>3, <1>4, <2>1, QuietIdles
<1>6. PICK m : /\ m = MARK(r, "header_field", c) /\ Shaped(m) /\ Typed(A, m)
               /\ m.p.mark = "header_field" /\ ~ m.p.errno /\ ~ m.p.exited
  BY <1>5, MarkSets DEF NothingHeld
<1>7. Good(A, Go(m, "s_header_field"))
  <2>1. PICK s : s = Go(m, "s_header_field")
    OBVIOUS
  <2>2. /\ Shaped(s) /\ Typed(A, s) /\ s.p.state = "s_header_field"
        /\ s.p.mark = "header_field" /\ ~ s.p.exited
    BY <1>6, <2>1 DEF Go, Shaped, Typed, RequestFields, Parser, ParserFields
  <2>. QED
    BY <2>1, <2>2, MarksOf DEF Good, Marked
<1>8. /\ Good(A, Go(req, "s_headers_almost_done")) /\ Good(A, s_headers_almost_done(req, c))
      /\ Good(A, Error(req))
  <2>1. "s_headers_almost_done" \in Unmarked /\ Shaped(req)
    BY DEF Unmarked, HeaderStates, NothingHeld
  <2>. QED
    BY <2>1, GoIsReady, ReadyIsGood, HeadersAlmostDoneIsGood, ErrorIsReady
<1>9. s_header_field_start(req, c) \in
        {Go(req, "s_headers_almost_done"), s_headers_almost_done(req, c), Error(req),
         Go(m, "s_header_field")}
  <2>1. CASE c \in {CR, LF}
    BY <2>1 DEF s_header_field_start, CR, LF
  <2>2. CASE c \notin {CR, LF}
    BY <1>1, <1>4, <1>6, <2>2 DEF s_header_field_start
  <2>. QED
    BY <2>1, <2>2
<1>. QED
  BY <1>7, <1>8, <1>9

LEMMA ValueStartsIsQuiet ==
    ASSUME NEW p, Parser(p), NEW c
    PROVE  KeepsMark(p, ValueStarts(p, c))
<1>1. PICK q : q = [p EXCEPT !.index = <<>>]
  OBVIOUS
<1>2. KeepsMark(p, q) /\ q.header_state = p.header_state /\ q.flags = p.flags
  BY <1>1 DEF KeepsMark, Parser, ParserFields
<1>3. PICK n : n = [q EXCEPT !.flags = @ \cup {"F_CONTENTLENGTH"},
                             !.header_state = "h_content_length_num", !.content_length = 0]
  OBVIOUS
<1>4. KeepsMark(p, Number(n, c, 10, Digits))
  <2>1. KeepsMark(p, n)
    BY <1>2, <1>3 DEF KeepsMark, Parser, ParserFields
  <2>2. KeepsMark(n, Number(n, c, 10, Digits))
    BY <2>1, NumberIsQuiet DEF KeepsMark
  <2>. QED
    BY <2>1, <2>2 DEF KeepsMark
<1>5. KeepsMark(p, MatchToken(q, c))
  <2>1. KeepsMark(q, MatchToken(q, c))
    BY <1>2, TokenMatchIsQuiet DEF KeepsMark
  <2>. QED
    BY <1>2, <2>1 DEF KeepsMark
<1>6. /\ KeepsMark(p, [q EXCEPT !.header_state = "h_general"])
      /\ KeepsMark(p, [[q EXCEPT !.header_state = "h_general"] EXCEPT !.flags = @ \cup {"F_UPGRADE"}])
      /\ KeepsMark(p, [q EXCEPT !.header_state = "h_transfer_encoding_chunked"])
      /\ KeepsMark(p, SET_ERRNO(q))
  BY <1>2 DEF SET_ERRNO, KeepsMark, Parser, ParserFields
<1>7. CASE p.header_state \in {"h_upgrade", "h_transfer_encoding"}
  BY <1>1, <1>2, <1>6, <1>7 DEF ValueStarts
<1>8. CASE p.header_state = "h_content_length"
  BY <1>1, <1>2, <1>3, <1>4, <1>6, <1>8 DEF ValueStarts
<1>9. CASE p.header_state = "h_connection"
  BY <1>1, <1>2, <1>5, <1>9 DEF ValueStarts
<1>10. CASE p.header_state \in {"h_content_length_ws", "h_matching_connection_token_start"}
  BY <1>1, <1>2, <1>10 DEF ValueStarts
<1>11. CASE p.header_state \notin {"h_upgrade", "h_transfer_encoding", "h_content_length",
                                   "h_connection", "h_content_length_ws",
                                   "h_matching_connection_token_start"}
  BY <1>1, <1>2, <1>6, <1>11 DEF ValueStarts
<1>. QED
  BY <1>7, <1>8, <1>9, <1>10, <1>11

LEMMA ValueMatchIsQuiet ==
    ASSUME NEW p, Parser(p), NEW c
    PROVE  /\ KeepsMark(p, MatchValue(p, c))
           /\ MatchValue(p, c).state = p.state /\ MatchValue(p, c).method = p.method
<1>. DEFINE Fine(q) == KeepsMark(p, q) /\ q.state = p.state /\ q.method = p.method
<1>1. ASSUME NEW h PROVE Fine([p EXCEPT !.header_state = h])
  BY DEF KeepsMark, Parser, ParserFields
<1>2. Fine(MatchToken(p, c)) /\ Fine(Number(p, c, 10, Digits))
  BY TokenMatchIsQuiet, NumberIsQuiet
<1>3. Fine(p) /\ Fine(SET_ERRNO(p)) /\ Fine(NextToken(p))
  BY DEF KeepsMark, Parser, ParserFields, SET_ERRNO, NextToken
<1>4. Fine(NextToken(WithFlags(p)))
  BY DEF KeepsMark, Parser, ParserFields, NextToken, WithFlags
<1>. SUFFICES Fine(MatchValue(p, c))
  OBVIOUS
<1>. HIDE DEF Fine
<1>5. CASE p.header_state = "h_content_length_num"
  BY <1>1, <1>2, <1>5 DEF MatchValue
<1>6. CASE p.header_state = "h_content_length_ws"
  BY <1>3, <1>6 DEF MatchValue
<1>7. CASE p.header_state = "h_transfer_encoding_chunked"
  BY <1>1, <1>3, <1>7 DEF MatchValue
<1>8. CASE p.header_state = "h_matching_connection_token_start"
  BY <1>1, <1>2, <1>3, <1>8 DEF MatchValue
<1>9. CASE p.header_state = "h_matching_connection"
  <2>1. CASE p.index \in DOMAIN ConnectionTokens
    BY <1>1, <1>3, <1>4, <1>9, <2>1 DEF MatchValue
  <2>2. CASE p.index \notin DOMAIN ConnectionTokens
    BY <1>2, <1>9, <2>2 DEF MatchValue
  <2>. QED
    BY <2>1, <2>2
<1>10. CASE p.header_state = "h_matching_connection_token"
  BY <1>3, <1>10 DEF MatchValue
<1>11. CASE p.header_state \notin {"h_content_length_num", "h_content_length_ws",
                                   "h_transfer_encoding_chunked", "h_matching_connection",
                                   "h_matching_connection_token_start", "h_matching_connection_token"}
  BY <1>3, <1>11 DEF MatchValue
<1>. QED
  BY <1>5, <1>6, <1>7, <1>8, <1>9, <1>10, <1>11

LEMMA ValueStartIsGood ==
    ASSUME NEW A, NEW req, NothingHeld(A, req), ~ req.p.errno, NEW c \in A
    PROVE  Good(A, s_header_value_start(req, c))
<1>1. PICK q : q = ValueStarts(req.p, c)
  OBVIOUS
<1>2. KeepsMark(req.p, q)
  BY <1>1, ValueStartsIsQuiet DEF NothingHeld, Shaped
<1>3. PICK r : r = [req EXCEPT !.p = q]
  OBVIOUS
<1>4. NothingHeld(A, r) /\ r.p = q
  <2>1. r.p = q
    BY <1>3 DEF NothingHeld, Shaped, RequestFields
  <2>. QED
    BY <1>2, <1>3, <2>1, QuietIdles
<1>5. CASE q.errno
  <2>1. s_header_value_start(req, c) = r
    BY <1>1, <1>3, <1>4, <1>5 DEF s_header_value_start
  <2>. QED
    BY <1>4, <1>5, <2>1 DEF NothingHeld, Good
<1>6. CASE ~ q.errno
  <2>1. PICK m : /\ m = MARK(r, "header_value", c) /\ Shaped(m) /\ Typed(A, m)
                 /\ m.p.mark = "header_value" /\ ~ m.p.errno /\ ~ m.p.exited
    BY <1>4, <1>6, MarkSets DEF NothingHeld
  <2>2. PICK s : s = Go(m, "s_header_value")
    OBVIOUS
  <2>3. /\ Shaped(s) /\ Typed(A, s) /\ s.p.state = "s_header_value"
        /\ s.p.mark = "header_value" /\ ~ s.p.exited
    BY <2>1, <2>2 DEF Go, Shaped, Typed, RequestFields, Parser, ParserFields
  <2>4. Good(A, s)
    BY <2>3, MarksOf DEF Good, Marked
  <2>5. s_header_value_start(req, c) = s
    BY <1>1, <1>3, <1>4, <1>6, <2>1, <2>2 DEF s_header_value_start
  <2>. QED
    BY <2>4, <2>5
<1>. QED
  BY <1>5, <1>6

LEMMA FlagsAreQuiet ==
    ASSUME NEW A, NEW req, NothingHeld(A, req), ~ req.p.errno
    PROVE  /\ NothingHeld(A, [req EXCEPT !.p = WithFlags(@)])
           /\ ~ [req EXCEPT !.p = WithFlags(@)].p.errno
<1>1. PICK q : q = WithFlags(req.p)
  OBVIOUS
<1>2. KeepsMark(req.p, q) /\ q.errno = req.p.errno
  BY <1>1 DEF WithFlags, KeepsMark, NothingHeld, Shaped, Parser, ParserFields
<1>3. [req EXCEPT !.p = q].p = q
  BY DEF NothingHeld, Shaped, RequestFields
<1>. QED
  BY <1>1, <1>2, <1>3, QuietIdles

LEMMA HeaderIsGood ==
    ASSUME NEW A, NEW req, Good(A, req), ~ req.p.errno, ~ req.p.exited, NEW c \in A,
           req.p.state \in HeaderStates \cup {"s_header_field", "s_header_value"}
    PROVE  Good(A, Header(req, c))
<1>1. Shaped(req) /\ Typed(A, req)
  BY DEF Good
<1>2. Good(A, Error(req))
  BY <1>1, ErrorIsReady
<1>3. HeaderStates \subseteq Unmarked \ BodyStates
  BY DEF Unmarked, HeaderStates, BodyStates
<1>4. ASSUME NEW s \in HeaderStates
      PROVE  req.p.mark \in DataKinds => Good(A, CALLBACK_DATA(Go(req, s)))
  BY <1>1, <1>3, DeliveredIsGood
<1>5. CASE req.p.state = "s_header_field"
  <2>1. req.p.mark = "header_field"
    BY <1>5, MarksOf DEF Good, BodyStates
  <2>2. Good(A, Collect([req EXCEPT !.p = MatchField(req.p, c)], c))
    <3>1. PICK q : q = MatchField(req.p, c)
      OBVIOUS
    <3>2. KeepsMark(req.p, q) /\ q.state = req.p.state /\ q.errno = req.p.errno
      BY <1>1, <3>1, FieldMatchIsQuiet DEF Shaped
    <3>3. PICK r : r = [req EXCEPT !.p = q]
      OBVIOUS
    <3>4. Shaped(r) /\ Typed(A, r) /\ r.p = q
      BY <1>1, <3>2, <3>3 DEF Shaped, Typed, RequestFields, KeepsMark
    <3>5. PICK s : /\ s = Collect(r, c) /\ Shaped(s) /\ Typed(A, s) /\ s.p.mark = r.p.mark
                   /\ s.p.state = r.p.state /\ s.p.exited = r.p.exited
      BY <3>4, CollectAdds
    <3>6. Good(A, s)
      BY <1>5, <2>1, <3>2, <3>4, <3>5, MarksOf DEF Good, Marked, KeepsMark
    <3>. QED
      BY <3>1, <3>3, <3>5, <3>6
  <2>3. Good(A, CALLBACK_DATA(Go(req, "s_header_value_discard_ws")))
    BY <1>4, <2>1 DEF HeaderStates, DataKinds
  <2>4. Header(req, c) = s_header_field(req, c)
    BY <1>5 DEF Header
  <2>5. CASE c \notin NoToken
    <3>1. s_header_field(req, c) = Collect([req EXCEPT !.p = MatchField(req.p, c)], c)
      BY <2>5 DEF s_header_field, NoToken
    <3>. QED
      BY <2>2, <2>4, <3>1
  <2>6. CASE c \in NoToken
    <3>1. s_header_field(req, c) \in {CALLBACK_DATA(Go(req, "s_header_value_discard_ws")), Error(req)}
      BY <2>6 DEF s_header_field
    <3>. QED
      BY <1>2, <2>3, <2>4, <3>1
  <2>. QED
    BY <2>5, <2>6
<1>6. CASE req.p.state = "s_header_value"
  <2>1. req.p.mark = "header_value"
    BY <1>6, MarksOf DEF Good, BodyStates
  <2>2. Good(A, Collect([req EXCEPT !.p = MatchValue(req.p, c)], c))
    <3>1. PICK q : q = MatchValue(req.p, c)
      OBVIOUS
    <3>2. KeepsMark(req.p, q) /\ q.state = req.p.state
      BY <1>1, <3>1, ValueMatchIsQuiet DEF Shaped
    <3>3. PICK r : r = [req EXCEPT !.p = q]
      OBVIOUS
    <3>4. Shaped(r) /\ Typed(A, r) /\ r.p = q
      BY <1>1, <3>2, <3>3 DEF Shaped, Typed, RequestFields, KeepsMark
    <3>5. PICK s : /\ s = Collect(r, c) /\ Shaped(s) /\ Typed(A, s) /\ s.p.mark = r.p.mark
                   /\ s.p.state = r.p.state /\ s.p.exited = r.p.exited
      BY <3>4, CollectAdds
    <3>6. Good(A, s)
      BY <1>6, <2>1, <3>2, <3>4, <3>5, MarksOf DEF Good, Marked, KeepsMark
    <3>. QED
      BY <3>1, <3>3, <3>5, <3>6
  <2>3. /\ Good(A, CALLBACK_DATA(Go(req, "s_header_almost_done")))
        /\ Good(A, CALLBACK_DATA(Go(req, "s_header_value_lws")))
    BY <1>4, <2>1 DEF HeaderStates, DataKinds
  <2>4. Header(req, c) = s_header_value(req, c)
    BY <1>6 DEF Header
  <2>5. s_header_value(req, c) \in
           {CALLBACK_DATA(Go(req, "s_header_almost_done")), CALLBACK_DATA(Go(req, "s_header_value_lws")),
            Collect([req EXCEPT !.p = MatchValue(req.p, c)], c)}
    BY DEF s_header_value, CR, LF
  <2>. QED
    BY <2>2, <2>3, <2>4, <2>5
<1>7. ASSUME req.p.state \in HeaderStates PROVE BetweenData(A, req)
  BY <1>3, <1>7, Idles
<1>8. ASSUME req.p.state \in HeaderStates, NEW s \in HeaderStates, NEW ok
      PROVE  Good(A, Expect(req, ok, s)) /\ Good(A, Go(req, s))
  BY <1>3, <1>7, <1>8, ExpectIsReady, GoIsReady, ReadyIsGood DEF BetweenData
<1>9. PICK w : w = [req EXCEPT !.p = WithFlags(@)]
  OBVIOUS
<1>10. ASSUME req.p.state \in HeaderStates PROVE NothingHeld(A, w) /\ ~ w.p.errno
  BY <1>7, <1>9, <1>10, FlagsAreQuiet DEF BetweenData
<1>11. CASE req.p.state = "s_header_field_start"
  <2>1. NothingHeld(A, req)
    BY <1>7, <1>11 DEF HeaderStates, BetweenData
  <2>. QED
    BY <1>11, <2>1, FieldStartIsGood DEF Header
<1>12. CASE req.p.state = "s_header_value_discard_ws"
  <2>1. NothingHeld(A, req)
    BY <1>7, <1>12 DEF HeaderStates, BetweenData
  <2>2. Header(req, c) \in {req, Go(req, "s_header_value_discard_ws_almost_done"),
                            Go(req, "s_header_value_discard_lws"), s_header_value_start(req, c)}
    BY <1>12 DEF Header, s_header_value_discard_ws, CR, LF
  <2>. QED
    BY <1>8, <1>12, <2>1, <2>2, ValueStartIsGood DEF HeaderStates
<1>13. CASE req.p.state = "s_header_value_discard_ws_almost_done"
  BY <1>8, <1>13 DEF HeaderStates, Header
<1>14. CASE req.p.state = "s_header_value_discard_lws"
  <2>1. NothingHeld(A, w) /\ ~ w.p.errno /\ req.p.state \in HeaderStates
    BY <1>10, <1>14 DEF HeaderStates
  <2>2. PICK n : n = CALLBACK_NOTIFY(w, "header_value")
    OBVIOUS
  <2>3. NothingHeld(A, n) /\ ~ n.p.errno
    <3>1. <<>> \in Seq(A) /\ Shaped(w) /\ Typed(A, w)
      BY <2>1, EmptySeq DEF NothingHeld
    <3>2. Shaped(n) /\ Typed(A, n) /\ n.p = w.p
      BY <2>2, <3>1, CallbackTyped DEF CALLBACK_NOTIFY, DataKinds
    <3>. QED
      BY <2>1, <3>2 DEF NothingHeld
  <2>4. Good(A, s_header_field_start(n, c))
    BY <2>3, FieldStartIsGood
  <2>5. Header(req, c) \in {Go(req, "s_header_value_discard_ws"), Error(req), s_header_field_start(n, c)}
    BY <1>9, <1>14, <2>2 DEF Header, s_header_value_discard_lws
  <2>6. Good(A, Go(req, "s_header_value_discard_ws"))
    BY <1>8, <2>1 DEF HeaderStates
  <2>. QED
    BY <1>2, <2>4, <2>5, <2>6
<1>15. CASE req.p.state = "s_header_almost_done"
  BY <1>8, <1>15 DEF HeaderStates, Header
<1>16. CASE req.p.state = "s_header_value_lws"
  <2>1. NothingHeld(A, req) /\ NothingHeld(A, w) /\ ~ w.p.errno
    BY <1>7, <1>10, <1>16 DEF HeaderStates, BetweenData
  <2>2. PICK l : l = [req EXCEPT !.p.header_state = "h_content_length_ws"]
    OBVIOUS
  <2>3. NothingHeld(A, l) /\ ~ l.p.errno
    BY <2>1, <2>2 DEF NothingHeld, Shaped, Typed, RequestFields, Parser, ParserFields
  <2>4. /\ Good(A, s_header_value_start(l, c)) /\ Good(A, s_header_value_start(req, c))
        /\ Good(A, s_header_field_start(w, c))
    BY <2>1, <2>3, ValueStartIsGood, FieldStartIsGood
  <2>5. Header(req, c) \in {s_header_value_start(l, c), s_header_value_start(req, c),
                            s_header_field_start(w, c)}
    BY <1>9, <1>16, <2>2 DEF Header, s_header_value_lws
  <2>. QED
    BY <2>4, <2>5
<1>17. CASE req.p.state = "s_headers_almost_done"
  <2>1. NothingHeld(A, req)
    BY <1>7, <1>17 DEF HeaderStates, BetweenData
  <2>. QED
    BY <1>17, <2>1, HeadersAlmostDoneIsGood DEF Header
<1>. QED
  BY <1>5, <1>6, <1>11, <1>12, <1>13, <1>14, <1>15, <1>16, <1>17 DEF HeaderStates
-----------------------------------------------------------------------------
(* The body. *)
LEMMA SizeIsGood ==
    ASSUME NEW A, NEW req, BetweenData(A, req), ~ req.p.errno, NEW c
    PROVE  Good(A, Size(req, c))
<1>1. PICK q : q = Number(req.p, c, 16, Hex)
  OBVIOUS
<1>2. KeepsMark(req.p, q) /\ q.state = req.p.state
  BY <1>1, NumberIsQuiet DEF BetweenData, NothingHeld, Shaped
<1>3. BetweenData(A, [req EXCEPT !.p = q])
  BY <1>2, QuietIdles DEF BetweenData
<1>. QED
  BY <1>1, <1>3, ReadyIsGood DEF Size

LEMMA BodyCharMarks ==
    ASSUME NEW A, NEW req, Good(A, req), ~ req.p.errno, req.p.state \in BodyStates, NEW c \in A
    PROVE  LET r == BodyChar(req, c)
           IN /\ Shaped(r) /\ Typed(A, r) /\ r.p.mark = "body"
              /\ r.p.errno = req.p.errno /\ r.p.exited = req.p.exited /\ r.p.state = req.p.state
<1>1. Shaped(req) /\ Typed(A, req)
  BY DEF Good
<1>2. PICK m : m = IF req.p.mark = "body" THEN Collect(req, c) ELSE MARK(req, "body", c)
  OBVIOUS
<1>3. /\ Shaped(m) /\ Typed(A, m) /\ m.p.mark = "body" /\ m.p.errno = req.p.errno
      /\ m.p.exited = req.p.exited /\ m.p.state = req.p.state
  <2>1. CASE req.p.mark = "body"
    BY <1>1, <1>2, <2>1, CollectAdds
  <2>2. CASE req.p.mark # "body"
    BY <1>1, <1>2, <2>2, MarkSets
  <2>. QED
    BY <2>1, <2>2
<1>4. PICK r : r = BodyChar(req, c) /\ r = [m EXCEPT !.p.content_length = @ - 1]
  BY <1>2 DEF BodyChar
<1>5. /\ Shaped(r) /\ Typed(A, r) /\ r.p.mark = "body" /\ r.p.errno = req.p.errno
      /\ r.p.exited = req.p.exited /\ r.p.state = req.p.state
  BY <1>3, <1>4 DEF Shaped, Typed, RequestFields, Parser, ParserFields
<1>. QED
  BY <1>4, <1>5

LEMMA BodyIsGood ==
    ASSUME NEW A, NEW req, Good(A, req), ~ req.p.errno, ~ req.p.exited, NEW c \in A,
           req.p.state = "s_body_identity"
    PROVE  Good(A, s_body_identity(req, c))
<1>1. PICK r : /\ r = BodyChar(req, c) /\ Shaped(r) /\ Typed(A, r) /\ r.p.mark = "body"
               /\ ~ r.p.errno /\ ~ r.p.exited /\ r.p.state = "s_body_identity"
  BY BodyCharMarks DEF BodyStates
<1>2. Good(A, r)
  BY <1>1 DEF Good, Unmarked, BodyStates
<1>3. Good(A, s_message_done(CALLBACK_DATA(r)))
  BY <1>1, DeliveredIdles, MessageDoneIsGood DEF DataKinds
<1>. QED
  BY <1>1, <1>2, <1>3 DEF s_body_identity

LEMMA ChunkIsGood ==
    ASSUME NEW A, NEW req, Good(A, req), ~ req.p.errno, ~ req.p.exited, NEW c \in A,
           req.p.state \in ChunkStates
    PROVE  Good(A, Chunk(req, c))
<1>1. ChunkStates \cup {"s_header_field_start"} \subseteq Unmarked
  BY DEF Unmarked, HeaderStates
<1>2. Good(A, Error(req)) /\ Shaped(req) /\ Typed(A, req)
  BY ErrorIsReady DEF Good
<1>3. ASSUME req.p.state \notin BodyStates PROVE BetweenData(A, req)
  BY <1>1, <1>3, Idles
<1>4. ASSUME req.p.state \notin BodyStates, NEW s \in ChunkStates, NEW ok
      PROVE  Good(A, Go(req, s)) /\ Good(A, Expect(req, ok, s))
  BY <1>1, <1>3, <1>4, ExpectIsReady, GoIsReady, ReadyIsGood DEF BetweenData
<1>5. CASE req.p.state = "s_chunk_size_start"
  <2>1. BetweenData(A, req)
    BY <1>3, <1>5 DEF BodyStates
  <2>2. PICK r : r = Go([req EXCEPT !.p.content_length = 0], "s_chunk_size")
    OBVIOUS
  <2>3. BetweenData(A, r) /\ ~ r.p.errno
    <3>1. /\ Shaped(r) /\ Typed(A, r) /\ r.p.mark = req.p.mark /\ r.p.text = req.p.text
          /\ r.p.exited = req.p.exited /\ r.p.errno = req.p.errno /\ r.p.state = "s_chunk_size"
      BY <1>2, <2>2 DEF Go, Shaped, Typed, RequestFields, Parser, ParserFields
    <3>. QED
      BY <1>1, <2>1, <3>1 DEF BetweenData, NothingHeld, ChunkStates
  <2>. QED
    BY <1>5, <2>2, <2>3, SizeIsGood DEF Chunk
<1>6. CASE req.p.state = "s_chunk_size"
  <2>1. Good(A, Size(req, c))
    BY <1>3, <1>6, SizeIsGood DEF BodyStates
  <2>2. /\ Good(A, Go(req, "s_chunk_size_almost_done")) /\ Good(A, Go(req, "s_chunk_parameters"))
    BY <1>4, <1>6 DEF ChunkStates, BodyStates
  <2>3. Chunk(req, c) \in {Size(req, c), Go(req, "s_chunk_size_almost_done"),
                           Go(req, "s_chunk_parameters")}
    BY <1>6 DEF Chunk, CR
  <2>. QED
    BY <2>1, <2>2, <2>3
<1>7. CASE req.p.state = "s_chunk_parameters"
  BY <1>4, <1>7 DEF Chunk, ChunkStates, BodyStates
<1>8. CASE req.p.state = "s_chunk_size_almost_done"
  <2>1. BetweenData(A, req)
    BY <1>3, <1>8 DEF BodyStates
  <2>2. PICK r : r = [req EXCEPT !.p.flags = @ \cup {"F_TRAILING"}]
    OBVIOUS
  <2>3. NothingHeld(A, r)
    BY <2>1, <2>2 DEF BetweenData, NothingHeld, Shaped, Typed, RequestFields, Parser, ParserFields
  <2>4. Good(A, Go(r, "s_header_field_start")) /\ Good(A, Go(req, "s_chunk_data"))
    BY <1>1, <2>1, <2>3, GoIsReady, ReadyIsGood DEF BetweenData, ChunkStates
  <2>5. s_chunk_size_almost_done(req) \in {Go(r, "s_header_field_start"), Go(req, "s_chunk_data")}
    BY <2>2 DEF s_chunk_size_almost_done
  <2>. QED
    BY <1>2, <1>8, <2>4, <2>5 DEF Chunk
<1>9. CASE req.p.state = "s_chunk_data"
  <2>1. PICK r : /\ r = BodyChar(req, c) /\ Shaped(r) /\ Typed(A, r) /\ r.p.mark = "body"
                 /\ ~ r.p.errno /\ ~ r.p.exited /\ r.p.state = "s_chunk_data"
    BY <1>9, BodyCharMarks DEF BodyStates
  <2>2. PICK g : g = Go(r, "s_chunk_data_almost_done")
    OBVIOUS
  <2>3. /\ Shaped(g) /\ Typed(A, g) /\ g.p.mark = "body" /\ ~ g.p.exited
        /\ g.p.state = "s_chunk_data_almost_done"
    BY <2>1, <2>2 DEF Go, Shaped, Typed, RequestFields, Parser, ParserFields
  <2>4. Good(A, r) /\ Good(A, g)
    BY <1>1, <2>1, <2>3 DEF Good, ChunkStates, BodyStates
  <2>. QED
    BY <1>9, <2>1, <2>2, <2>4 DEF Chunk, s_chunk_data
<1>10. CASE req.p.state = "s_chunk_data_almost_done"
  <2>1. req.p.mark \in DataKinds
    BY <1>1, <1>10, MarksOf DEF Good, DataKinds
  <2>2. Good(A, CALLBACK_DATA(Go(req, "s_chunk_data_done")))
    BY <1>1, <1>2, <2>1, DeliveredIsGood DEF ChunkStates
  <2>. QED
    BY <1>2, <1>10, <2>2 DEF Chunk
<1>11. CASE req.p.state = "s_chunk_data_done"
  BY <1>4, <1>11 DEF Chunk, ChunkStates, BodyStates
<1>. QED
  BY <1>5, <1>6, <1>7, <1>8, <1>9, <1>10, <1>11 DEF ChunkStates
-----------------------------------------------------------------------------
LEMMA CharIsGood ==
    ASSUME NEW A, NEW req, Good(A, req), NEW c \in A
    PROVE  Good(A, Char(req, c))
<1>1. CASE req.p.errno
  BY <1>1 DEF Char
<1>2. CASE ~ req.p.errno /\ req.p.exited
  BY <1>2, ErrorIsReady DEF Char, Good
<1>3. CASE ~ req.p.errno /\ ~ req.p.exited
  <2>. DEFINE s == req.p.state
  <2>1. Char(req, c) = Reads(req, c)
    BY <1>3 DEF Char
  <2>2. ASSUME s \in Unmarked \ BodyStates PROVE BetweenData(A, req)
    BY <1>3, <2>2, Idles
  <2>3. s \in {"s_dead", "s_start_req", "s_req_method", UrlStart, "s_req_line_almost_done",
               "s_body_identity"}
           \cup VersionStates \cup ChunkStates \cup UrlStates
           \cup (HeaderStates \cup {"s_header_field", "s_header_value"})
    BY <1>3 DEF Good, Unmarked, Marked
  <2>4. CASE s \in {"s_dead", "s_start_req", "s_req_method", UrlStart, "s_req_line_almost_done"}
    <3>1. BetweenData(A, req) /\ Good(A, Error(req))
      BY <2>2, <2>4, ErrorIsReady DEF Good, Unmarked, BodyStates, UrlStart
    <3>2. Good(A, Expect(req, c = LF, "s_header_field_start"))
      BY <3>1, ExpectIsReady, ReadyIsGood DEF BetweenData, Unmarked, HeaderStates
    <3>3. Reads(req, c) \in {req, Error(req), s_start_req(req, c), s_req_method(req, c),
                             s_req_spaces_before_url(req, c),
                             Expect(req, c = LF, "s_header_field_start")}
      BY <2>4 DEF Reads, UrlStart, UrlStates, VersionStates, ChunkStates
    <3>. QED
      BY <1>3, <2>1, <3>1, <3>2, <3>3, StartIsGood, MethodIsGood, UrlStartsIsGood
  <2>5. CASE s = "s_body_identity"
    <3>1. Reads(req, c) = s_body_identity(req, c)
      BY <2>5 DEF Reads, UrlStart, UrlStates, VersionStates, ChunkStates
    <3>. QED
      BY <1>3, <2>1, <2>5, <3>1, BodyIsGood
  <2>6. CASE s \in VersionStates
    <3>1. Reads(req, c) = HttpVersion(req, c)
      BY <2>6 DEF Reads, UrlStart, UrlStates, VersionStates, ChunkStates
    <3>2. BetweenData(A, req)
      BY <2>2, <2>6 DEF Unmarked, BodyStates, VersionStates
    <3>. QED
      BY <1>3, <2>1, <2>6, <3>1, <3>2, VersionIsGood
  <2>7. CASE s \in ChunkStates
    <3>1. Reads(req, c) = Chunk(req, c)
      BY <2>7 DEF Reads, UrlStart, UrlStates, VersionStates, ChunkStates
    <3>. QED
      BY <1>3, <2>1, <2>7, <3>1, ChunkIsGood
  <2>8. CASE s \in UrlStates
    <3>1. Reads(req, c) = UrlState(req, c)
      BY <2>8 DEF Reads, UrlStart, UrlStates, VersionStates, ChunkStates
    <3>. QED
      BY <1>3, <2>1, <2>8, <3>1, UrlIsGood
  <2>9. CASE s \in HeaderStates \cup {"s_header_field", "s_header_value"}
    <3>1. Reads(req, c) = Header(req, c)
      BY <2>9 DEF Reads, UrlStart, UrlStates, VersionStates, ChunkStates, HeaderStates
    <3>. QED
      BY <1>3, <2>1, <2>9, <3>1, HeaderIsGood
  <2>. QED
    BY <2>3, <2>4, <2>5, <2>6, <2>7, <2>8, <2>9
<1>. QED
  BY <1>1, <1>2, <1>3
-----------------------------------------------------------------------------
(* Two parsers that read the same: a in one piece, b with a cut, where t was *)
(* delivered; a has still to deliver it with what came since, which is u.   *)
Cut(p, m, u) == [p EXCEPT !.mark = m, !.text = u]

Parted(A, a, b, t, u, m) ==
    /\ Good(A, a) /\ ~ a.p.errno /\ ~ a.p.exited /\ a.p.mark # "none"
    /\ t \in Seq(A) /\ u \in Seq(A) /\ a.p.text = t \o u
    /\ \/ m = a.p.mark
       \/ a.p.mark = "body" /\ m = "none" /\ u = <<>>
    /\ b = [Callback(a, a.p.mark, t) EXCEPT !.p = Cut(a.p, m, u)]

Apart(A, a, b) == \E t, u, m : Parted(A, a, b, t, u, m)
BothFail(a, b) == Shaped(a) /\ Shaped(b) /\ a.p.errno /\ b.p.errno
Same(A, a, b) == a = b \/ BothFail(a, b) \/ Apart(A, a, b)

LEMMA ApartFacts ==
    ASSUME NEW A, NEW a, NEW b, NEW t, NEW u, NEW m, Parted(A, a, b, t, u, m)
    PROVE  /\ Shaped(a) /\ Typed(A, a) /\ a.p.mark \in DataKinds
           /\ Shaped(b) /\ b.p = Cut(a.p, m, u) /\ b.p.mark = m /\ b.p.text = u
           /\ \A x \in ParserFields \ {"mark", "text"} : b.p[x] = a.p[x]
           /\ \A x \in RequestFields \ {"p"} : b[x] = Callback(a, a.p.mark, t)[x]
<1>1. Shaped(a) /\ Typed(A, a) /\ a.p.mark \in DataKinds
  <2>1. a.p.state \in Unmarked \/ a.p.state \in UrlStates
          \/ a.p.state \in {"s_header_field", "s_header_value"}
    BY DEF Parted, Good, Marked
  <2>. QED
    BY <2>1, MarksOf DEF Parted, Good, DataKinds
<1>2. PICK r : r = Callback(a, a.p.mark, t) /\ Shaped(r) /\ r.p = a.p
  BY <1>1, CallbackTyped DEF Parted
<1>3. PICK q : q = Cut(a.p, m, u)
  OBVIOUS
<1>4. /\ Parser(q) /\ q.mark = m /\ q.text = u
      /\ \A x \in ParserFields \ {"mark", "text"} : q[x] = a.p[x]
  BY <1>1, <1>3 DEF Cut, Shaped, Parser, ParserFields
<1>5. b = [r EXCEPT !.p = q]
  BY <1>2, <1>3 DEF Parted
<1>6. Shaped(b) /\ b.p = q /\ \A x \in RequestFields \ {"p"} : b[x] = r[x]
  BY <1>2, <1>4, <1>5 DEF Shaped, RequestFields
<1>. QED
  BY <1>1, <1>2, <1>3, <1>4, <1>6

(* What has been read in parts is delivered in parts, which comes to the same. *)
LEMMA Delivers ==
    ASSUME NEW A, NEW a, NEW b, NEW t, NEW u, NEW m, Parted(A, a, b, t, u, m),
           NEW q, KeepsMark(a.p, q), q.errno = a.p.errno, q.method = a.p.method
    PROVE  CALLBACK_DATA([a EXCEPT !.p = q]) = CALLBACK_DATA([b EXCEPT !.p = Cut(q, m, u)])
<1>1. /\ Shaped(a) /\ Typed(A, a) /\ a.p.mark \in DataKinds /\ Shaped(b) /\ ~ a.p.errno
      /\ t \in Seq(A) /\ u \in Seq(A) /\ a.p.text = t \o u
  BY ApartFacts DEF Parted
<1>2. PICK z : z = Cut(q, "none", <<>>)
  OBVIOUS
<1>3. (z.errno <=> a.p.errno) /\ z.method = a.p.method
  BY <1>2 DEF Cut, KeepsMark, Parser, ParserFields
<1>4. PICK r : r = Callback(a, a.p.mark, t) /\ Shaped(r) /\ Typed(A, r) /\ r.p = a.p
  BY <1>1, CallbackTyped
<1>5. PICK w : w = Callback(a, a.p.mark, t \o u) /\ w = Callback(r, a.p.mark, u)
  BY <1>1, <1>4, CallbackTwice
<1>6. CALLBACK_DATA([a EXCEPT !.p = q]) = [w EXCEPT !.p = z]
  <2>1. PICK s : s = [a EXCEPT !.p = q]
    OBVIOUS
  <2>2. s.p = q /\ s.p.mark = a.p.mark /\ s.p.text = a.p.text
    BY <1>1, <2>1 DEF Shaped, RequestFields, KeepsMark
  <2>3. [s EXCEPT !.p.mark = "none", !.p.text = <<>>] = [a EXCEPT !.p = z]
    BY <1>1, <1>2, <2>1, <2>2 DEF Cut, Shaped, RequestFields
  <2>4. CALLBACK_DATA(s) = Callback([a EXCEPT !.p = z], a.p.mark, t \o u)
    BY <1>1, <2>2, <2>3 DEF CALLBACK_DATA
  <2>5. Callback([a EXCEPT !.p = z], a.p.mark, t \o u) = [w EXCEPT !.p = z]
    <3>1. ASSUME NEW g
          PROVE  Callback([a EXCEPT !.p = z], a.p.mark, g) = [Callback(a, a.p.mark, g) EXCEPT !.p = z]
      BY <1>1, <1>3, CallbackMoves
    <3>. QED
      BY <1>5, <3>1
  <2>. QED
    BY <2>1, <2>4, <2>5
<1>7. CALLBACK_DATA([b EXCEPT !.p = Cut(q, m, u)]) = Callback([r EXCEPT !.p = z], m, u)
  <2>1. PICK s, y : y = Cut(q, m, u) /\ s = [b EXCEPT !.p = y]
    OBVIOUS
  <2>2. y.mark = m /\ y.text = u /\ [y EXCEPT !.mark = "none", !.text = <<>>] = z
    BY <1>2, <2>1 DEF Cut, KeepsMark, Parser, ParserFields
  <2>3. b = [r EXCEPT !.p = Cut(a.p, m, u)]
    BY <1>4 DEF Parted
  <2>4. s = [r EXCEPT !.p = y] /\ s.p = y
    BY <1>4, <2>1, <2>3 DEF Shaped, RequestFields
  <2>5. [s EXCEPT !.p.mark = "none", !.p.text = <<>>] = [r EXCEPT !.p = z]
    BY <1>4, <2>2, <2>4 DEF Shaped, RequestFields
  <2>. QED
    BY <2>1, <2>2, <2>4, <2>5 DEF CALLBACK_DATA
<1>8. Callback([r EXCEPT !.p = z], m, u) = [w EXCEPT !.p = z]
  <2>1. CASE m = a.p.mark
    BY <1>1, <1>3, <1>4, <1>5, <2>1, CallbackMoves
  <2>2. CASE m # a.p.mark
    <3>1. m = "none" /\ u = <<>>
      BY <2>2 DEF Parted
    <3>2. t \o u = t
      BY <1>1, <3>1, ConcatEmptySeq
    <3>3. Callback([r EXCEPT !.p = z], m, u) = [Callback(r, m, u) EXCEPT !.p = z]
      BY <1>3, <1>4, <3>1, CallbackMoves DEF DataKinds
    <3>4. Callback(r, m, u) = r
      BY <3>1 DEF Callback
    <3>. QED
      BY <1>4, <1>5, <3>2, <3>3, <3>4
  <2>. QED
    BY <2>1, <2>2
<1>. QED
  BY <1>6, <1>7, <1>8

(* One more character is collected. *)
LEMMA GoesOn ==
    ASSUME NEW A, NEW a, NEW b, NEW t, NEW u, NEW m, Parted(A, a, b, t, u, m), NEW c \in A,
           NEW q, KeepsMark(a.p, q), q.method = a.p.method,
           Good(A, [a EXCEPT !.p = Cut(q, a.p.mark, Append(a.p.text, c))])
    PROVE  Same(A, [a EXCEPT !.p = Cut(q, a.p.mark, Append(a.p.text, c))],
                   [b EXCEPT !.p = Cut(q, a.p.mark, Append(u, c))])
<1>1. PICK x, y : x = Cut(q, a.p.mark, Append(a.p.text, c)) /\ y = Cut(q, a.p.mark, Append(u, c))
  OBVIOUS
<1>2. PICK d, e : d = [a EXCEPT !.p = x] /\ e = [b EXCEPT !.p = y]
  OBVIOUS
<1>3. /\ Shaped(a) /\ Typed(A, a) /\ a.p.mark \in DataKinds /\ Shaped(b)
  BY ApartFacts
<1>4. /\ Parser(x) /\ x.mark = a.p.mark /\ x.text = Append(a.p.text, c) /\ x.errno = q.errno
      /\ x.method = a.p.method /\ x.exited = a.p.exited /\ Parser(y) /\ y.errno = q.errno
  BY <1>1 DEF Cut, KeepsMark, Parser, ParserFields
<1>5. d.p = x /\ e.p = y /\ Shaped(d) /\ Shaped(e)
  BY <1>2, <1>3, <1>4 DEF Shaped, RequestFields
<1>6. CASE q.errno
  BY <1>1, <1>2, <1>4, <1>5, <1>6 DEF Same, BothFail
<1>7. CASE ~ q.errno
  <2>1. PICK v \in Seq(A) : v = Append(u, c)
    BY AppendProperties DEF Parted
  <2>2. Append(a.p.text, c) = t \o v
    <3>1. Append(t \o u, c) = (t \o u) \o <<c>> /\ Append(u, c) = u \o <<c>>
      <4>1. t \in Seq(A) /\ u \in Seq(A)
        BY DEF Parted
      <4>. QED
        BY <4>1, ConcatProperties, AppendIsConcat
    <3>2. \A s \in Seq(A) : (t \o u) \o s = t \o (u \o s)
      BY ConcatAssociative, SMTT(30) DEF Parted
    <3>3. <<c>> \in Seq(A)
      OBVIOUS
    <3>. QED
      BY <2>1, <3>1, <3>2, <3>3 DEF Parted
  <2>3. PICK r : r = Callback(a, a.p.mark, t) /\ Shaped(r) /\ r.p = a.p
    BY <1>3, CallbackTyped DEF Parted
  <2>4. Callback(d, a.p.mark, t) = [r EXCEPT !.p = x]
    <3>1. x.errno <=> a.p.errno
      BY <1>4, <1>7 DEF Parted
    <3>. QED
      BY <1>2, <1>3, <1>4, <2>3, <3>1, CallbackMoves
  <2>5. b = [r EXCEPT !.p = Cut(a.p, m, u)]
    BY <2>3 DEF Parted
  <2>6. e = [Callback(d, a.p.mark, t) EXCEPT !.p = Cut(x, a.p.mark, v)]
    <3>1. Cut(x, a.p.mark, v) = y
      BY <1>1, <2>1 DEF Cut, KeepsMark, Parser, ParserFields
    <3>. QED
      BY <1>2, <2>3, <2>4, <2>5, <3>1 DEF Shaped, RequestFields
  <2>7. /\ ~ d.p.errno /\ ~ d.p.exited /\ d.p.mark = a.p.mark /\ a.p.mark # "none"
        /\ t \in Seq(A) /\ d.p.text = t \o v
    BY <1>4, <1>5, <1>7, <2>2 DEF Parted
  <2>8. Good(A, d)
    BY <1>1, <1>2
  <2>9. Parted(A, d, e, t, v, a.p.mark)
    <3>1. e = [Callback(d, d.p.mark, t) EXCEPT !.p = Cut(d.p, d.p.mark, v)]
      BY <1>5, <2>6, <2>7
    <3>2. Parted(A, d, e, t, v, d.p.mark)
      BY <2>1, <2>7, <2>8, <3>1 DEF Parted
    <3>. QED
      BY <2>7, <3>2
  <2>. QED
    BY <1>1, <1>2, <2>9 DEF Same, Apart
<1>. QED
  BY <1>6, <1>7
-----------------------------------------------------------------------------
(* What the handlers that collect do, told of the parser alone. *)
LEMMA CollectIs ==
    ASSUME NEW req, Shaped(req), NEW q, Parser(q), q.mark # "none", NEW c
    PROVE  Collect([req EXCEPT !.p = q], c)
             = [req EXCEPT !.p = Cut(q, q.mark, Append(q.text, c))]
<1>0. PICK r : r = [req EXCEPT !.p = q]
  OBVIOUS
<1>1. r = [req EXCEPT !.p = q] /\ r.p = q
  BY <1>0 DEF Shaped, RequestFields
<1>2. Collect(r, c) = [r EXCEPT !.p = [q EXCEPT !.text = Append(q.text, c)]]
  BY <1>1 DEF Collect
<1>3. [q EXCEPT !.text = Append(q.text, c)] = Cut(q, q.mark, Append(q.text, c))
  BY DEF Cut, Parser, ParserFields
<1>. QED
  BY <1>1, <1>2, <1>3 DEF Shaped, RequestFields

LEMMA FieldMatchOfCut ==
    ASSUME NEW p, Parser(p), NEW m, NEW u, NEW c
    PROVE  MatchField(Cut(p, m, u), c) = Cut(MatchField(p, c), m, u)
<1>1. PICK q : q = Cut(p, m, u)
  OBVIOUS
<1>2. q.index = p.index /\ q.header_state = p.header_state
  BY <1>1 DEF Cut, Parser, ParserFields
<1>. QED
  BY <1>1, <1>2 DEF MatchField, Cut, Parser, ParserFields

LEMMA ValueMatchOfCut ==
    ASSUME NEW p, Parser(p), NEW m, NEW u, NEW c
    PROVE  MatchValue(Cut(p, m, u), c) = Cut(MatchValue(p, c), m, u)
<1>1. PICK q : q = Cut(p, m, u)
  OBVIOUS
<1>2. /\ q.index = p.index /\ q.header_state = p.header_state /\ q.flags = p.flags
      /\ q.content_length = p.content_length /\ Parser(q)
  BY <1>1 DEF Cut, Parser, ParserFields
<1>3. ASSUME NEW h PROVE [q EXCEPT !.header_state = h] = Cut([p EXCEPT !.header_state = h], m, u)
  BY <1>1 DEF Cut, Parser, ParserFields
<1>4. MatchToken(q, c) = Cut(MatchToken(p, c), m, u)
  BY <1>1, <1>2 DEF MatchToken, Cut, Parser, ParserFields
<1>5. Number(q, c, 10, Digits) = Cut(Number(p, c, 10, Digits), m, u)
  BY <1>1, <1>2 DEF Number, SET_ERRNO, Cut, Parser, ParserFields
<1>6. SET_ERRNO(q) = Cut(SET_ERRNO(p), m, u) /\ NextToken(q) = Cut(NextToken(p), m, u)
  BY <1>1, <1>2 DEF NextToken, SET_ERRNO, Cut, Parser, ParserFields
<1>7. NextToken(WithFlags(q)) = Cut(NextToken(WithFlags(p)), m, u)
  <2>1. FlagsOf(q) = FlagsOf(p)
    BY <1>2 DEF FlagsOf
  <2>. QED
    BY <1>1, <1>2, <2>1 DEF NextToken, WithFlags, Cut, Parser, ParserFields
<1>. DEFINE Fine == MatchValue(q, c) = Cut(MatchValue(p, c), m, u)
<1>. SUFFICES Fine
  BY <1>1
<1>8. CASE p.header_state = "h_content_length_num"
  <2>1. CASE c = " "
    BY <1>2, <1>3, <1>8, <2>1 DEF MatchValue
  <2>2. CASE c # " "
    BY <1>2, <1>5, <1>8, <2>2 DEF MatchValue
  <2>. QED
    BY <2>1, <2>2
<1>9. CASE p.header_state = "h_content_length_ws"
  BY <1>1, <1>2, <1>6, <1>9 DEF MatchValue
<1>10. CASE p.header_state = "h_transfer_encoding_chunked"
  BY <1>1, <1>2, <1>3, <1>10 DEF MatchValue
<1>11. CASE p.header_state = "h_matching_connection_token_start"
  <2>1. CASE c = " "
    BY <1>1, <1>2, <1>11, <2>1 DEF MatchValue
  <2>2. CASE c # " " /\ c \in NoToken
    BY <1>2, <1>3, <1>11, <2>2 DEF MatchValue
  <2>3. CASE c # " " /\ c \notin NoToken
    BY <1>2, <1>4, <1>11, <2>3 DEF MatchValue
  <2>. QED
    BY <2>1, <2>2, <2>3
<1>12. CASE p.header_state = "h_matching_connection"
  <2>1. CASE p.index \notin DOMAIN ConnectionTokens
    BY <1>2, <1>4, <1>12, <2>1 DEF MatchValue
  <2>2. CASE p.index \in DOMAIN ConnectionTokens /\ c = ","
    BY <1>2, <1>7, <1>12, <2>2 DEF MatchValue
  <2>3. CASE p.index \in DOMAIN ConnectionTokens /\ c = " "
    BY <1>1, <1>2, <1>12, <2>3 DEF MatchValue
  <2>4. CASE p.index \in DOMAIN ConnectionTokens /\ c \notin {",", " "}
    BY <1>2, <1>3, <1>12, <2>4 DEF MatchValue
  <2>. QED
    BY <2>1, <2>2, <2>3, <2>4
<1>13. CASE p.header_state = "h_matching_connection_token"
  <2>1. CASE c = ","
    BY <1>2, <1>6, <1>13, <2>1 DEF MatchValue
  <2>2. CASE c # ","
    BY <1>1, <1>2, <1>13, <2>2 DEF MatchValue
  <2>. QED
    BY <2>1, <2>2
<1>14. CASE p.header_state \notin {"h_content_length_num", "h_content_length_ws",
                                   "h_transfer_encoding_chunked", "h_matching_connection",
                                   "h_matching_connection_token_start", "h_matching_connection_token"}
  BY <1>1, <1>2, <1>14 DEF MatchValue
<1>. QED
  BY <1>8, <1>9, <1>10, <1>11, <1>12, <1>13, <1>14
-----------------------------------------------------------------------------
LEMMA BothError ==
    ASSUME NEW A, NEW a, NEW b, Shaped(a), Shaped(b)
    PROVE  Same(A, Error(a), Error(b))
BY ErrorIsReady DEF Same, BothFail, BetweenData, NothingHeld

LEMMA GoDelivers ==
    ASSUME NEW A, NEW a, NEW b, NEW t, NEW u, NEW m, Parted(A, a, b, t, u, m), NEW s
    PROVE  CALLBACK_DATA(Go(a, s)) = CALLBACK_DATA(Go(b, s))
<1>1. Shaped(a) /\ Shaped(b) /\ b.p = Cut(a.p, m, u)
  BY ApartFacts
<1>2. PICK q : q = [a.p EXCEPT !.state = s]
  OBVIOUS
<1>3. KeepsMark(a.p, q) /\ q.errno = a.p.errno /\ q.method = a.p.method
  BY <1>1, <1>2 DEF Shaped, KeepsMark, Parser, ParserFields
<1>4. Go(a, s) = [a EXCEPT !.p = q]
  BY <1>2 DEF Go
<1>5. Go(b, s) = [b EXCEPT !.p = Cut(q, m, u)]
  <2>1. [b.p EXCEPT !.state = s] = Cut(q, m, u)
    BY <1>1, <1>2 DEF Cut, Shaped, Parser, ParserFields
  <2>. QED
    BY <2>1 DEF Go
<1>. QED
  BY <1>3, <1>4, <1>5, Delivers

LEMMA UrlStaysSame ==
    ASSUME NEW A, NEW a, NEW b, NEW t, NEW u, NEW m, Parted(A, a, b, t, u, m), NEW c \in A,
           a.p.state \in UrlStates
    PROVE  Same(A, UrlState(a, c), UrlState(b, c))
<1>1. /\ Shaped(a) /\ Typed(A, a) /\ Shaped(b) /\ b.p = Cut(a.p, m, u) /\ b.p.mark = m
      /\ b.p.text = u /\ b.p.state = a.p.state
  BY ApartFacts DEF ParserFields
<1>2. a.p.mark = "url" /\ m = "url"
  BY MarksOf DEF Parted, Good, UrlStates, BodyStates
<1>3. Good(A, UrlState(a, c))
  BY UrlIsGood DEF Parted
<1>4. CASE c \notin {" ", CR, LF}
  <2>1. PICK n : n = parse_url_char(a.p.state, c)
    OBVIOUS
  <2>2. /\ UrlState(a, c) = Expect(Collect(a, c), n # "s_dead", n)
        /\ UrlState(b, c) = Expect(Collect(b, c), n # "s_dead", n)
    BY <1>1, <1>4, <2>1 DEF UrlState, UrlChar
  <2>3. CASE n = "s_dead"
    <3>1. Shaped(Collect(a, c)) /\ Shaped(Collect(b, c))
      BY <1>1 DEF Collect, Shaped, RequestFields, Parser, ParserFields
    <3>. QED
      BY <2>2, <2>3, <3>1, BothError DEF Expect
  <2>4. CASE n # "s_dead"
    <3>1. PICK q : q = [a.p EXCEPT !.state = n]
      OBVIOUS
    <3>2. KeepsMark(a.p, q) /\ q.method = a.p.method
      BY <1>1, <3>1 DEF Shaped, KeepsMark, Parser, ParserFields
    <3>3. UrlState(a, c) = [a EXCEPT !.p = Cut(q, a.p.mark, Append(a.p.text, c))]
      <4>1. Go(Collect(a, c), n) = [a EXCEPT !.p = [[a.p EXCEPT !.text = Append(@, c)] EXCEPT !.state = n]]
        BY <1>1, <1>2 DEF Go, Collect, Shaped, RequestFields
      <4>2. [[a.p EXCEPT !.text = Append(@, c)] EXCEPT !.state = n] = Cut(q, a.p.mark, Append(a.p.text, c))
        BY <1>1, <3>1 DEF Cut, Shaped, Parser, ParserFields
      <4>. QED
        BY <2>2, <2>4, <4>1, <4>2 DEF Expect
    <3>4. UrlState(b, c) = [b EXCEPT !.p = Cut(q, a.p.mark, Append(u, c))]
      <4>1. Go(Collect(b, c), n) = [b EXCEPT !.p = [[b.p EXCEPT !.text = Append(@, c)] EXCEPT !.state = n]]
        BY <1>1, <1>2 DEF Go, Collect, Shaped, RequestFields
      <4>2. [[b.p EXCEPT !.text = Append(@, c)] EXCEPT !.state = n] = Cut(q, a.p.mark, Append(u, c))
        BY <1>1, <1>2, <3>1 DEF Cut, Shaped, Parser, ParserFields
      <4>. QED
        BY <2>2, <2>4, <4>1, <4>2 DEF Expect
    <3>. QED
      BY <1>3, <3>2, <3>3, <3>4, GoesOn
  <2>. QED
    BY <2>3, <2>4
<1>5. CASE c \in {" ", CR, LF} /\ a.p.state \notin UrlMayEnd
  <2>1. UrlState(a, c) = Error(a) /\ UrlState(b, c) = Error(b)
    BY <1>1, <1>5 DEF UrlState
  <2>. QED
    BY <1>1, <2>1, BothError
<1>6. CASE c = " " /\ a.p.state \in UrlMayEnd
  <2>1. UrlState(a, c) = CALLBACK_DATA(Go(a, "s_req_http_start"))
    BY <1>6 DEF UrlState
  <2>2. UrlState(b, c) = CALLBACK_DATA(Go(b, "s_req_http_start"))
    BY <1>1, <1>6 DEF UrlState
  <2>. QED
    BY <2>1, <2>2, GoDelivers DEF Same
<1>7. CASE c \in {CR, LF} /\ a.p.state \in UrlMayEnd
  <2>1. PICK s : s = IF c = CR THEN "s_req_line_almost_done" ELSE "s_header_field_start"
    OBVIOUS
  <2>2. PICK q : q = [[a.p EXCEPT !.http = <<0, 9>>] EXCEPT !.state = s]
    OBVIOUS
  <2>3. KeepsMark(a.p, q) /\ q.errno = a.p.errno /\ q.method = a.p.method
    BY <1>1, <2>2 DEF Shaped, KeepsMark, Parser, ParserFields
  <2>4. Go([a EXCEPT !.p.http = <<0, 9>>], s) = [a EXCEPT !.p = q]
    BY <1>1, <2>2 DEF Go, Shaped, RequestFields
  <2>5. Go([b EXCEPT !.p.http = <<0, 9>>], s) = [b EXCEPT !.p = Cut(q, m, u)]
    <3>1. [[b.p EXCEPT !.http = <<0, 9>>] EXCEPT !.state = s] = Cut(q, m, u)
      BY <1>1, <2>2 DEF Cut, Shaped, Parser, ParserFields
    <3>. QED
      BY <1>1, <3>1 DEF Go, Shaped, RequestFields
  <2>6. CALLBACK_DATA(Go([a EXCEPT !.p.http = <<0, 9>>], s))
          = CALLBACK_DATA(Go([b EXCEPT !.p.http = <<0, 9>>], s))
    BY <2>3, <2>4, <2>5, Delivers
  <2>. QED
    BY <1>1, <1>7, <2>1, <2>6 DEF UrlState, Same, CR, LF
<1>. QED
  BY <1>4, <1>5, <1>6, <1>7

LEMMA FieldStaysSame ==
    ASSUME NEW A, NEW a, NEW b, NEW t, NEW u, NEW m, Parted(A, a, b, t, u, m), NEW c \in A,
           a.p.state = "s_header_field"
    PROVE  Same(A, Header(a, c), Header(b, c))
<1>1. /\ Shaped(a) /\ Typed(A, a) /\ Shaped(b) /\ b.p = Cut(a.p, m, u) /\ b.p.mark = m
      /\ b.p.text = u /\ b.p.state = a.p.state
  BY ApartFacts DEF ParserFields
<1>2. a.p.mark = "header_field" /\ m = "header_field"
  BY MarksOf DEF Parted, Good, BodyStates
<1>3. Header(a, c) = s_header_field(a, c) /\ Header(b, c) = s_header_field(b, c)
  BY <1>1 DEF Header
<1>4. Good(A, Header(a, c))
  BY HeaderIsGood DEF Parted
<1>5. CASE c \notin NoToken
  <2>1. PICK q : q = MatchField(a.p, c)
    OBVIOUS
  <2>2. KeepsMark(a.p, q) /\ q.method = a.p.method
    BY <1>1, <2>1, FieldMatchIsQuiet DEF Shaped
  <2>3. Header(a, c) = [a EXCEPT !.p = Cut(q, a.p.mark, Append(a.p.text, c))]
    <3>1. Header(a, c) = Collect([a EXCEPT !.p = q], c)
      BY <1>3, <1>5, <2>1 DEF s_header_field, NoToken
    <3>. QED
      BY <1>1, <1>2, <2>2, <3>1, CollectIs DEF KeepsMark
  <2>4. Header(b, c) = [b EXCEPT !.p = Cut(q, a.p.mark, Append(u, c))]
    <3>1. PICK r : r = Cut(q, m, u)
      OBVIOUS
    <3>2. /\ Parser(r) /\ r.mark = m /\ r.text = u
          /\ Cut(r, m, Append(u, c)) = Cut(q, a.p.mark, Append(u, c))
      BY <1>2, <2>2, <3>1 DEF Cut, KeepsMark, Parser, ParserFields
    <3>3. MatchField(b.p, c) = r
      BY <1>1, <2>1, <3>1, FieldMatchOfCut DEF Shaped
    <3>4. Header(b, c) = Collect([b EXCEPT !.p = r], c)
      BY <1>3, <1>5, <3>3 DEF s_header_field, NoToken
    <3>. QED
      BY <1>1, <1>2, <3>2, <3>4, CollectIs
  <2>. QED
    BY <1>4, <2>2, <2>3, <2>4, GoesOn
<1>6. CASE c = ":"
  BY <1>3, <1>6, GoDelivers DEF s_header_field, NoToken, Same
<1>7. CASE c \in NoToken \ {":"}
  BY <1>1, <1>3, <1>7, BothError DEF s_header_field
<1>. QED
  BY <1>5, <1>6, <1>7

LEMMA ValueStaysSame ==
    ASSUME NEW A, NEW a, NEW b, NEW t, NEW u, NEW m, Parted(A, a, b, t, u, m), NEW c \in A,
           a.p.state = "s_header_value"
    PROVE  Same(A, Header(a, c), Header(b, c))
<1>1. /\ Shaped(a) /\ Typed(A, a) /\ Shaped(b) /\ b.p = Cut(a.p, m, u) /\ b.p.mark = m
      /\ b.p.text = u /\ b.p.state = a.p.state
  BY ApartFacts DEF ParserFields
<1>2. a.p.mark = "header_value" /\ m = "header_value"
  BY MarksOf DEF Parted, Good, BodyStates
<1>3. Header(a, c) = s_header_value(a, c) /\ Header(b, c) = s_header_value(b, c)
  BY <1>1 DEF Header
<1>4. Good(A, Header(a, c))
  BY HeaderIsGood DEF Parted
<1>5. CASE c \notin {CR, LF}
  <2>1. PICK q : q = MatchValue(a.p, c)
    OBVIOUS
  <2>2. KeepsMark(a.p, q) /\ q.method = a.p.method
    BY <1>1, <2>1, ValueMatchIsQuiet DEF Shaped
  <2>3. Header(a, c) = [a EXCEPT !.p = Cut(q, a.p.mark, Append(a.p.text, c))]
    <3>1. Header(a, c) = Collect([a EXCEPT !.p = q], c)
      BY <1>3, <1>5, <2>1 DEF s_header_value
    <3>. QED
      BY <1>1, <1>2, <2>2, <3>1, CollectIs DEF KeepsMark
  <2>4. Header(b, c) = [b EXCEPT !.p = Cut(q, a.p.mark, Append(u, c))]
    <3>1. PICK r : r = Cut(q, m, u)
      OBVIOUS
    <3>2. /\ Parser(r) /\ r.mark = m /\ r.text = u
          /\ Cut(r, m, Append(u, c)) = Cut(q, a.p.mark, Append(u, c))
      BY <1>2, <2>2, <3>1 DEF Cut, KeepsMark, Parser, ParserFields
    <3>3. MatchValue(b.p, c) = r
      BY <1>1, <2>1, <3>1, ValueMatchOfCut DEF Shaped
    <3>4. Header(b, c) = Collect([b EXCEPT !.p = r], c)
      BY <1>3, <1>5, <3>3 DEF s_header_value
    <3>. QED
      BY <1>1, <1>2, <3>2, <3>4, CollectIs
  <2>. QED
    BY <1>4, <2>2, <2>3, <2>4, GoesOn
<1>6. CASE c \in {CR, LF}
  BY <1>3, <1>6, GoDelivers DEF s_header_value, Same, CR, LF
<1>. QED
  BY <1>5, <1>6

(* At the end of a piece both have delivered everything. *)
LEMMA DeliveredTogether ==
    ASSUME NEW A, NEW a, NEW b, Apart(A, a, b)
    PROVE  CALLBACK_DATA(a) = CALLBACK_DATA(b)
<1>1. PICK t, u, m : Parted(A, a, b, t, u, m)
  BY DEF Apart
<1>2. Shaped(a) /\ Shaped(b) /\ b.p = Cut(a.p, m, u)
  BY <1>1, ApartFacts
<1>3. KeepsMark(a.p, a.p)
  BY <1>2 DEF Shaped, KeepsMark
<1>4. [a EXCEPT !.p = a.p] = a /\ [b EXCEPT !.p = Cut(a.p, m, u)] = b
  BY <1>2 DEF Shaped, RequestFields
<1>5. CALLBACK_DATA([a EXCEPT !.p = a.p]) = CALLBACK_DATA([b EXCEPT !.p = Cut(a.p, m, u)])
  BY <1>1, <1>3, Delivers
<1>. QED
  BY <1>4, <1>5

(* A character of a body: what the cut run has not marked yet it marks now. *)
LEMMA BodyCharsOf ==
    ASSUME NEW A, NEW a, NEW b, NEW t, NEW u, NEW m, Parted(A, a, b, t, u, m), NEW c \in A,
           a.p.state \in BodyStates
    PROVE  \E q : /\ q = [a.p EXCEPT !.content_length = @ - 1]
                  /\ KeepsMark(a.p, q) /\ q.method = a.p.method /\ q.errno = a.p.errno
                  /\ q.state = a.p.state
                  /\ BodyChar(a, c) = [a EXCEPT !.p = Cut(q, a.p.mark, Append(a.p.text, c))]
                  /\ BodyChar(b, c) = [b EXCEPT !.p = Cut(q, a.p.mark, Append(u, c))]
<1>1. /\ Shaped(a) /\ Typed(A, a) /\ Shaped(b) /\ b.p = Cut(a.p, m, u) /\ b.p.mark = m
      /\ b.p.text = u /\ b.p.content_length = a.p.content_length
  BY ApartFacts DEF ParserFields
<1>2. a.p.mark = "body"
  <2>1. a.p.state \in Unmarked
    BY DEF BodyStates, Unmarked, ChunkStates
  <2>. QED
    BY <2>1, MarksOf DEF Parted, Good
<1>3. PICK q : q = [a.p EXCEPT !.content_length = a.p.content_length - 1]
  OBVIOUS
<1>4. /\ KeepsMark(a.p, q) /\ q.method = a.p.method /\ q.errno = a.p.errno /\ q.state = a.p.state
  BY <1>1, <1>3 DEF Shaped, KeepsMark, Parser, ParserFields
<1>5. BodyChar(a, c) = [a EXCEPT !.p = Cut(q, a.p.mark, Append(a.p.text, c))]
  <2>1. BodyChar(a, c) = [[a EXCEPT !.p.text = Append(@, c)] EXCEPT !.p.content_length = @ - 1]
    BY <1>2 DEF BodyChar, Collect
  <2>2. @ = [a EXCEPT !.p = [[a.p EXCEPT !.text = Append(a.p.text, c)]
                                EXCEPT !.content_length = a.p.content_length - 1]]
    BY <1>1 DEF Shaped, RequestFields, Parser, ParserFields
  <2>3. [[a.p EXCEPT !.text = Append(a.p.text, c)] EXCEPT !.content_length = a.p.content_length - 1]
          = Cut(q, a.p.mark, Append(a.p.text, c))
    BY <1>1, <1>3 DEF Cut, Shaped, Parser, ParserFields
  <2>. QED
    BY <2>1, <2>2, <2>3
<1>6. BodyChar(b, c) = [b EXCEPT !.p = Cut(q, a.p.mark, Append(u, c))]
  <2>1. PICK r : r = [b EXCEPT !.p = [b.p EXCEPT !.mark = "body", !.text = Append(u, c)]]
    OBVIOUS
  <2>2. BodyChar(b, c) = [r EXCEPT !.p.content_length = @ - 1]
    <3>1. CASE m = "body"
      <4>1. Collect(b, c) = [b EXCEPT !.p.text = Append(@, c)]
        BY <1>1, <3>1 DEF Collect
      <4>2. @ = r
        BY <1>1, <2>1, <3>1 DEF Shaped, RequestFields, Parser, ParserFields
      <4>. QED
        BY <1>1, <3>1, <4>1, <4>2 DEF BodyChar
    <3>2. CASE m # "body"
      <4>1. m = "none" /\ u = <<>>
        BY <1>2, <3>2 DEF Parted
      <4>2. Append(u, c) = <<c>>
        BY <4>1
      <4>3. MARK(b, "body", c) = r
        BY <1>1, <2>1, <4>2 DEF MARK, Shaped, RequestFields
      <4>. QED
        BY <1>1, <4>1, <4>3 DEF BodyChar
    <3>. QED
      BY <3>1, <3>2
  <2>3. [r EXCEPT !.p.content_length = @ - 1]
          = [b EXCEPT !.p = [[b.p EXCEPT !.mark = "body", !.text = Append(u, c)]
                               EXCEPT !.content_length = b.p.content_length - 1]]
    BY <1>1, <2>1 DEF Shaped, RequestFields, Parser, ParserFields
  <2>4. [[b.p EXCEPT !.mark = "body", !.text = Append(u, c)]
            EXCEPT !.content_length = b.p.content_length - 1] = Cut(q, a.p.mark, Append(u, c))
    BY <1>1, <1>2, <1>3 DEF Cut, Shaped, Parser, ParserFields
  <2>. QED
    BY <2>2, <2>3, <2>4
<1>. QED
  BY <1>3, <1>4, <1>5, <1>6

LEMMA BodyStaysSame ==
    ASSUME NEW A, NEW a, NEW b, NEW t, NEW u, NEW m, Parted(A, a, b, t, u, m), NEW c \in A,
           a.p.state = "s_body_identity"
    PROVE  Same(A, s_body_identity(a, c), s_body_identity(b, c))
<1>1. PICK q : /\ KeepsMark(a.p, q) /\ q.method = a.p.method /\ q.errno = a.p.errno
               /\ q.state = a.p.state
               /\ BodyChar(a, c) = [a EXCEPT !.p = Cut(q, a.p.mark, Append(a.p.text, c))]
               /\ BodyChar(b, c) = [b EXCEPT !.p = Cut(q, a.p.mark, Append(u, c))]
  BY BodyCharsOf DEF BodyStates
<1>2. PICK x, y : x = BodyChar(a, c) /\ y = BodyChar(b, c)
  OBVIOUS
<1>3. x.p.content_length = y.p.content_length
  <2>1. Shaped(a) /\ Shaped(b)
    BY ApartFacts
  <2>. QED
    BY <1>1, <1>2, <2>1 DEF Shaped, RequestFields, Cut, KeepsMark, Parser, ParserFields
<1>4. PICK d : d = s_body_identity(a, c) /\ Good(A, d)
  BY BodyIsGood DEF Parted
<1>5. Good(A, x)
  <2>1. /\ Shaped(x) /\ Typed(A, x) /\ x.p.mark = "body" /\ ~ x.p.errno /\ ~ x.p.exited
        /\ x.p.state = "s_body_identity"
    BY <1>2, BodyCharMarks DEF Parted, BodyStates
  <2>. QED
    BY <2>1 DEF Good, Unmarked, BodyStates
<1>6. Same(A, x, y)
  BY <1>1, <1>2, <1>5, GoesOn
<1>7. CASE x.p.content_length # 0
  BY <1>2, <1>3, <1>6, <1>7 DEF s_body_identity
<1>8. CASE x.p.content_length = 0
  <2>1. s_body_identity(a, c) = s_message_done(CALLBACK_DATA(x))
    BY <1>2, <1>8 DEF s_body_identity
  <2>2. s_body_identity(b, c) = s_message_done(CALLBACK_DATA(y))
    BY <1>2, <1>3, <1>8 DEF s_body_identity
  <2>3. CALLBACK_DATA(x) = CALLBACK_DATA(y) \/ BothFail(x, y)
    BY <1>6, DeliveredTogether DEF Same
  <2>4. ~ BothFail(x, y)
    <3>1. Shaped(a) /\ x.p.errno = a.p.errno
      <4>1. Shaped(a)
        BY ApartFacts
      <4>2. x.p = Cut(q, a.p.mark, Append(a.p.text, c))
        BY <1>1, <1>2, <4>1 DEF Shaped, RequestFields
      <4>3. Parser(q)
        BY <1>1 DEF KeepsMark
      <4>. QED
        BY <1>1, <4>1, <4>2, <4>3 DEF Cut, Parser, ParserFields
    <3>. QED
      BY <3>1 DEF BothFail, Parted
  <2>. QED
    BY <2>1, <2>2, <2>3, <2>4 DEF Same
<1>. QED
  BY <1>7, <1>8

LEMMA ChunkStaysSame ==
    ASSUME NEW A, NEW a, NEW b, NEW t, NEW u, NEW m, Parted(A, a, b, t, u, m), NEW c \in A,
           a.p.state \in {"s_chunk_data", "s_chunk_data_almost_done"}
    PROVE  Same(A, Chunk(a, c), Chunk(b, c))
<1>1. Shaped(a) /\ Shaped(b) /\ b.p.state = a.p.state
  BY ApartFacts DEF ParserFields
<1>2. CASE a.p.state = "s_chunk_data_almost_done" /\ c = CR
  <2>1. /\ Chunk(a, c) = CALLBACK_DATA(Go(a, "s_chunk_data_done"))
        /\ Chunk(b, c) = CALLBACK_DATA(Go(b, "s_chunk_data_done"))
    BY <1>1, <1>2 DEF Chunk
  <2>. QED
    BY <2>1, GoDelivers DEF Same
<1>3. CASE a.p.state = "s_chunk_data_almost_done" /\ c # CR
  <2>1. Chunk(a, c) = Error(a) /\ Chunk(b, c) = Error(b)
    BY <1>1, <1>3 DEF Chunk
  <2>. QED
    BY <1>1, <2>1, BothError
<1>4. CASE a.p.state = "s_chunk_data"
  <2>1. PICK q : /\ KeepsMark(a.p, q) /\ q.method = a.p.method /\ q.errno = a.p.errno
                 /\ q.state = a.p.state
                 /\ BodyChar(a, c) = [a EXCEPT !.p = Cut(q, a.p.mark, Append(a.p.text, c))]
                 /\ BodyChar(b, c) = [b EXCEPT !.p = Cut(q, a.p.mark, Append(u, c))]
    BY <1>4, BodyCharsOf DEF BodyStates
  <2>2. PICK x, y : x = BodyChar(a, c) /\ y = BodyChar(b, c)
    OBVIOUS
  <2>3. x.p.content_length = y.p.content_length
    <3>1. x.p = Cut(q, a.p.mark, Append(a.p.text, c)) /\ y.p = Cut(q, a.p.mark, Append(u, c))
      BY <1>1, <2>1, <2>2 DEF Shaped, RequestFields
    <3>2. Parser(q)
      BY <2>1 DEF KeepsMark
    <3>. QED
      BY <3>1, <3>2 DEF Cut, Parser, ParserFields
  <2>4. Chunk(a, c) = s_chunk_data(a, c) /\ Chunk(b, c) = s_chunk_data(b, c)
    BY <1>1, <1>4 DEF Chunk
  <2>5. Good(A, Chunk(a, c))
    BY <1>4, ChunkIsGood DEF Parted, ChunkStates
  <2>6. CASE x.p.content_length # 0
    <3>1. Chunk(a, c) = x /\ Chunk(b, c) = y
      BY <2>2, <2>3, <2>4, <2>6 DEF s_chunk_data
    <3>. QED
      BY <2>1, <2>2, <2>5, <3>1, GoesOn
  <2>7. CASE x.p.content_length = 0
    <3>1. /\ Chunk(a, c) = Go(x, "s_chunk_data_almost_done")
          /\ Chunk(b, c) = Go(y, "s_chunk_data_almost_done")
      BY <2>2, <2>3, <2>4, <2>7 DEF s_chunk_data
    <3>2. PICK r : r = [q EXCEPT !.state = "s_chunk_data_almost_done"]
      OBVIOUS
    <3>3. KeepsMark(a.p, r) /\ r.method = a.p.method
      BY <2>1, <3>2 DEF KeepsMark, Parser, ParserFields
    <3>4. ASSUME NEW v
          PROVE  [Cut(q, a.p.mark, v) EXCEPT !.state = "s_chunk_data_almost_done"] = Cut(r, a.p.mark, v)
      BY <2>1, <3>2 DEF Cut, KeepsMark, Parser, ParserFields
    <3>5. Go(x, "s_chunk_data_almost_done") = [a EXCEPT !.p = Cut(r, a.p.mark, Append(a.p.text, c))]
      BY <1>1, <2>1, <2>2, <3>4 DEF Go, Shaped, RequestFields
    <3>6. Go(y, "s_chunk_data_almost_done") = [b EXCEPT !.p = Cut(r, a.p.mark, Append(u, c))]
      BY <1>1, <2>1, <2>2, <3>4 DEF Go, Shaped, RequestFields
    <3>. QED
      BY <2>5, <3>1, <3>3, <3>5, <3>6, GoesOn
  <2>. QED
    BY <2>6, <2>7
<1>. QED
  BY <1>2, <1>3, <1>4
-----------------------------------------------------------------------------
(* One character keeps them the same. *)
LEMMA CharStaysSame ==
    ASSUME NEW A, NEW a, NEW b, Same(A, a, b), NEW c \in A
    PROVE  Same(A, Char(a, c), Char(b, c))
<1>1. CASE a = b
  BY <1>1 DEF Same
<1>2. CASE BothFail(a, b)
  BY <1>2 DEF Same, BothFail, Char
<1>3. CASE Apart(A, a, b)
  <2>1. PICK t, u, m : Parted(A, a, b, t, u, m)
    BY <1>3 DEF Apart
  <2>2. /\ ~ a.p.errno /\ ~ a.p.exited /\ b.p.errno = a.p.errno /\ b.p.exited = a.p.exited
        /\ b.p.state = a.p.state
    <3>1. ~ a.p.errno /\ ~ a.p.exited
      BY <2>1 DEF Parted
    <3>2. \A x \in ParserFields \ {"mark", "text"} : b.p[x] = a.p[x]
      BY <2>1, ApartFacts
    <3>. QED
      BY <3>1, <3>2 DEF ParserFields
  <2>3. Char(a, c) = Reads(a, c) /\ Char(b, c) = Reads(b, c)
    BY <2>2 DEF Char
  <2>4. a.p.state \in UrlStates \cup {"s_header_field", "s_header_value"} \cup BodyStates
    BY <2>1, MarksOf DEF Parted, Good, Marked
  <2>5. CASE a.p.state \in UrlStates
    <3>1. Reads(a, c) = UrlState(a, c) /\ Reads(b, c) = UrlState(b, c)
      BY <2>2, <2>5 DEF Reads, UrlStart, UrlStates, VersionStates, ChunkStates
    <3>. QED
      BY <2>1, <2>3, <2>5, <3>1, UrlStaysSame
  <2>6. CASE a.p.state \in {"s_header_field", "s_header_value"}
    <3>1. Reads(a, c) = Header(a, c) /\ Reads(b, c) = Header(b, c)
      BY <2>2, <2>6 DEF Reads, UrlStart, UrlStates, VersionStates, ChunkStates
    <3>. QED
      BY <2>1, <2>3, <2>6, <3>1, FieldStaysSame, ValueStaysSame
  <2>7. CASE a.p.state = "s_body_identity"
    <3>1. Reads(a, c) = s_body_identity(a, c) /\ Reads(b, c) = s_body_identity(b, c)
      BY <2>2, <2>7 DEF Reads, UrlStart, UrlStates, VersionStates, ChunkStates
    <3>. QED
      BY <2>1, <2>3, <2>7, <3>1, BodyStaysSame
  <2>8. CASE a.p.state \in {"s_chunk_data", "s_chunk_data_almost_done"}
    <3>1. Reads(a, c) = Chunk(a, c) /\ Reads(b, c) = Chunk(b, c)
      BY <2>2, <2>8 DEF Reads, UrlStart, UrlStates, VersionStates, ChunkStates
    <3>. QED
      BY <2>1, <2>3, <2>8, <3>1, ChunkStaysSame
  <2>. QED
    BY <2>4, <2>5, <2>6, <2>7, <2>8 DEF BodyStates
<1>. QED
  BY <1>1, <1>2, <1>3 DEF Same
-----------------------------------------------------------------------------
(* Induction over the characters of a piece, by the first that would fail. *)
LEMMA LeastNumber ==
    ASSUME NEW T, T \subseteq Nat, T # {}
    PROVE  \E k \in T : \A j \in T : ~ (j < k)
<1>1. \E k \in T : \A j \in T : ~ (<<j, k>> \in OpToRel(<, Nat))
  BY NatLessThanWellFounded, WFMin, Zenon
<1>2. ASSUME NEW j \in Nat, NEW k \in Nat, j < k PROVE <<j, k>> \in OpToRel(<, Nat)
  BY <1>2, Zenon DEF OpToRel
<1>. QED
  BY <1>1, <1>2

(* What is read up to each character of a piece, the last one being k. *)
Run(f, req, piece, k) ==
    f = [n \in 0 .. k |-> IF n = 0 THEN Starts(req) ELSE Char(f[n - 1], piece[n])]

LEMMA RunExists ==
    ASSUME NEW req, NEW piece, NEW N \in Nat
    PROVE  \E f : Run(f, req, piece, N)
<1>. DEFINE T == {k \in Nat : ~ \E f : Run(f, req, piece, k)}
<1>1. SUFFICES ASSUME T # {} PROVE FALSE
  OBVIOUS
<1>2. PICK k \in T : \A j \in T : ~ (j < k)
  BY <1>1, LeastNumber
<1>3. CASE k = 0
  <2>1. PICK f : f = [n \in 0 .. 0 |-> Starts(req)]
    OBVIOUS
  <2>2. f = [n \in 0 .. 0 |-> IF n = 0 THEN Starts(req) ELSE Char(f[n - 1], piece[n])]
    BY <2>1
  <2>. QED
    BY <1>2, <1>3, <2>2 DEF Run
<1>4. CASE k # 0
  <2>1. k \in Nat /\ k - 1 \in Nat /\ k - 1 \notin T
    BY <1>2, <1>4
  <2>2. PICK g : Run(g, req, piece, k - 1)
    BY <2>1
  <2>3. \A n \in 0 .. k - 1 : g[n] = IF n = 0 THEN Starts(req) ELSE Char(g[n - 1], piece[n])
    BY <2>2 DEF Run
  <2>4. PICK f : f = [n \in 0 .. k |-> IF n = k THEN Char(g[k - 1], piece[k]) ELSE g[n]]
    OBVIOUS
  <2>5. ASSUME NEW n \in 0 .. k
        PROVE  f[n] = IF n = 0 THEN Starts(req) ELSE Char(f[n - 1], piece[n])
    <3>1. CASE n = k
      <4>1. f[k] = Char(g[k - 1], piece[k]) /\ f[k - 1] = g[k - 1]
        BY <1>4, <2>1, <2>4
      <4>. QED
        BY <1>4, <3>1, <4>1
    <3>2. CASE n = 0
      BY <1>4, <2>1, <2>3, <2>4, <3>2
    <3>3. CASE n # k /\ n # 0
      <4>1. n \in 0 .. k - 1 /\ n - 1 \in 0 .. k /\ n - 1 # k
        BY <2>1, <3>3
      <4>2. f[n] = g[n] /\ f[n - 1] = g[n - 1]
        BY <2>4, <3>3, <4>1
      <4>. QED
        BY <2>3, <3>3, <4>1, <4>2
    <3>. QED
      BY <3>1, <3>2, <3>3
  <2>6. Run(f, req, piece, k)
    BY <2>4, <2>5 DEF Run
  <2>. QED
    BY <1>2, <2>6
<1>. QED
  BY <1>3, <1>4

(* Two runs over the same characters agree. *)
LEMMA RunsAgree ==
    ASSUME NEW req, NEW v, NEW w, NEW k \in Nat, NEW n \in Nat, NEW f, NEW g,
           Run(f, req, v, k), Run(g, req, w, n), k =< n, \A i \in 1 .. k : v[i] = w[i]
    PROVE  f[k] = g[k]
<1>. DEFINE T == {i \in 0 .. k : f[i] # g[i]}
<1>1. SUFFICES ASSUME T # {} PROVE FALSE
  OBVIOUS
<1>2. PICK j \in T : \A i \in T : ~ (i < j)
  <2>1. T \subseteq Nat
    OBVIOUS
  <2>. HIDE DEF T
  <2>. QED
    BY <1>1, <2>1, LeastNumber
<1>3. /\ j \in 0 .. k /\ j \in 0 .. n
      /\ f[j] = IF j = 0 THEN Starts(req) ELSE Char(f[j - 1], v[j])
      /\ g[j] = IF j = 0 THEN Starts(req) ELSE Char(g[j - 1], w[j])
  BY <1>2 DEF Run
<1>4. CASE j # 0
  <2>1. j - 1 \in 0 .. k /\ j - 1 < j /\ j \in 1 .. k
    BY <1>3, <1>4
  <2>2. f[j - 1] = g[j - 1]
    BY <1>2, <2>1
  <2>. QED
    BY <1>2, <1>3, <1>4, <2>1, <2>2
<1>. QED
  BY <1>2, <1>3, <1>4

LEMMA ExecuteRuns ==
    ASSUME NEW req, NEW piece, NEW N \in Nat, N = Len(piece)
    PROVE  \E f : Run(f, req, piece, N) /\ http_parser_execute(req, piece) = CALLBACK_DATA(f[N])
<1>1. PICK g : Run(g, req, piece, N)
  BY RunExists
<1>2. \E f : f = [n \in 0 .. N |-> IF n = 0 THEN Starts(req) ELSE Char(f[n - 1], piece[n])]
  <2>1. g = [n \in 0 .. N |-> IF n = 0 THEN Starts(req) ELSE Char(g[n - 1], piece[n])]
    BY <1>1 DEF Run
  <2>. QED
    BY <2>1, Zenon
<1>. QED
  BY <1>2 DEF Run, http_parser_execute
-----------------------------------------------------------------------------
(* The parser as it is after every character of a piece. *)
LEMMA StartsAreGood ==
    ASSUME NEW A, NEW req, Good(A, req), ~ req.p.errno, req.p.mark = "none"
    PROVE  Good(A, Starts(req))
<1>1. PICK q : q = [req.p EXCEPT !.mark = MarkAt(req.p.state), !.text = <<>>, !.exited = FALSE]
  OBVIOUS
<1>2. Shaped(req) /\ Typed(A, req) /\ req.p.state \in Unmarked \cup Marked
  BY DEF Good
<1>3. /\ Parser(q) /\ q.mark = MarkAt(req.p.state) /\ q.text = <<>> /\ q.exited = FALSE
      /\ q.state = req.p.state /\ q.errno = req.p.errno /\ q.upgrade = req.p.upgrade
  BY <1>1, <1>2 DEF Shaped, Parser, ParserFields
<1>4. PICK r : r = Starts(req) /\ r = [req EXCEPT !.p = q]
  BY <1>1, <1>2 DEF Starts, Shaped, RequestFields
<1>5. Shaped(r) /\ r.p = q /\ \A x \in RequestFields \ {"p"} : r[x] = req[x]
  BY <1>2, <1>3, <1>4 DEF Shaped, RequestFields
<1>6. Typed(A, r)
  BY <1>2, <1>3, <1>5, EmptySeq DEF Typed, RequestFields
<1>. QED
  BY <1>2, <1>3, <1>4, <1>5, <1>6 DEF Good

LEMMA NewIsGood ==
    ASSUME NEW A
    PROVE  Good(A, NewRequest) /\ ~ NewRequest.p.errno /\ NewRequest.p.mark = "none"
<1>1. /\ Shaped(NewRequest) /\ NewRequest.p = NewParser /\ NewParser.state = "s_start_req"
      /\ NewParser.mark = "none" /\ NewParser.text = <<>> /\ NewParser.errno = FALSE
      /\ NewParser.exited = FALSE /\ NewParser.upgrade = FALSE
  BY DEF NewRequest, NewParser, Shaped, RequestFields, Parser, ParserFields
<1>2. Typed(A, NewRequest)
  <2>1. <<>> \in Seq(A) /\ <<>> \in Seq(Seq(A))
    OBVIOUS
  <2>. QED
    BY <1>1, <2>1 DEF Typed, NewRequest
<1>. QED
  BY <1>1, <1>2, MarksOf DEF Good, Unmarked

LEMMA RunIsGood ==
    ASSUME NEW A, NEW req, NEW piece, NEW k \in Nat, NEW f, Run(f, req, piece, k),
           Good(A, Starts(req)), \A i \in 1 .. k : piece[i] \in A
    PROVE  \A i \in 0 .. k : Good(A, f[i])
<1>. DEFINE T == {i \in 0 .. k : ~ Good(A, f[i])}
<1>1. SUFFICES ASSUME T # {} PROVE FALSE
  OBVIOUS
<1>2. PICK j \in T : \A i \in T : ~ (i < j)
  <2>1. T \subseteq Nat
    OBVIOUS
  <2>. HIDE DEF T
  <2>. QED
    BY <1>1, <2>1, LeastNumber
<1>3. /\ j \in 0 .. k /\ ~ Good(A, f[j])
      /\ f[j] = IF j = 0 THEN Starts(req) ELSE Char(f[j - 1], piece[j])
  BY <1>2 DEF Run
<1>4. CASE j # 0
  <2>1. j - 1 \in 0 .. k /\ j - 1 < j /\ j \in 1 .. k
    BY <1>3, <1>4
  <2>2. Good(A, f[j - 1])
    BY <1>2, <2>1
  <2>3. Good(A, Char(f[j - 1], piece[j]))
    BY <2>1, <2>2, CharIsGood
  <2>. QED
    BY <1>3, <1>4, <2>3
<1>. QED
  BY <1>3, <1>4

(* The d characters of v after the first k. *)
Follows(A, w, v, k, d) == \A i \in 1 .. d : w[i] = v[k + i] /\ w[i] \in A

(* What has been the same stays the same to the end of the text. *)
LEMMA RunsStaySame ==
    ASSUME NEW A, NEW req, NEW v, NEW n \in Nat, NEW f, Run(f, req, v, n),
           NEW part, NEW w, NEW k \in Nat, NEW d \in Nat, k + d =< n, NEW g, Run(g, part, w, d),
           Same(A, f[k], Starts(part)), Follows(A, w, v, k, d)
    PROVE  Same(A, f[k + d], g[d])
<1>. DEFINE T == {i \in 0 .. d : ~ Same(A, f[k + i], g[i])}
<1>1. ASSUME T # {} PROVE FALSE
  <2>1. PICK j \in T : \A i \in T : ~ (i < j)
    <3>1. T \subseteq Nat
      OBVIOUS
    <3>. HIDE DEF T
    <3>. QED
      BY <1>1, <3>1, LeastNumber
  <2>2. j \in 0 .. d /\ ~ Same(A, f[k + j], g[j])
    BY <2>1
  <2>3. CASE j = 0
    <3>1. g[0] = Starts(part)
      BY <2>2, <2>3 DEF Run
    <3>. QED
      BY <2>2, <2>3, <3>1
  <2>4. CASE j # 0
    <3>1. j - 1 \in 0 .. d /\ j - 1 < j /\ j \in 1 .. d
      BY <2>2, <2>4
    <3>2. Same(A, f[k + (j - 1)], g[j - 1])
      BY <2>1, <3>1
    <3>3. g[j] = Char(g[j - 1], w[j])
      BY <2>4, <3>1 DEF Run
    <3>4. k + j \in 0 .. n /\ k + j # 0 /\ k + j - 1 = k + (j - 1)
      BY <2>2, <2>4
    <3>5. f[k + j] = Char(f[k + (j - 1)], v[k + j])
      BY <3>4 DEF Run
    <3>6. Same(A, Char(f[k + (j - 1)], w[j]), Char(g[j - 1], w[j]))
      BY <3>1, <3>2, CharStaysSame DEF Follows
    <3>. QED
      BY <2>2, <3>1, <3>3, <3>5, <3>6 DEF Follows
  <2>. QED
    BY <2>3, <2>4
<1>2. d \in 0 .. d
  OBVIOUS
<1>. QED
  BY <1>1, <1>2
-----------------------------------------------------------------------------
(* Wherever a text is cut: when the parser asks for more, what it was left as *)
(* is the same for the rest as if nothing had been delivered. *)
LEMMA CutIsSame ==
    ASSUME NEW A, NEW a, Good(A, a), ParseResult(CALLBACK_DATA(a)) = "READ_CONTINUE"
    PROVE  Same(A, a, Starts(CALLBACK_DATA(a)))
<1>1. PICK part : part = CALLBACK_DATA(a)
  OBVIOUS
<1>2. ~ part.p.errno /\ part._parse_part # "PARSE_REQ_OVER"
  BY <1>1 DEF ParseResult
<1>3. PICK z : z = Cut(a.p, "none", <<>>)
  OBVIOUS
<1>4. PICK d : d = [a EXCEPT !.p = z] /\ part = Callback(d, a.p.mark, a.p.text)
  <2>1. [a EXCEPT !.p.mark = "none", !.p.text = <<>>] = [a EXCEPT !.p = z]
    BY <1>3 DEF Cut, Good, Shaped, RequestFields
  <2>. QED
    BY <1>1, <2>1 DEF CALLBACK_DATA
<1>5. /\ Parser(z) /\ z.mark = "none" /\ z.text = <<>>
      /\ \A x \in ParserFields \ {"mark", "text"} : z[x] = a.p[x]
  BY <1>3 DEF Cut, Good, Shaped, Parser, ParserFields
<1>6. Shaped(a) /\ Shaped(d) /\ d.p = z /\ \A x \in RequestFields \ {"p"} : d[x] = a[x]
  BY <1>4, <1>5 DEF Good, Shaped, RequestFields
<1>7. ~ a.p.errno
  <2>1. ASSUME a.p.errno PROVE FALSE
    <3>1. d.p.errno
      BY <1>5, <1>6, <2>1 DEF ParserFields
    <3>2. part = d
      BY <1>4, <3>1 DEF Callback
    <3>. QED
      BY <1>2, <3>1, <3>2
  <2>. QED
    BY <2>1
<1>8. Typed(A, a) /\ a.p.state \in Unmarked \cup Marked
  BY <1>7 DEF Good
<1>9. CASE a.p.mark = "none"
  <2>1. part = d
    BY <1>4, <1>9 DEF Callback
  <2>2. a.p.text = <<>> /\ MarkAt(a.p.state) = "none"
    BY <1>7, <1>9 DEF Good
  <2>3. z = a.p
    <3>1. \A x \in ParserFields : z[x] = a.p[x]
      BY <1>5, <1>9, <2>2 DEF ParserFields
    <3>2. Parser(z) /\ Parser(a.p)
      BY <1>5, <1>6 DEF Shaped
    <3>. QED
      BY <3>1, <3>2 DEF Parser
  <2>4. part = a
    BY <1>4, <1>6, <2>1, <2>3 DEF Shaped, RequestFields
  <2>5. a.p.exited = FALSE
    BY <1>2, <1>7, <1>8, <2>4 DEF Good, Typed
  <2>6. [a.p EXCEPT !.mark = MarkAt(a.p.state), !.text = <<>>, !.exited = FALSE] = a.p
    BY <1>6, <1>9, <2>2, <2>5 DEF Shaped, Parser, ParserFields
  <2>7. Starts(a) = [a EXCEPT !.p = [a.p EXCEPT !.mark = MarkAt(a.p.state), !.text = <<>>,
                                                !.exited = FALSE]]
    BY <1>6 DEF Starts, Shaped, RequestFields
  <2>8. Starts(a) = a
    BY <1>6, <2>6, <2>7 DEF Shaped, RequestFields
  <2>. QED
    BY <1>1, <1>9, <2>4, <2>8 DEF Same
<1>10. CASE a.p.mark # "none"
  <2>1. ~ a.p.exited /\ a.p.exited = FALSE
    BY <1>7, <1>8, <1>10 DEF Good, Typed
  <2>2. a.p.mark \in DataKinds /\ a.p.text \in Seq(A)
    <3>1. a.p.state \in Unmarked \/ a.p.state \in UrlStates
            \/ a.p.state \in {"s_header_field", "s_header_value"}
      BY <1>8 DEF Marked
    <3>. QED
      BY <1>7, <1>8, <3>1, MarksOf DEF Good, DataKinds, Typed
  <2>3. PICK r : r = Callback(a, a.p.mark, a.p.text) /\ Shaped(r) /\ Typed(A, r) /\ r.p = a.p
    BY <1>6, <1>8, <2>2, CallbackTyped
  <2>4. part = [r EXCEPT !.p = z]
    <3>1. z.errno = a.p.errno /\ z.method = a.p.method
      <4>1. z["errno"] = a.p["errno"] /\ z["method"] = a.p["method"]
        BY <1>5, Zenon DEF ParserFields
      <4>. QED
        BY <4>1
    <3>2. (z.errno <=> a.p.errno) /\ Shaped(a)
      BY <1>6, <3>1
    <3>3. Callback([a EXCEPT !.p = z], a.p.mark, a.p.text)
            = [Callback(a, a.p.mark, a.p.text) EXCEPT !.p = z]
      BY <2>2, <3>1, <3>2, CallbackMoves
    <3>. QED
      BY <1>4, <2>3, <3>3
  <2>5. Shaped(part) /\ part.p = z /\ \A x \in RequestFields \ {"p"} : part[x] = r[x]
    BY <1>5, <2>3, <2>4, Zenon DEF Shaped, RequestFields
  <2>6. PICK y : y = Cut(a.p, MarkAt(a.p.state), <<>>)
    BY Zenon
  <2>7. Starts(part) = [r EXCEPT !.p = y]
    <3>1. [z EXCEPT !.mark = MarkAt(z.state), !.text = <<>>, !.exited = FALSE] = y
      BY <1>3, <1>6, <2>1, <2>6 DEF Cut, Shaped, Parser, ParserFields
    <3>2. Starts(part) = [part EXCEPT !.p = [z EXCEPT !.mark = MarkAt(z.state), !.text = <<>>,
                                                      !.exited = FALSE]]
      BY <2>5 DEF Starts, Shaped, RequestFields
    <3>. QED
      BY <2>3, <2>4, <3>1, <3>2 DEF Shaped, RequestFields
  <2>8. Parted(A, a, Starts(part), a.p.text, <<>>, MarkAt(a.p.state))
    <3>1. a.p.text = a.p.text \o <<>> /\ <<>> \in Seq(A)
      BY <2>2, ConcatEmptySeq
    <3>2. MarkAt(a.p.state) = a.p.mark \/ (a.p.mark = "body" /\ MarkAt(a.p.state) = "none")
      <4>1. a.p.state \in BodyStates => a.p.state \in Unmarked
        BY DEF BodyStates, Unmarked, ChunkStates
      <4>. QED
        BY <1>7, <4>1, MarksOf DEF Good
    <3>. QED
      BY <1>7, <1>10, <2>1, <2>2, <2>3, <2>6, <2>7, <3>1, <3>2 DEF Parted
  <2>. QED
    BY <1>1, <2>8 DEF Same, Apart
<1>. QED
  BY <1>9, <1>10

(* Both have failed, or they are the same. *)
Alike(a, b) == a = b \/ (a.p.errno /\ b.p.errno)

LEMMA SameEndsAlike ==
    ASSUME NEW A, NEW a, NEW b, Same(A, a, b)
    PROVE  Alike(CALLBACK_DATA(a), CALLBACK_DATA(b))
<1>1. ASSUME NEW r, Shaped(r), r.p.errno PROVE CALLBACK_DATA(r).p.errno
  BY <1>1, DeliveredIdles
<1>2. CASE BothFail(a, b)
  BY <1>1, <1>2 DEF BothFail, Alike
<1>3. CASE Apart(A, a, b)
  BY <1>3, DeliveredTogether DEF Alike
<1>. QED
  BY <1>2, <1>3 DEF Same, Alike

(* Wherever a text is cut: a part that is not refused is read as if it had *)
(* come with what was read before it. *)
LEMMA CutAnywhere ==
    ASSUME NEW A, NEW whole \in Seq(A), NEW k \in Nat, NEW n \in Nat, k =< n, n =< Len(whole),
           NEW part, part = http_parser_execute(NewRequest, SubSeq(whole, 1, k)),
           ParseResult(part) = "READ_CONTINUE"
    PROVE  Alike(http_parser_execute(NewRequest, SubSeq(whole, 1, n)),
                 http_parser_execute(part, SubSeq(whole, k + 1, n)))
<1>1. PICK x, y, z : x = SubSeq(whole, 1, k) /\ y = SubSeq(whole, 1, n) /\ z = SubSeq(whole, k + 1, n)
  OBVIOUS
<1>2. /\ Len(x) = k /\ \A i \in 1 .. k : x[i] = whole[i]
      /\ Len(y) = n /\ \A i \in 1 .. n : y[i] = whole[i] /\ y[i] \in A
      /\ Len(z) = n - k /\ \A i \in 1 .. n - k : z[i] = whole[k + i] /\ z[i] \in A
  <2>1. Len(whole) \in Nat /\ \A i \in 1 .. Len(whole) : whole[i] \in A
    BY LenProperties, ElementOfSeq
  <2>2. /\ Len(x) = k /\ \A i \in 1 .. k : x[i] = whole[i]
        /\ Len(y) = n /\ \A i \in 1 .. n : y[i] = whole[i]
    BY <1>1, <2>1, SubSeqProperties
  <2>3. /\ Len(z) = n - k /\ \A i \in 1 .. n - k : z[i] = whole[k + i]
    BY <1>1, <2>1, SubSeqProperties
  <2>4. \A i \in 1 .. n - k : k + i \in 1 .. Len(whole)
    BY <2>1
  <2>. QED
    BY <2>1, <2>2, <2>3, <2>4
<1>3. PICK f : Run(f, NewRequest, x, k) /\ part = CALLBACK_DATA(f[k])
  <2>1. k = Len(x)
    BY <1>2
  <2>2. PICK f : Run(f, NewRequest, x, k) /\ http_parser_execute(NewRequest, x) = CALLBACK_DATA(f[k])
    BY <2>1, ExecuteRuns
  <2>3. part = http_parser_execute(NewRequest, x)
    BY <1>1
  <2>. QED
    BY <2>2, <2>3
<1>4. PICK g : Run(g, NewRequest, y, n) /\ http_parser_execute(NewRequest, y) = CALLBACK_DATA(g[n])
  <2>1. n = Len(y)
    BY <1>2
  <2>. QED
    BY <2>1, ExecuteRuns
<1>5. PICK h : Run(h, part, z, n - k) /\ http_parser_execute(part, z) = CALLBACK_DATA(h[n - k])
  <2>1. n - k \in Nat /\ n - k = Len(z)
    BY <1>2
  <2>. QED
    BY <2>1, ExecuteRuns
<1>6. f[k] = g[k]
  <2>1. \A i \in 1 .. k : x[i] = y[i]
    BY <1>2
  <2>. QED
    BY <1>3, <1>4, <2>1, RunsAgree
<1>7. Good(A, g[k])
  <2>1. \A i \in 0 .. n : Good(A, g[i])
    BY <1>2, <1>4, NewIsGood, StartsAreGood, RunIsGood
  <2>. QED
    BY <2>1
<1>8. Same(A, g[k], Starts(part))
  BY <1>3, <1>6, <1>7, CutIsSame
<1>9. Same(A, g[n], h[n - k])
  <2>1. \A i \in 1 .. n - k : z[i] = y[k + i] /\ z[i] \in A
    <3>1. \A i \in 1 .. n - k : k + i \in 1 .. n
      OBVIOUS
    <3>. QED
      BY <1>2, <3>1
  <2>2. PICK d \in Nat : d = n - k
    OBVIOUS
  <2>3. Same(A, g[n], h[d])
    <3>1. n = k + d /\ k + d =< n /\ Run(h, part, z, d) /\ Follows(A, z, y, k, d)
      BY <1>5, <2>1, <2>2 DEF Follows
    <3>2. Run(g, NewRequest, y, n)
      BY <1>4
    <3>3. Same(A, g[k + d], h[d])
      BY <1>8, <3>1, <3>2, RunsStaySame
    <3>. QED
      BY <3>1, <3>3
  <2>. QED
    BY <2>2, <2>3
<1>. QED
  BY <1>1, <1>4, <1>5, <1>9, SameEndsAlike

(* Before anything was read nothing was said. *)
LEMMA NothingRead ==
    http_parser_execute(NewRequest, <<>>) = NewRequest
<1>1. PICK f : /\ Run(f, NewRequest, <<>>, 0)
               /\ http_parser_execute(NewRequest, <<>>) = CALLBACK_DATA(f[0])
  <2>1. Len(<<>>) = 0
    OBVIOUS
  <2>. QED
    BY <2>1, ExecuteRuns
<1>2. f[0] = Starts(NewRequest)
  BY <1>1 DEF Run
<1>3. PICK r : r = NewRequest
  OBVIOUS
<1>4. /\ Shaped(r) /\ r.p.mark = "none" /\ r.p.text = <<>> /\ r.p.exited = FALSE
      /\ MarkAt(r.p.state) = "none"
  <2>1. r.p = NewParser /\ NewParser.state = "s_start_req" /\ NewParser.exited = FALSE
    BY <1>3 DEF NewRequest, NewParser
  <2>2. Good({}, r) /\ ~ r.p.errno /\ r.p.mark = "none"
    BY <1>3, NewIsGood
  <2>. QED
    BY <2>1, <2>2, MarksOf DEF Good, Unmarked
<1>5. [r.p EXCEPT !.mark = "none", !.text = <<>>, !.exited = FALSE] = r.p
  BY <1>4 DEF Shaped, Parser, ParserFields
<1>6. [r.p EXCEPT !.mark = "none", !.text = <<>>] = r.p
  BY <1>4 DEF Shaped, Parser, ParserFields
<1>7. Starts(r) = [r EXCEPT !.p = [r.p EXCEPT !.mark = "none", !.text = <<>>, !.exited = FALSE]]
  BY <1>4 DEF Starts, Shaped, RequestFields
<1>8. Starts(r) = r
  BY <1>4, <1>5, <1>7 DEF Shaped, RequestFields
<1>9. [r EXCEPT !.p.mark = "none", !.p.text = <<>>] = r
  <2>1. [r EXCEPT !.p.mark = "none", !.p.text = <<>>]
          = [r EXCEPT !.p = [r.p EXCEPT !.mark = "none", !.text = <<>>]]
    BY <1>4 DEF Shaped, RequestFields
  <2>. QED
    BY <1>4, <1>6, <2>1 DEF Shaped, RequestFields
<1>10. CALLBACK_DATA(r) = r
  BY <1>4, <1>9 DEF CALLBACK_DATA, Callback
<1>. QED
  BY <1>1, <1>2, <1>3, <1>8, <1>10
-----------------------------------------------------------------------------
(* What was read, and what is known of it. *)
PiecesInv ==
    /\ wire \in Seq(STRING)
    /\ taken \in 0 .. Len(wire)
    /\ Alike(http_parser_execute(NewRequest, SubSeq(wire, 1, taken)), parsed)

LEMMA PiecesInitOK == PiecesInit => PiecesInv
<1>. SUFFICES ASSUME PiecesInit PROVE PiecesInv
  OBVIOUS
<1>1. wire \in Seq(STRING) /\ taken = 0 /\ parsed = NewRequest
  BY WireAssumption DEF PiecesInit
<1>2. taken \in 0 .. Len(wire)
  BY <1>1, LenProperties
<1>3. SubSeq(wire, 1, taken) = <<>>
  BY <1>1, SubSeqEmpty
<1>. QED
  BY <1>1, <1>2, <1>3, NothingRead DEF PiecesInv, Alike

LEMMA PiecesStepOK == PiecesInv /\ [parse_request]_pieces => PiecesInv'
<1>. SUFFICES ASSUME PiecesInv, [parse_request]_pieces PROVE PiecesInv'
  OBVIOUS
<1>1. CASE UNCHANGED pieces
  BY <1>1 DEF PiecesInv, pieces
<1>2. CASE parse_request
  <2>1. PICK upTo \in taken + 1 .. Len(wire) :
           /\ parsed' = http_parser_execute(parsed, SubSeq(wire, taken + 1, upTo))
           /\ taken' = upTo
    BY <1>2 DEF parse_request
  <2>2. wire' = wire /\ ParseResult(parsed) = "READ_CONTINUE"
    BY <1>2 DEF parse_request
  <2>3. /\ wire \in Seq(STRING) /\ taken \in Nat /\ upTo \in Nat /\ taken =< upTo
        /\ upTo =< Len(wire) /\ Len(wire) \in Nat
    BY <2>1, LenProperties DEF PiecesInv
  <2>4. parsed = http_parser_execute(NewRequest, SubSeq(wire, 1, taken))
    <3>1. ~ parsed.p.errno
      BY <2>2 DEF ParseResult
    <3>. QED
      BY <3>1 DEF PiecesInv, Alike
  <2>5. Alike(http_parser_execute(NewRequest, SubSeq(wire, 1, upTo)),
              http_parser_execute(parsed, SubSeq(wire, taken + 1, upTo)))
    BY <2>2, <2>3, <2>4, CutAnywhere
  <2>6. upTo \in 0 .. Len(wire)
    BY <2>3
  <2>. QED
    BY <2>1, <2>2, <2>3, <2>5, <2>6 DEF PiecesInv
<1>. QED
  BY <1>1, <1>2

(* However the network cuts the text of a request, parse_request ends up with *)
(* what it would have made of the same text in one piece, refusals included.  *)
THEOREM CutsNeverMatter == PiecesSpec => []CutsDoNotMatter
<1>1. PiecesInv => CutsDoNotMatter
  BY DEF PiecesInv, CutsDoNotMatter, Alike, Known
<1>. QED
  BY <1>1, PiecesInitOK, PiecesStepOK, PTL DEF PiecesSpec
-----------------------------------------------------------------------------
(* The pool by itself. *)

(* Threads exist in a started pool only, and the broadcast is after the    *)
(* stop.                                                                   *)
StopOrder ==
    /\ m_pool_state = "STOPPED" <=> destroyer # "none"
    /\ m_pool_state = "none" => \A w \in Workers : thread[w] = "none"

PoolInv ==
    /\ PoolTypeOK
    /\ StopOrder
    /\ NobodySleepsOnWork
    /\ StopReachesEveryThread
-----------------------------------------------------------------------------
LEMMA InStateFinite ==
    ASSUME NEW s
    PROVE  IsFiniteSet(InState(s)) /\ Cardinality(InState(s)) \in Nat
<1>1. InState(s) \subseteq Workers
  BY DEF InState
<1>. QED
  BY <1>1, WorkersAssumption, FS_Subset, FS_CardinalityType

(* How many threads are woken with one more of them, and with one less. *)
LEMMA WokenWith ==
    ASSUME NEW w
    PROVE  /\ \/ Cardinality(Woken \cup {w}) = Cardinality(Woken) + 1
              \/ Cardinality(Woken \cup {w}) = Cardinality(Woken)
           /\ Cardinality(Woken \cup {w}) \in Nat
           /\ Cardinality(Woken) \in Nat
<1>1. IsFiniteSet(Woken) /\ Cardinality(Woken) \in Nat
  BY InStateFinite DEF Woken
<1>2. Cardinality(Woken \cup {w}) = IF w \in Woken THEN Cardinality(Woken)
                                                  ELSE Cardinality(Woken) + 1
  BY <1>1, FS_AddElement
<1>. QED
  BY <1>1, <1>2

LEMMA WokenWithout ==
    ASSUME NEW w
    PROVE  /\ \/ Cardinality(Woken \ {w}) = Cardinality(Woken) - 1
              \/ Cardinality(Woken \ {w}) = Cardinality(Woken)
           /\ Cardinality(Woken \ {w}) \in Nat
           /\ Cardinality(Woken) \in Nat
<1>1. IsFiniteSet(Woken) /\ Cardinality(Woken) \in Nat
  BY InStateFinite DEF Woken
<1>2. IsFiniteSet(Woken \ {w})
  BY <1>1, FS_RemoveElement
<1>3. Cardinality(Woken \ {w}) = IF w \in Woken THEN Cardinality(Woken) - 1
                                                ELSE Cardinality(Woken)
  BY <1>1, FS_RemoveElement
<1>. QED
  BY <1>1, <1>2, <1>3, FS_CardinalityType

(* One thread goes from one place to another. *)
LEMMA OneMoves ==
    ASSUME PoolTypeOK, NEW w \in Workers, NEW to \in ThreadStates,
           thread' = [thread EXCEPT ![w] = to]
    PROVE  /\ thread' \in [Workers -> ThreadStates]
           /\ \A s : InState(s)' = IF s = to THEN InState(s) \cup {w} ELSE InState(s) \ {w}
  BY DEF PoolTypeOK, InState

LEMMA RunsWhenStarted ==
    ASSUME PoolInv, NEW w \in Workers, thread[w] # "none"
    PROVE  m_pool_state # "none"
  BY DEF PoolInv, StopOrder

LEMMA StartPreserves ==
    ASSUME PoolInv, start_threadpool
    PROVE  PoolInv'
<1>1. thread' \in [Workers -> ThreadStates] /\ Waiting' = {}
  BY DEF start_threadpool, ThreadStates, Waiting, InState
<1>. QED
  BY <1>1 DEF PoolInv, PoolTypeOK, StopOrder, NobodySleepsOnWork,
     StopReachesEveryThread, start_threadpool

(* add_task may find no thread to wake only when none sleeps. *)
LEMMA AddTaskPreserves ==
    ASSUME PoolInv, NEW j \in Jobs, add_task(j)
    PROVE  PoolInv'
<1>1. /\ m_tasks' \in Seq(Jobs)
      /\ Len(m_tasks') = Len(m_tasks) + 1
      /\ Len(m_tasks) \in Nat
  BY AppendProperties, LenProperties DEF PoolInv, PoolTypeOK, add_task
<1>2. CASE Waiting = {}
  <2>1. UNCHANGED <<m_pool_state, thread, job, destroyer>>
    BY <1>2 DEF add_task, signal
  <2>2. Waiting' = {}
    BY <1>2, <2>1 DEF Waiting, InState
  <2>. QED
    BY <1>1, <2>1, <2>2 DEF PoolInv, PoolTypeOK, StopOrder, NobodySleepsOnWork,
       StopReachesEveryThread
<1>3. CASE Waiting # {}
  <2>1. PICK w \in Waiting : thread' = [thread EXCEPT ![w] = "woken"]
    BY <1>3 DEF add_task, signal
  <2>2. UNCHANGED <<m_pool_state, job, destroyer>>
    BY DEF add_task
  <2>3. w \in Workers /\ thread[w] = "waiting" /\ w \notin Woken
    BY <2>1 DEF Waiting, Woken, InState
  <2>4. /\ thread' \in [Workers -> ThreadStates]
        /\ Waiting' = Waiting \ {w}
        /\ Woken' = Woken \cup {w}
    BY <2>1, <2>3, OneMoves DEF PoolInv, ThreadStates, Waiting, Woken
  <2>5. Cardinality(Woken') = Cardinality(Woken) + 1 /\ Cardinality(Woken) \in Nat
    BY <2>3, <2>4, InStateFinite, FS_AddElement DEF Woken
  <2>6. m_pool_state # "none"
    BY <2>3, RunsWhenStarted
  <2>. QED
    BY <1>1, <1>3, <2>2, <2>4, <2>5, <2>6 DEF PoolInv, PoolTypeOK, StopOrder,
       NobodySleepsOnWork, StopReachesEveryThread
<1>. QED
  BY <1>2, <1>3

(* A thread that came back takes one task: one less of each. *)
LEMMA PickTaskPreserves ==
    ASSUME PoolInv, NEW w \in Workers, PickTask(w)
    PROVE  PoolInv'
<1>0. m_pool_state # "none"
  BY RunsWhenStarted DEF PickTask, AtLock
<1>1. /\ m_tasks' \in Seq(Jobs)
      /\ Len(m_tasks') = Len(m_tasks) - 1
      /\ Len(m_tasks) \in Nat
      /\ Head(m_tasks) \in Jobs
  BY HeadTailProperties, LenProperties DEF PoolInv, PoolTypeOK, PickTask
<1>2. UNCHANGED <<m_pool_state, destroyer>> /\ job' \in [Workers -> Jobs \cup {NoJob}]
  BY <1>1 DEF PickTask, PoolInv, PoolTypeOK
<1>3. /\ thread' \in [Workers -> ThreadStates]
      /\ Waiting' = Waiting \ {w}
      /\ Woken' = Woken \ {w}
  BY OneMoves DEF PickTask, PoolInv, ThreadStates, Waiting, Woken
<1>4. w \notin Waiting
  BY DEF PickTask, AtLock, Waiting, InState
<1>5. /\ Cardinality(Woken') = Cardinality(Woken) - 1 \/ Cardinality(Woken') = Cardinality(Woken)
      /\ Cardinality(Woken') \in Nat
      /\ Cardinality(Woken) \in Nat
  BY <1>3, WokenWithout
<1>. QED
  BY <1>0, <1>1, <1>2, <1>3, <1>4, <1>5 DEF PoolInv, PoolTypeOK, StopOrder,
     NobodySleepsOnWork, StopReachesEveryThread

(* A thread goes to sleep only when the queue is empty. *)
LEMMA WaitPreserves ==
    ASSUME PoolInv, NEW w \in Workers, Wait(w)
    PROVE  PoolInv'
<1>0. m_pool_state # "none"
  BY RunsWhenStarted DEF Wait, AtLock
<1>1. UNCHANGED <<m_pool_state, m_tasks, job, destroyer>> /\ Len(m_tasks) = 0
  BY DEF Wait
<1>2. /\ thread' \in [Workers -> ThreadStates]
      /\ Woken' = Woken \ {w}
  BY OneMoves DEF Wait, PoolInv, ThreadStates, Woken
<1>3. Cardinality(Woken') \in Nat
  BY <1>2, WokenWithout
<1>4. destroyer = "none"
  BY DEF Wait, PoolInv, StopOrder
<1>. QED
  BY <1>0, <1>1, <1>2, <1>3, <1>4 DEF PoolInv, PoolTypeOK, StopOrder,
     NobodySleepsOnWork, StopReachesEveryThread

LEMMA WakeUpPreserves ==
    ASSUME PoolInv, NEW w \in Workers, WakeUp(w)
    PROVE  PoolInv'
<1>0. m_pool_state # "none"
  BY RunsWhenStarted DEF WakeUp
<1>1. UNCHANGED <<m_pool_state, m_tasks, job, destroyer>>
  BY DEF WakeUp
<1>2. /\ thread' \in [Workers -> ThreadStates]
      /\ Waiting' = Waiting \ {w}
      /\ Woken' = Woken \cup {w}
  BY OneMoves DEF WakeUp, PoolInv, ThreadStates, Waiting, Woken
<1>3. /\ Cardinality(Woken') = Cardinality(Woken) + 1 \/ Cardinality(Woken') = Cardinality(Woken)
      /\ Cardinality(Woken') \in Nat
      /\ Cardinality(Woken) \in Nat
  BY <1>2, WokenWith
<1>4. Len(m_tasks) \in Nat
  BY LenProperties DEF PoolInv, PoolTypeOK
<1>. QED
  BY <1>0, <1>1, <1>2, <1>3, <1>4 DEF PoolInv, PoolTypeOK, StopOrder,
     NobodySleepsOnWork, StopReachesEveryThread

LEMMA TaskDonePreserves ==
    ASSUME PoolInv, NEW w \in Workers, TaskDone(w)
    PROVE  PoolInv'
<1>0. m_pool_state # "none"
  BY RunsWhenStarted DEF TaskDone
<1>1. UNCHANGED <<m_pool_state, m_tasks, destroyer>> /\ job' \in [Workers -> Jobs \cup {NoJob}]
  BY DEF TaskDone, PoolInv, PoolTypeOK
<1>2. /\ thread' \in [Workers -> ThreadStates]
      /\ Waiting' = Waiting \ {w}
      /\ Woken' = Woken \ {w}
  BY OneMoves DEF TaskDone, PoolInv, ThreadStates, Waiting, Woken
<1>3. Waiting' = Waiting /\ Woken' = Woken
  BY <1>2 DEF TaskDone, Waiting, Woken, InState
<1>. QED
  BY <1>0, <1>1, <1>2, <1>3 DEF PoolInv, PoolTypeOK, StopOrder, NobodySleepsOnWork,
     StopReachesEveryThread

LEMMA ExitPreserves ==
    ASSUME PoolInv, NEW w \in Workers, ExitThread(w)
    PROVE  PoolInv'
<1>0. m_pool_state # "none"
  BY RunsWhenStarted DEF ExitThread, AtLock
<1>1. UNCHANGED <<m_pool_state, m_tasks, job, destroyer>> /\ m_pool_state = "STOPPED"
  BY DEF ExitThread
<1>2. thread' \in [Workers -> ThreadStates] /\ Waiting' = Waiting \ {w}
  BY OneMoves DEF ExitThread, PoolInv, ThreadStates, Waiting
<1>. QED
  BY <1>0, <1>1, <1>2 DEF PoolInv, PoolTypeOK, StopOrder, NobodySleepsOnWork,
     StopReachesEveryThread

LEMMA DestroyPreserves ==
    ASSUME PoolInv, destroy_threadpool
    PROVE  PoolInv'
<1>1. CASE StopPool
  BY <1>1 DEF StopPool, PoolInv, PoolTypeOK, StopOrder, NobodySleepsOnWork,
     StopReachesEveryThread
<1>2. CASE Broadcast
  <2>1. thread' \in [Workers -> ThreadStates] /\ Waiting' = {}
    BY <1>2 DEF Broadcast, Woke, PoolInv, PoolTypeOK, ThreadStates, Waiting, InState
  <2>. QED
    BY <1>2, <2>1 DEF Broadcast, PoolInv, PoolTypeOK, StopOrder,
       NobodySleepsOnWork, StopReachesEveryThread
<1>3. CASE Joined
  <2>1. Waiting' = Waiting /\ Waiting = {}
    BY <1>3 DEF Joined, Waiting, InState, PoolInv, StopReachesEveryThread
  <2>. QED
    BY <1>3, <2>1 DEF Joined, PoolInv, PoolTypeOK, StopOrder,
       NobodySleepsOnWork, StopReachesEveryThread
<1>. QED
  BY <1>1, <1>2, <1>3 DEF destroy_threadpool

LEMMA PoolStepPreserves ==
    ASSUME PoolInv, [PoolNext]_poolVars
    PROVE  PoolInv'
<1>1. CASE UNCHANGED poolVars
  BY <1>1 DEF poolVars, PoolInv, PoolTypeOK, StopOrder, NobodySleepsOnWork,
     StopReachesEveryThread, Waiting, Woken, InState
<1>2. CASE PoolNext
  BY <1>2, StartPreserves, AddTaskPreserves, PickTaskPreserves, WaitPreserves,
     WakeUpPreserves, TaskDonePreserves, ExitPreserves, DestroyPreserves
     DEF PoolNext, execute_thread
<1>. QED
  BY <1>1, <1>2

(* The inductive invariant. *)
THEOREM PoolInvHolds == PoolSpec => []PoolInv
<1>1. PoolInit => PoolInv
  <2>1. ASSUME PoolInit PROVE Waiting = {}
    BY <2>1 DEF PoolInit, Waiting, InState
  <2>. QED
    BY <2>1 DEF PoolInit, PoolInv, PoolTypeOK, ThreadStates, StopOrder,
       NobodySleepsOnWork, StopReachesEveryThread
<1>2. PoolInv /\ [PoolNext]_poolVars => PoolInv'
  BY PoolStepPreserves
<1>. QED
  BY <1>1, <1>2, PTL DEF PoolSpec

(* Every set of threads: the state of the pool is well formed. *)
THEOREM PoolTypes == PoolSpec => []PoolTypeOK
<1>1. PoolInv => PoolTypeOK
  BY DEF PoolInv
<1>. QED
  BY <1>1, PoolInvHolds, PTL

(* No wakeup of add_task is lost, however the threads interleave, and      *)
(* whatever spurious wakeups the condition variable has (threadpool.cpp).  *)
THEOREM NoLostWakeup == PoolSpec => []NobodySleepsOnWork
<1>1. PoolInv => NobodySleepsOnWork
  BY DEF PoolInv
<1>. QED
  BY <1>1, PoolInvHolds, PTL

(* After the broadcast of destroy_threadpool no thread sleeps: its joins   *)
(* wait for threads only that can end.                                     *)
THEOREM StopIsSeen == PoolSpec => []StopReachesEveryThread
<1>1. PoolInv => StopReachesEveryThread
  BY DEF PoolInv
<1>. QED
  BY <1>1, PoolInvHolds, PTL
-----------------------------------------------------------------------------
(* The server uses its pool as the pool is meant to be used: every step is *)
(* a step of the pool, or leaves it alone.                                 *)
LEMMA ServerStepsThePool ==
    ASSUME [Next]_vars
    PROVE  [PoolNext]_poolVars
<1>1. CASE UNCHANGED vars
  BY <1>1 DEF vars
<1>2. CASE Connect
  BY <1>2 DEF Connect
<1>3. ASSUME NEW c \in Conns, Peer(c)
      PROVE  UNCHANGED poolVars
  BY <1>3 DEF Peer, Ask, PeerCloses
<1>4. ASSUME NEW t \in Threads, close_and_release(t)
      PROVE  UNCHANGED poolVars
  BY <1>4 DEF close_and_release, CloseRemoves, CloseChecks, CloseStops, CloseFrees
<1>5. CASE start_event_loop
  <2>1. ASSUME NEW c \in Conns, multi_thread_handle_read_event(c)
        PROVE  PoolNext
    BY <2>1, HttpAssumption DEF multi_thread_handle_read_event, PoolNext
  <2>2. CASE MainReturns
    BY <2>2 DEF MainReturns, PoolNext
  <2>3. CASE \/ epoll_wait
             \/ handle_accept_event
             \/ \E c \in Conns : WriteCloses(c) \/ handle_writeable_event(c)
             \/ IterationEnds
             \/ LoopEnds
    BY <2>3 DEF epoll_wait, handle_accept_event, WriteCloses, handle_writeable_event,
       IterationEnds, LoopEnds
  <2>. QED
    BY <1>4, <1>5, <2>1, <2>2, <2>3 DEF start_event_loop, Threads
<1>6. ASSUME NEW w \in Workers, read_func(w) \/ Idle(w)
      PROVE  [PoolNext]_poolVars
  <2>1. CASE Begin(w) \/ End(w) \/ Idle(w)
    BY <2>1 DEF Begin, End, Idle, PoolNext, execute_thread
  <2>2. CASE ReadInterrupted(w) \/ ReadFindsClosed(w) \/ Read(w) \/ Rearm(w)
    BY <2>2 DEF ReadInterrupted, ReadFindsClosed, Read, Rearm
  <2>. QED
    BY <1>4, <1>6, <2>1, <2>2 DEF read_func, Threads
<1>. QED
  BY <1>1, <1>2, <1>3, <1>5, <1>6 DEF Next

LEMMA ServerKeepsPoolInv == Spec => []PoolInv
<1>1. Init => PoolInv
  <2>1. ASSUME Init PROVE Waiting = {}
    BY <2>1 DEF Init, Waiting, InState
  <2>. QED
    BY <2>1 DEF Init, PoolInv, PoolTypeOK, ThreadStates, StopOrder,
       NobodySleepsOnWork, StopReachesEveryThread
<1>2. PoolInv /\ [Next]_vars => PoolInv'
  BY ServerStepsThePool, PoolStepPreserves
<1>. QED
  BY <1>1, <1>2, PTL DEF Spec

(* While a thread of the server's pool sleeps, every connection that waits *)
(* to be read has a thread on its way to it.                               *)
THEOREM NoConnectionLeftWaiting == Spec => []NobodySleepsOnWork
<1>1. PoolInv => NobodySleepsOnWork
  BY DEF PoolInv
<1>. QED
  BY <1>1, ServerKeepsPoolInv, PTL

(* When main joins the threads of the pool, none of them sleeps.           *)
THEOREM ShutdownReachesThreads == Spec => []StopReachesEveryThread
<1>1. PoolInv => StopReachesEveryThread
  BY DEF PoolInv
<1>. QED
  BY <1>1, ServerKeepsPoolInv, PTL
-----------------------------------------------------------------------------
(* The hand-over of connections between epoll, the event loop, the queue    *)
(* of the pool and its threads.                                            *)

Armed(c) == armed[c] # "none"
Listed(c) == c \in DOMAIN events
InQueue(q, c) == \E i \in DOMAIN q : q[i] = c
OnceInQueue(q, c) == \A i, j \in DOMAIN q : q[i] = c /\ q[j] = c => i = j
HeldBy(t, c) == pc[t] \in Holding /\ ConnOf(t) = c

(* Where the threads are in read_func and in the event loop.               *)
Places ==
    /\ armed \in [Conns -> {"none", "in", "out"}]
    /\ peer \in [Conns -> {"none", "open", "closed"}]
    /\ pc \in [Threads -> {"idle", "wait", "handle", "ended", "late"} \cup Holding]
    /\ pc[Loop] \in {"wait", "handle", "ended"} \cup Closing
    /\ \A w \in Workers : pc[w] \in {"idle", "late"} \cup Holding
    /\ \A w \in Workers : thread[w] = "running" <=> pc[w] # "idle"
    /\ \A w \in Workers : pc[w] # "idle" => job[w] \in Conns
    /\ pc[Loop] \in Closing => current \in Conns
    /\ pc[Loop] \in {"wait", "ended"} => DOMAIN events = {}
    /\ DOMAIN events \subseteq Conns \cup {ListenSocket}

(* A connection that is open has one holder, and one that is not has none. *)
Exclusive(c) ==
    /\ Armed(c) => ~ Listed(c) /\ ~ InQueue(m_tasks, c)
    /\ Listed(c) => ~ InQueue(m_tasks, c)
    /\ OnceInQueue(m_tasks, c)
    /\ \A t \in Threads : HeldBy(t, c) => ~ Armed(c) /\ ~ Listed(c) /\ ~ InQueue(m_tasks, c)
    /\ \A t, u \in Threads : HeldBy(t, c) /\ HeldBy(u, c) => t = u
    /\ peer[c] # "none" <=> \/ Armed(c)
                            \/ Listed(c)
                            \/ InQueue(m_tasks, c)
                            \/ \E t \in Threads : HeldBy(t, c)

HandOverInv == PoolInv /\ Places /\ \A c \in Conns : Exclusive(c)
-----------------------------------------------------------------------------
LEMMA AppendToQueue ==
    ASSUME NEW S, NEW q \in Seq(S), NEW j \in S, NEW c
    PROVE  /\ InQueue(Append(q, j), c) <=> InQueue(q, c) \/ c = j
           /\ OnceInQueue(q, c) /\ (c = j => ~ InQueue(q, c)) => OnceInQueue(Append(q, j), c)
<1>1. /\ DOMAIN q = 1 .. Len(q)
      /\ DOMAIN Append(q, j) = 1 .. Len(q) + 1
      /\ Len(q) \in Nat
      /\ \A i \in 1 .. Len(q) : Append(q, j)[i] = q[i]
      /\ Append(q, j)[Len(q) + 1] = j
  OBVIOUS
<1>. QED
  BY <1>1 DEF InQueue, OnceInQueue

LEMMA TailOfQueue ==
    ASSUME NEW S, NEW q \in Seq(S), q # <<>>, NEW c, OnceInQueue(q, c)
    PROVE  /\ InQueue(Tail(q), c) <=> InQueue(q, c) /\ c # Head(q)
           /\ OnceInQueue(Tail(q), c)
<1>1. /\ DOMAIN q = 1 .. Len(q)
      /\ DOMAIN Tail(q) = 1 .. Len(q) - 1
      /\ Len(q) \in Nat \ {0}
      /\ \A i \in 1 .. Len(q) - 1 : Tail(q)[i] = q[i + 1]
      /\ Head(q) = q[1]
  OBVIOUS
<1>2. ASSUME NEW i \in 1 .. Len(q), i # 1
      PROVE  i - 1 \in 1 .. Len(q) - 1 /\ Tail(q)[i - 1] = q[i]
  BY <1>1, <1>2
<1>3. OnceInQueue(Tail(q), c)
  <2>1. ASSUME NEW i \in DOMAIN Tail(q), NEW j \in DOMAIN Tail(q),
               Tail(q)[i] = c, Tail(q)[j] = c
        PROVE  i = j
    <3>1. i + 1 \in DOMAIN q /\ j + 1 \in DOMAIN q /\ q[i + 1] = c /\ q[j + 1] = c
      BY <1>1, <2>1
    <3>2. i + 1 = j + 1
      BY <3>1 DEF OnceInQueue
    <3>. QED
      BY <1>1, <3>2
  <2>. QED
    BY <2>1 DEF OnceInQueue
<1>4. ASSUME InQueue(Tail(q), c) PROVE InQueue(q, c) /\ c # Head(q)
  <2>1. PICK i \in DOMAIN Tail(q) : Tail(q)[i] = c
    BY <1>4 DEF InQueue
  <2>2. i + 1 \in DOMAIN q /\ q[i + 1] = c /\ i + 1 # 1 /\ 1 \in DOMAIN q
    BY <1>1, <2>1
  <2>. QED
    BY <1>1, <2>2 DEF InQueue, OnceInQueue
<1>5. ASSUME InQueue(q, c), c # Head(q) PROVE InQueue(Tail(q), c)
  <2>1. PICK i \in DOMAIN q : q[i] = c
    BY <1>5 DEF InQueue
  <2>2. i # 1
    BY <1>1, <1>5, <2>1
  <2>. QED
    BY <1>1, <1>2, <2>1, <2>2 DEF InQueue
<1>. QED
  BY <1>3, <1>4, <1>5

LEMMA HeadIsQueued ==
    ASSUME NEW S, NEW q \in Seq(S), q # <<>>
    PROVE  Head(q) \in S /\ InQueue(q, Head(q))
<1>1. 1 \in DOMAIN q /\ Head(q) = q[1] /\ q[1] \in S
  OBVIOUS
<1>. QED
  BY <1>1 DEF InQueue
-----------------------------------------------------------------------------
(* What a connection keeps when a step is not about it.                    *)
Unmoved(c) ==
    /\ Armed(c)' <=> Armed(c)
    /\ Listed(c)' <=> Listed(c)
    /\ InQueue(m_tasks, c)' <=> InQueue(m_tasks, c)
    /\ OnceInQueue(m_tasks, c) => OnceInQueue(m_tasks, c)'
    /\ \A t \in Threads : HeldBy(t, c)' <=> HeldBy(t, c)
    /\ peer'[c] # "none" <=> peer[c] # "none"

LEMMA UnmovedStaysExclusive ==
    ASSUME NEW c, Exclusive(c), Unmoved(c)
    PROVE  Exclusive(c)'
  BY DEF Exclusive, Unmoved

(* The steps of the peers, and of threads that sleep or wake up.           *)
LEMMA OthersPreserve ==
    ASSUME HandOverInv, PoolInv',
           UNCHANGED <<m_tasks, job, armed, pc, current, events>>,
           \A w \in Workers : thread'[w] = "running" <=> thread[w] = "running",
           \/ peer' = peer
           \/ \E c \in Conns : peer[c] = "open" /\ peer' = [peer EXCEPT ![c] = "closed"]
    PROVE  HandOverInv'
<1>1. Places'
  BY DEF HandOverInv, Places
<1>2. ASSUME NEW c \in Conns
      PROVE  Unmoved(c)
  <2>1. peer'[c] # "none" <=> peer[c] # "none"
    BY DEF HandOverInv, Places
  <2>. QED
    BY <2>1 DEF Unmoved, Armed, Listed, HeldBy, ConnOf
<1>. QED
  BY <1>1, <1>2, UnmovedStaysExclusive DEF HandOverInv

(* A thread that keeps its connection and goes on with it.                 *)
LEMMA KeepingPreserves ==
    ASSUME HandOverInv, PoolInv',
           NEW t \in Threads, NEW to \in Holding,
           t = Loop => to \in Closing,
           pc[t] \in Holding,
           pc' = [pc EXCEPT ![t] = to],
           UNCHANGED <<m_tasks, thread, job, armed, events, current, peer>>
    PROVE  HandOverInv'
<1>1. t \in Workers <=> t # Loop
  BY HttpAssumption DEF Threads
<1>2. /\ pc' \in [Threads -> {"idle", "wait", "handle", "ended", "late"} \cup Holding]
      /\ pc'[t] = to
      /\ \A u \in Threads \ {t} : pc'[u] = pc[u]
      /\ to \notin {"idle", "wait", "handle", "ended", "late"}
      /\ pc[t] \notin {"idle", "wait", "handle", "ended", "late"}
  BY DEF HandOverInv, Places, Holding, Closing
<1>3. Places'
  BY <1>1, <1>2 DEF HandOverInv, Places, Threads, Closing
<1>4. ASSUME NEW c \in Conns
      PROVE  Unmoved(c)
  <2>1. \A u \in Threads : HeldBy(u, c)' <=> HeldBy(u, c)
    BY <1>2 DEF HeldBy, ConnOf
  <2>. QED
    BY <2>1 DEF Unmoved, Armed, Listed
<1>. QED
  BY <1>3, <1>4, UnmovedStaysExclusive DEF HandOverInv
-----------------------------------------------------------------------------
(* From epoll to the list of events.                                       *)
LEMMA EpollWaitPreserves ==
    ASSUME HandOverInv, PoolInv', epoll_wait
    PROVE  HandOverInv'
<1>1. /\ UNCHANGED <<m_tasks, thread, job, current, peer>>
      /\ pc[Loop] = "wait"
      /\ pc' = [pc EXCEPT ![Loop] = "handle"]
      /\ armed' = Disarmed
      /\ DOMAIN events' = Ready
  BY DEF epoll_wait, poolVars, peers
<1>2. /\ Loop \in Threads
      /\ pc'[Loop] = "handle"
      /\ \A t \in Threads \ {Loop} : pc'[t] = pc[t]
      /\ \A w \in Workers : w \in Threads \ {Loop}
      /\ {"wait", "handle"} \cap Holding = {}
  BY <1>1, HttpAssumption DEF HandOverInv, Places, Threads, Holding, Closing
<1>3. Places'
  <2>1. armed' \in [Conns -> {"none", "in", "out"}]
    BY <1>1 DEF Disarmed, HandOverInv, Places
  <2>2. Ready \subseteq Conns \cup {ListenSocket}
    BY DEF Ready
  <2>3. pc' \in [Threads -> {"idle", "wait", "handle", "ended", "late"} \cup Holding]
    BY <1>1 DEF HandOverInv, Places
  <2>4. \A w \in Workers : pc'[w] = pc[w]
    BY <1>2
  <2>. QED
    BY <1>1, <1>2, <2>1, <2>2, <2>3, <2>4 DEF HandOverInv, Places, Closing
<1>4. ASSUME NEW c \in Conns
      PROVE  Exclusive(c)'
  <2>1. /\ ~ Listed(c)
        /\ c # ListenSocket
        /\ Exclusive(c)
    BY <1>1, HttpAssumption DEF HandOverInv, Places, Listed
  <2>2. /\ Listed(c)' <=> c \in Ready
        /\ Armed(c)' <=> Armed(c) /\ c \notin Ready
        /\ c \in Ready => Armed(c)
    BY <1>1, <2>1 DEF Listed, Armed, Disarmed, Ready, Readable, Writeable
  <2>3. \A t \in Threads : HeldBy(t, c)' <=> HeldBy(t, c)
    BY <1>1, <1>2 DEF HeldBy, ConnOf
  <2>. QED
    BY <1>1, <2>1, <2>2, <2>3 DEF Exclusive
<1>. QED
  BY <1>3, <1>4 DEF HandOverInv

(* A new connection is epoll's.                                            *)
LEMMA AcceptPreserves ==
    ASSUME HandOverInv, PoolInv', handle_accept_event
    PROVE  HandOverInv'
<1>1. PICK new \in Conns :
         /\ peer[new] = "none"
         /\ armed' = [armed EXCEPT ![new] = "in"]
         /\ peer' = [peer EXCEPT ![new] = "open"]
  BY DEF handle_accept_event
<1>2. /\ UNCHANGED <<m_tasks, thread, job, pc, current>>
      /\ pc[Loop] = "handle"
      /\ DOMAIN events' = DOMAIN events \ {ListenSocket}
  BY DEF handle_accept_event, Handles, poolVars
<1>3. Places'
  BY <1>1, <1>2 DEF HandOverInv, Places, Closing
<1>4. ASSUME NEW c \in Conns
      PROVE  Exclusive(c)'
  <2>1. Exclusive(c) /\ c # ListenSocket
    BY HttpAssumption DEF HandOverInv
  <2>2. /\ Listed(c)' <=> Listed(c)
        /\ Armed(c)' <=> Armed(c) \/ c = new
        /\ peer'[c] # "none" <=> peer[c] # "none" \/ c = new
        /\ \A t \in Threads : HeldBy(t, c)' <=> HeldBy(t, c)
    BY <1>1, <1>2, <2>1 DEF Listed, Armed, HeldBy, ConnOf, HandOverInv, Places
  <2>. QED
    BY <1>1, <1>2, <2>1, <2>2 DEF Exclusive
<1>. QED
  BY <1>3, <1>4 DEF HandOverInv

(* From the list of events to the queue.                                   *)
LEMMA QueueingPreserves ==
    ASSUME HandOverInv, PoolInv', NEW r \in Conns, multi_thread_handle_read_event(r)
    PROVE  HandOverInv'
<1>1. /\ UNCHANGED <<job, armed, pc, current, peer>>
      /\ pc[Loop] = "handle"
      /\ Listed(r)
      /\ DOMAIN events' = DOMAIN events \ {r}
      /\ m_tasks' = Append(m_tasks, r)
      /\ m_tasks \in Seq(Conns)
  BY HttpAssumption DEF multi_thread_handle_read_event, Handles, add_task, poolVars, peers, sockets,
     HandOverInv, PoolInv, PoolTypeOK, Listed
<1>2. \A w \in Workers : thread'[w] = "running" <=> thread[w] = "running"
  BY DEF multi_thread_handle_read_event, add_task, signal, Waiting, InState, HandOverInv,
     PoolInv, PoolTypeOK
<1>3. Places'
  BY <1>1, <1>2 DEF HandOverInv, Places, Closing
<1>4. ASSUME NEW c \in Conns
      PROVE  Exclusive(c)'
  <2>1. Exclusive(c)
    BY DEF HandOverInv
  <2>2. /\ Listed(c)' <=> Listed(c) /\ c # r
        /\ InQueue(m_tasks, c)' <=> InQueue(m_tasks, c) \/ c = r
        /\ OnceInQueue(m_tasks, c) /\ (c = r => ~ InQueue(m_tasks, c)) => OnceInQueue(m_tasks, c)'
    BY <1>1, AppendToQueue DEF Listed
  <2>3. /\ Armed(c)' <=> Armed(c)
        /\ \A t \in Threads : HeldBy(t, c)' <=> HeldBy(t, c)
    BY <1>1 DEF Armed, HeldBy, ConnOf
  <2>. QED
    BY <1>1, <2>1, <2>2, <2>3 DEF Exclusive
<1>. QED
  BY <1>3, <1>4 DEF HandOverInv

(* From the queue to a thread.                                             *)
LEMMA BeginPreserves ==
    ASSUME HandOverInv, PoolInv', NEW w \in Workers, Begin(w)
    PROVE  HandOverInv'
<1>1. /\ UNCHANGED <<armed, current, events, peer>>
      /\ thread[w] # "running"
      /\ m_tasks # <<>>
      /\ m_tasks' = Tail(m_tasks)
      /\ job' = [job EXCEPT ![w] = Head(m_tasks)]
      /\ thread' = [thread EXCEPT ![w] = "running"]
      /\ pc' = [pc EXCEPT ![w] = "read"]
      /\ m_tasks \in Seq(Conns)
      /\ thread \in [Workers -> ThreadStates]
      /\ job \in [Workers -> Conns \cup {NoJob}]
  BY HttpAssumption DEF Begin, PickTask, AtLock, sockets, loopVars, peers, HandOverInv,
     PoolInv, PoolTypeOK
<1>2. Head(m_tasks) \in Conns /\ InQueue(m_tasks, Head(m_tasks))
  BY <1>1, HeadIsQueued
<1>3. /\ w \in Threads /\ Loop \in Threads /\ w # Loop
      /\ pc[w] = "idle"
      /\ pc'[w] = "read"
      /\ "read" \in Holding /\ "idle" \notin Holding
      /\ \A t \in Threads \ {w} : pc'[t] = pc[t]
      /\ \A t \in Workers \ {w} : thread'[t] = thread[t] /\ job'[t] = job[t]
      /\ thread'[w] = "running" /\ job'[w] = Head(m_tasks)
  BY <1>1, HttpAssumption DEF HandOverInv, Places, Threads, Holding, Closing
<1>4. Places'
  <2>1. pc' \in [Threads -> {"idle", "wait", "handle", "ended", "late"} \cup Holding]
    BY <1>1, <1>3 DEF HandOverInv, Places
  <2>2. /\ \A t \in Workers : pc'[t] \in {"idle", "late"} \cup Holding
        /\ \A t \in Workers : thread'[t] = "running" <=> pc'[t] # "idle"
        /\ \A t \in Workers : pc'[t] # "idle" => job'[t] \in Conns
    BY <1>2, <1>3 DEF HandOverInv, Places, Threads
  <2>. QED
    BY <1>1, <1>3, <2>1, <2>2 DEF HandOverInv, Places
<1>5. ASSUME NEW c \in Conns
      PROVE  Exclusive(c)'
  <2>1. Exclusive(c)
    BY DEF HandOverInv
  <2>2. /\ InQueue(m_tasks, c)' <=> InQueue(m_tasks, c) /\ c # Head(m_tasks)
        /\ OnceInQueue(m_tasks, c)'
    BY <1>1, <2>1, TailOfQueue DEF Exclusive
  <2>3. /\ ~ HeldBy(w, c)
        /\ HeldBy(w, c)' <=> c = Head(m_tasks)
        /\ \A t \in Threads \ {w} : HeldBy(t, c)' <=> HeldBy(t, c)
    BY <1>1, <1>3 DEF HeldBy, ConnOf, Threads
  <2>4. (Armed(c)' <=> Armed(c)) /\ (Listed(c)' <=> Listed(c))
    BY <1>1 DEF Armed, Listed
  <2>. QED
    BY <1>1, <1>2, <1>3, <2>1, <2>2, <2>3, <2>4 DEF Exclusive
<1>. QED
  BY <1>4, <1>5 DEF HandOverInv
-----------------------------------------------------------------------------
(* From the list of events back to epoll.                                  *)
LEMMA ArmedAgainPreserves ==
    ASSUME HandOverInv, PoolInv', NEW r \in Conns, NEW kind \in {"in", "out"},
           pc[Loop] = "handle",
           Listed(r),
           DOMAIN events' = DOMAIN events \ {r},
           armed' = [armed EXCEPT ![r] = kind],
           UNCHANGED <<m_tasks, thread, job, pc, current, peer>>
    PROVE  HandOverInv'
<1>1. Places'
  BY DEF HandOverInv, Places, Closing
<1>2. ASSUME NEW c \in Conns
      PROVE  Exclusive(c)'
  <2>1. Exclusive(c)
    BY DEF HandOverInv
  <2>2. /\ Listed(c)' <=> Listed(c) /\ c # r
        /\ Armed(c)' <=> Armed(c) \/ c = r
        /\ \A t \in Threads : HeldBy(t, c)' <=> HeldBy(t, c)
    BY DEF Listed, Armed, HeldBy, ConnOf, HandOverInv, Places
  <2>. QED
    BY <2>1, <2>2 DEF Exclusive
<1>. QED
  BY <1>1, <1>2 DEF HandOverInv

(* From the list of events to the loop, which closes the connection.       *)
LEMMA LoopTakesPreserves ==
    ASSUME HandOverInv, PoolInv', NEW r \in Conns,
           pc[Loop] = "handle",
           Listed(r),
           DOMAIN events' = DOMAIN events \ {r},
           pc' = [pc EXCEPT ![Loop] = "close"],
           current' = r,
           UNCHANGED <<m_tasks, thread, job, armed, peer>>
    PROVE  HandOverInv'
<1>1. /\ Loop \in Threads
      /\ pc'[Loop] = "close"
      /\ "close" \in Closing /\ "close" \in Holding /\ "handle" \notin Holding
      /\ \A t \in Threads \ {Loop} : pc'[t] = pc[t] /\ ConnOf(t)' = ConnOf(t)
      /\ ConnOf(Loop)' = r
      /\ \A w \in Workers : w \in Threads \ {Loop}
  BY HttpAssumption DEF HandOverInv, Places, Threads, Holding, Closing, ConnOf
<1>2. Places'
  <2>1. pc' \in [Threads -> {"idle", "wait", "handle", "ended", "late"} \cup Holding]
    BY <1>1 DEF HandOverInv, Places
  <2>2. \A w \in Workers : pc'[w] = pc[w]
    BY <1>1
  <2>3. DOMAIN events' \subseteq Conns \cup {ListenSocket}
    BY DEF HandOverInv, Places
  <2>. QED
    BY <1>1, <2>1, <2>2, <2>3 DEF HandOverInv, Places
<1>3. ASSUME NEW c \in Conns
      PROVE  Exclusive(c)'
  <2>1. Exclusive(c)
    BY DEF HandOverInv
  <2>2. /\ Listed(c)' <=> Listed(c) /\ c # r
        /\ Armed(c)' <=> Armed(c)
        /\ ~ HeldBy(Loop, c)
        /\ HeldBy(Loop, c)' <=> c = r
        /\ \A t \in Threads \ {Loop} : HeldBy(t, c)' <=> HeldBy(t, c)
    BY <1>1 DEF Listed, Armed, HeldBy
  <2>. QED
    BY <1>1, <2>1, <2>2 DEF Exclusive
<1>. QED
  BY <1>2, <1>3 DEF HandOverInv

(* From a thread of the pool back to epoll.                                *)
LEMMA RearmPreserves ==
    ASSUME HandOverInv, PoolInv', NEW w \in Workers, Rearm(w)
    PROVE  HandOverInv'
<1>1. /\ UNCHANGED <<m_tasks, thread, job, current, events, peer>>
      /\ pc[w] \in {"EINTR", "READ_CONTINUE", "READ_OVER"}
      /\ armed' = [armed EXCEPT ![job[w]] = NextEvent(pc[w])]
      /\ pc' = [pc EXCEPT ![w] = "late"]
      /\ NextEvent(pc[w]) \in {"in", "out"}
  BY DEF Rearm, NextEvent, poolVars, loopVars, peers
<1>2. /\ w \in Threads /\ Loop \in Threads /\ w # Loop
      /\ job[w] \in Conns
      /\ pc'[w] = "late"
      /\ "late" \notin Holding /\ pc[w] \in Holding
      /\ \A t \in Threads \ {w} : pc'[t] = pc[t]
  BY <1>1, HttpAssumption DEF HandOverInv, Places, Threads, Holding, Closing
<1>3. Places'
  <2>1. pc' \in [Threads -> {"idle", "wait", "handle", "ended", "late"} \cup Holding]
    BY <1>1 DEF HandOverInv, Places
  <2>2. armed' \in [Conns -> {"none", "in", "out"}]
    BY <1>1, <1>2 DEF HandOverInv, Places
  <2>3. /\ \A t \in Workers : pc'[t] \in {"idle", "late"} \cup Holding
        /\ \A t \in Workers : thread'[t] = "running" <=> pc'[t] # "idle"
        /\ \A t \in Workers : pc'[t] # "idle" => job'[t] \in Conns
    BY <1>1, <1>2 DEF HandOverInv, Places, Threads
  <2>. QED
    BY <1>1, <1>2, <2>1, <2>2, <2>3 DEF HandOverInv, Places
<1>4. ASSUME NEW c \in Conns
      PROVE  Exclusive(c)'
  <2>1. Exclusive(c)
    BY DEF HandOverInv
  <2>2. Armed(c)' <=> Armed(c) \/ c = job[w]
    BY <1>1, <1>2 DEF Armed, HandOverInv, Places
  <2>3. /\ HeldBy(w, c) <=> c = job[w]
        /\ ~ HeldBy(w, c)'
        /\ \A t \in Threads \ {w} : HeldBy(t, c)' <=> HeldBy(t, c)
    BY <1>1, <1>2 DEF HeldBy, ConnOf
  <2>. QED
    BY <1>1, <1>2, <2>1, <2>2, <2>3 DEF Exclusive, Listed
<1>. QED
  BY <1>3, <1>4 DEF HandOverInv

(* A connection that is closed is nobody's, once it is freed.              *)
LEMMA FreePreserves ==
    ASSUME HandOverInv, PoolInv', NEW t \in Threads, CloseFrees(t)
    PROVE  HandOverInv'
<1> DEFINE r == ConnOf(t)
<1>1. /\ UNCHANGED <<m_tasks, thread, job, armed, events>>
      /\ pc[t] = "free"
      /\ peer' = [peer EXCEPT ![r] = "none"]
      /\ pc' = [pc EXCEPT ![t] = IF t = Loop THEN "handle" ELSE "late"]
      /\ t # Loop => current' = current
  BY DEF CloseFrees, poolVars, sockets
<1>2. /\ Loop \in Threads
      /\ \A w \in Workers : w \in Threads /\ w # Loop
      /\ t # Loop => t \in Workers
      /\ r \in Conns
      /\ pc[t] \in Holding
      /\ pc'[t] \notin Holding
      /\ pc'[t] = IF t = Loop THEN "handle" ELSE "late"
      /\ \A u \in Threads \ {t} : pc'[u] = pc[u]
  BY <1>1, HttpAssumption DEF HandOverInv, Places, Threads, Holding, Closing, ConnOf
<1>3. Places'
  <2>1. pc' \in [Threads -> {"idle", "wait", "handle", "ended", "late"} \cup Holding]
    BY <1>1 DEF HandOverInv, Places
  <2>2. peer' \in [Conns -> {"none", "open", "closed"}]
    BY <1>1 DEF HandOverInv, Places
  <2>3. /\ \A w \in Workers : pc'[w] \in {"idle", "late"} \cup Holding
        /\ \A w \in Workers : thread'[w] = "running" <=> pc'[w] # "idle"
        /\ \A w \in Workers : pc'[w] # "idle" => job'[w] \in Conns
    BY <1>1, <1>2 DEF HandOverInv, Places
  <2>4. CASE t = Loop
    BY <1>1, <1>2, <2>1, <2>2, <2>3, <2>4 DEF HandOverInv, Places, Closing
  <2>5. CASE t # Loop
    BY <1>1, <1>2, <2>1, <2>2, <2>3, <2>5 DEF HandOverInv, Places
  <2>. QED
    BY <2>4, <2>5
<1>4. ASSUME NEW c \in Conns
      PROVE  Exclusive(c)'
  <2>1. Exclusive(c)
    BY DEF HandOverInv
  <2>2. /\ HeldBy(t, c) <=> c = r
        /\ ~ HeldBy(t, c)'
        /\ \A u \in Threads \ {t} : HeldBy(u, c)' <=> HeldBy(u, c)
    BY <1>1, <1>2 DEF HeldBy, ConnOf
  <2>3. peer'[c] # "none" <=> peer[c] # "none" /\ c # r
    BY <1>1, <1>2 DEF HandOverInv, Places
  <2>. QED
    BY <1>1, <1>2, <2>1, <2>2, <2>3 DEF Exclusive, Armed, Listed
<1>. QED
  BY <1>3, <1>4 DEF HandOverInv

(* A thread that holds nothing moves on.                                   *)
LEMMA EmptyHandedPreserves ==
    ASSUME HandOverInv, PoolInv', NEW t \in Threads,
           pc[t] \notin Holding,
           pc'[t] \notin Holding,
           pc' = [pc EXCEPT ![t] = pc'[t]],
           \A u \in Threads \ {t} : u # Loop => job'[u] = job[u],
           current' = current,
           UNCHANGED <<m_tasks, armed, events, peer>>,
           Places'
    PROVE  HandOverInv'
<1>1. \A u \in Threads \ {t} : pc'[u] = pc[u]
  BY DEF HandOverInv, Places
<1>2. ASSUME NEW c \in Conns
      PROVE  Unmoved(c)
  <2>1. \A u \in Threads : HeldBy(u, c)' <=> HeldBy(u, c)
    BY <1>1 DEF HeldBy, ConnOf
  <2>. QED
    BY <2>1 DEF Unmoved, Armed, Listed
<1>. QED
  BY <1>2, UnmovedStaysExclusive DEF HandOverInv
-----------------------------------------------------------------------------
LEMMA WriteablePreserves ==
    ASSUME HandOverInv, PoolInv', NEW r \in Conns,
           WriteCloses(r) \/ handle_writeable_event(r)
    PROVE  HandOverInv'
<1>1. /\ pc[Loop] = "handle"
      /\ Listed(r)
      /\ DOMAIN events' = DOMAIN events \ {r}
      /\ UNCHANGED <<m_tasks, thread, job, peer>>
  BY DEF WriteCloses, handle_writeable_event, Handles, Listed, poolVars, peers
<1>2. CASE WriteCloses(r)
  <2>1. /\ pc' = [pc EXCEPT ![Loop] = "close"]
        /\ current' = r
        /\ armed' = armed
    BY <1>2 DEF WriteCloses, sockets
  <2>. QED
    BY <1>1, <2>1, LoopTakesPreserves
<1>3. CASE handle_writeable_event(r)
  <2>1. \/ \E kind \in {"in", "out"} : /\ armed' = [armed EXCEPT ![r] = kind]
                                       /\ UNCHANGED <<pc, current>>
        \/ /\ pc' = [pc EXCEPT ![Loop] = "close"]
           /\ current' = r
           /\ armed' = armed
    BY <1>3 DEF handle_writeable_event
  <2>2. CASE \E kind \in {"in", "out"} : /\ armed' = [armed EXCEPT ![r] = kind]
                                        /\ UNCHANGED <<pc, current>>
    BY <1>1, <2>2, ArmedAgainPreserves
  <2>3. CASE /\ pc' = [pc EXCEPT ![Loop] = "close"]
             /\ current' = r
             /\ armed' = armed
    BY <1>1, <2>3, LoopTakesPreserves
  <2>. QED
    BY <2>1, <2>2, <2>3
<1>. QED
  BY <1>2, <1>3

LEMMA ClosePreserves ==
    ASSUME HandOverInv, PoolInv', NEW t \in Threads, close_and_release(t)
    PROVE  HandOverInv'
<1>1. CASE CloseRemoves(t)
  <2>1. /\ UNCHANGED <<m_tasks, thread, job, events, current, peer>>
        /\ pc[t] = "close"
        /\ pc' = [pc EXCEPT ![t] = "check"]
        /\ armed' = [armed EXCEPT ![ConnOf(t)] = "none"]
    BY <1>1 DEF CloseRemoves, poolVars, loopVars, peers
  <2>2. ConnOf(t) \in Conns /\ HeldBy(t, ConnOf(t))
    BY <2>1, HttpAssumption DEF HandOverInv, Places, ConnOf, HeldBy, Holding, Closing, Threads
  <2>3. armed[ConnOf(t)] = "none"
    BY <2>2 DEF HandOverInv, Exclusive, Armed
  <2>4. armed' = armed
    BY <2>1, <2>2, <2>3 DEF HandOverInv, Places
  <2>. QED
    BY <2>1, <2>4, KeepingPreserves DEF Holding, Closing
<1>2. CASE CloseChecks(t) \/ CloseStops(t)
  <2>1. /\ UNCHANGED <<m_tasks, thread, job, armed, events, current, peer>>
        /\ pc[t] \in Closing
        /\ \E to \in Closing : pc' = [pc EXCEPT ![t] = to]
    BY <1>2 DEF CloseChecks, CloseStops, poolVars, sockets, loopVars, peers, Closing
  <2>. QED
    BY <2>1, KeepingPreserves DEF Holding
<1>3. CASE CloseFrees(t)
  BY <1>3, FreePreserves
<1>. QED
  BY <1>1, <1>2, <1>3 DEF close_and_release

LEMMA LoopMovesPreserve ==
    ASSUME HandOverInv, PoolInv', IterationEnds \/ LoopEnds
    PROVE  HandOverInv'
<1>1. /\ UNCHANGED <<m_tasks, thread, job, armed, events, current, peer>>
      /\ \E to \in {"wait", "ended"} : pc' = [pc EXCEPT ![Loop] = to]
      /\ pc[Loop] \in {"handle", "wait"}
      /\ DOMAIN events = {}
  BY DEF IterationEnds, LoopEnds, poolVars, sockets, loopVars, peers, HandOverInv, Places
<1>2. /\ Loop \in Threads
      /\ pc'[Loop] \in {"wait", "ended"}
      /\ pc' = [pc EXCEPT ![Loop] = pc'[Loop]]
      /\ \A w \in Workers : pc'[w] = pc[w]
      /\ {"wait", "ended", "handle"} \cap Holding = {}
  BY <1>1, HttpAssumption DEF HandOverInv, Places, Threads, Holding, Closing
<1>3. Places'
  <2>1. pc' \in [Threads -> {"idle", "wait", "handle", "ended", "late"} \cup Holding]
    BY <1>1 DEF HandOverInv, Places
  <2>. QED
    BY <1>1, <1>2, <2>1 DEF HandOverInv, Places, Closing
<1>. QED
  BY <1>1, <1>2, <1>3, EmptyHandedPreserves

LEMMA EndPreserves ==
    ASSUME HandOverInv, PoolInv', NEW w \in Workers, End(w)
    PROVE  HandOverInv'
<1>1. /\ UNCHANGED <<m_tasks, armed, events, current, peer>>
      /\ pc[w] = "late"
      /\ pc' = [pc EXCEPT ![w] = "idle"]
      /\ thread' = [thread EXCEPT ![w] = "lock"]
      /\ job' = [job EXCEPT ![w] = NoJob]
      /\ thread \in [Workers -> ThreadStates]
      /\ job \in [Workers -> Jobs \cup {NoJob}]
  BY DEF End, TaskDone, sockets, loopVars, peers, HandOverInv, PoolInv, PoolTypeOK
<1>2. /\ w \in Threads /\ w # Loop /\ Loop \in Threads
      /\ pc'[w] = "idle"
      /\ {"idle", "late"} \cap Holding = {}
      /\ \A u \in Threads \ {w} : pc'[u] = pc[u]
      /\ \A u \in Workers \ {w} : thread'[u] = thread[u] /\ job'[u] = job[u]
      /\ thread'[w] = "lock"
  BY <1>1, HttpAssumption DEF HandOverInv, Places, Threads, Holding, Closing
<1>3. Places'
  <2>1. pc' \in [Threads -> {"idle", "wait", "handle", "ended", "late"} \cup Holding]
    BY <1>1 DEF HandOverInv, Places
  <2>2. /\ \A t \in Workers : pc'[t] \in {"idle", "late"} \cup Holding
        /\ \A t \in Workers : thread'[t] = "running" <=> pc'[t] # "idle"
        /\ \A t \in Workers : pc'[t] # "idle" => job'[t] \in Conns
    BY <1>2 DEF HandOverInv, Places, Threads
  <2>. QED
    BY <1>1, <1>2, <2>1, <2>2 DEF HandOverInv, Places
<1>4. \A u \in Threads \ {w} : u # Loop => job'[u] = job[u]
  BY <1>2 DEF Threads
<1>. QED
  BY <1>1, <1>2, <1>3, <1>4, EmptyHandedPreserves

LEMMA ReadingPreserves ==
    ASSUME HandOverInv, PoolInv', NEW w \in Workers,
           ReadInterrupted(w) \/ ReadFindsClosed(w) \/ Read(w)
    PROVE  HandOverInv'
<1>1. /\ UNCHANGED <<m_tasks, thread, job, armed, events, current, peer>>
      /\ pc[w] = "read"
  BY DEF ReadInterrupted, ReadFindsClosed, Read, poolVars, sockets, loopVars, peers
<1>2. \E to \in Holding : pc' = [pc EXCEPT ![w] = to]
  <2>1. CASE ReadInterrupted(w) \/ ReadFindsClosed(w)
    BY <2>1 DEF ReadInterrupted, ReadFindsClosed, Holding, Closing
  <2>2. CASE Read(w)
    <3>1. PICK req : IF ParseResult(req) = "READ_CLOSE"
                       THEN pc' = [pc EXCEPT ![w] = "close"]
                       ELSE pc' = [pc EXCEPT ![w] = ParseResult(req)]
      BY <2>2 DEF Read
    <3>2. ParseResult(req) \in {"READ_CLOSE", "READ_CONTINUE", "READ_OVER"}
      BY DEF ParseResult
    <3>. QED
      BY <3>1, <3>2 DEF Holding, Closing
  <2>. QED
    BY <2>1, <2>2
<1>3. w \in Threads /\ w # Loop /\ "read" \in Holding
  BY HttpAssumption DEF Threads, Holding
<1>. QED
  BY <1>1, <1>2, <1>3, KeepingPreserves

(* Threads that sleep, wake up or end do not run a task.                   *)
LEMMA RunningUntouched ==
    ASSUME PoolInv, NEW w \in Workers, Wait(w) \/ WakeUp(w) \/ ExitThread(w)
    PROVE  \A u \in Workers : thread'[u] = "running" <=> thread[u] = "running"
  BY DEF Wait, WakeUp, ExitThread, AtLock, PoolInv, PoolTypeOK

LEMMA StopLeavesRunning ==
    ASSUME PoolInv, destroy_threadpool
    PROVE  \A u \in Workers : thread'[u] = "running" <=> thread[u] = "running"
  BY DEF destroy_threadpool, StopPool, Broadcast, Woke, Joined, PoolInv, PoolTypeOK
-----------------------------------------------------------------------------
LEMMA StepKeepsHandOver ==
    ASSUME HandOverInv, [Next]_vars
    PROVE  HandOverInv'
<1>0. PoolInv'
  BY ServerStepsThePool, PoolStepPreserves DEF HandOverInv
<1>1. CASE UNCHANGED vars
  BY <1>0, <1>1, OthersPreserve DEF vars, poolVars, sockets, loopVars, peers
<1>2. CASE Connect
  BY <1>0, <1>2, OthersPreserve DEF Connect, poolVars, sockets, loopVars
<1>3. ASSUME NEW c \in Conns, Peer(c)
      PROVE  HandOverInv'
  <2>1. /\ UNCHANGED <<poolVars, sockets, pc, loopVars>>
        /\ \/ peer' = peer
           \/ \E d \in Conns : peer[d] = "open" /\ peer' = [peer EXCEPT ![d] = "closed"]
    BY <1>3 DEF Peer, Ask, PeerCloses
  <2>. QED
    BY <1>0, <2>1, OthersPreserve DEF poolVars, sockets, loopVars
<1>4. CASE start_event_loop
  <2>1. CASE epoll_wait
    BY <1>0, <2>1, EpollWaitPreserves
  <2>2. CASE handle_accept_event
    BY <1>0, <2>2, AcceptPreserves
  <2>3. CASE \E c \in Conns : multi_thread_handle_read_event(c)
    BY <1>0, <2>3, QueueingPreserves
  <2>4. CASE \E c \in Conns : WriteCloses(c) \/ handle_writeable_event(c)
    BY <1>0, <2>4, WriteablePreserves
  <2>5. CASE close_and_release(Loop)
    BY <1>0, <2>5, ClosePreserves DEF Threads
  <2>6. CASE IterationEnds \/ LoopEnds
    BY <1>0, <2>6, LoopMovesPreserve
  <2>7. CASE MainReturns
    <3>1. /\ destroy_threadpool
          /\ UNCHANGED <<m_tasks, job, armed, pc, current, events, peer>>
      BY <2>7 DEF MainReturns, destroy_threadpool, StopPool, Broadcast, Joined, sockets,
         loopVars, peers
    <3>. QED
      BY <1>0, <3>1, StopLeavesRunning, OthersPreserve DEF HandOverInv
  <2>. QED
    BY <1>4, <2>1, <2>2, <2>3, <2>4, <2>5, <2>6, <2>7 DEF start_event_loop
<1>5. ASSUME NEW w \in Workers, read_func(w)
      PROVE  HandOverInv'
  <2>1. CASE Begin(w)
    BY <1>0, <2>1, BeginPreserves
  <2>2. CASE ReadInterrupted(w) \/ ReadFindsClosed(w) \/ Read(w)
    BY <1>0, <2>2, ReadingPreserves
  <2>3. CASE Rearm(w)
    BY <1>0, <2>3, RearmPreserves
  <2>4. CASE close_and_release(w)
    BY <1>0, <2>4, ClosePreserves DEF Threads
  <2>5. CASE End(w)
    BY <1>0, <2>5, EndPreserves
  <2>. QED
    BY <1>5, <2>1, <2>2, <2>3, <2>4, <2>5 DEF read_func
<1>6. ASSUME NEW w \in Workers, Idle(w)
      PROVE  HandOverInv'
  <2>1. /\ Wait(w) \/ WakeUp(w) \/ ExitThread(w)
        /\ UNCHANGED <<m_tasks, job, armed, pc, current, events, peer>>
    BY <1>6 DEF Idle, Wait, WakeUp, ExitThread, sockets, loopVars, peers
  <2>. QED
    BY <1>0, <2>1, RunningUntouched, OthersPreserve DEF HandOverInv
<1>. QED
  BY <1>1, <1>2, <1>3, <1>4, <1>5, <1>6 DEF Next

LEMMA InitHandsOver == Init => HandOverInv
<1>. SUFFICES ASSUME Init PROVE HandOverInv
  OBVIOUS
<1>1. PoolInv
  <2>1. Waiting = {}
    BY DEF Init, Waiting, InState
  <2>. QED
    BY <2>1 DEF Init, PoolInv, PoolTypeOK, ThreadStates, StopOrder,
       NobodySleepsOnWork, StopReachesEveryThread
<1>2. Places
  BY HttpAssumption DEF Init, Places, Threads, Holding, Closing
<1>3. \A c \in Conns : Exclusive(c)
  <2>1. \A t \in Threads : pc[t] \notin Holding
    BY DEF Init, Holding, Closing
  <2>2. DOMAIN events = {} /\ DOMAIN m_tasks = {}
    BY DEF Init
  <2>. QED
    BY <2>1, <2>2 DEF Init, Exclusive, Armed, Listed, InQueue, OnceInQueue, HeldBy
<1>. QED
  BY <1>1, <1>2, <1>3 DEF HandOverInv

(* Nobody holds a connection that is free, and just one one that is not.   *)
LEMMA ExclusiveHolder ==
    ASSUME NEW c \in Conns, Exclusive(c)
    PROVE  Cardinality(Holders(c)) = IF peer[c] = "none" THEN 0 ELSE 1
<1> DEFINE H == {h \in {"epoll"} : Armed(c)}
                  \cup {h \in {"events"} : Listed(c)}
                  \cup {i \in DOMAIN m_tasks : m_tasks[i] = c}
                  \cup {t \in Threads : HeldBy(t, c)}
<1>0. Holders(c) = H
  BY DEF Holders, Armed, Listed, HeldBy
<1>1. ASSUME peer[c] = "none" PROVE Cardinality(H) = 0
  <2>1. H = {}
    BY <1>1 DEF Exclusive, InQueue
  <2>. QED
    BY <2>1, FS_EmptySet
<1>2. ASSUME peer[c] # "none" PROVE Cardinality(H) = 1
  <2>1. \E h : H = {h}
    <3>1. CASE Armed(c)
      <4>1. H = {"epoll"}
        BY <3>1 DEF Exclusive, InQueue
      <4>. QED
        BY <4>1
    <3>2. CASE Listed(c)
      <4>1. H = {"events"}
        BY <3>2 DEF Exclusive, InQueue
      <4>. QED
        BY <4>1
    <3>3. CASE InQueue(m_tasks, c)
      <4>1. PICK i \in DOMAIN m_tasks : m_tasks[i] = c
        BY <3>3 DEF InQueue
      <4>2. \A j \in DOMAIN m_tasks : m_tasks[j] = c => j = i
        BY <4>1 DEF Exclusive, OnceInQueue
      <4>3. ~ Armed(c) /\ ~ Listed(c) /\ \A t \in Threads : ~ HeldBy(t, c)
        BY <3>3 DEF Exclusive
      <4>4. H = {i}
        BY <4>1, <4>2, <4>3
      <4>. QED
        BY <4>4
    <3>4. CASE \E t \in Threads : HeldBy(t, c)
      <4>1. PICK t \in Threads : HeldBy(t, c)
        BY <3>4
      <4>2. \A u \in Threads : HeldBy(u, c) => u = t
        BY <4>1 DEF Exclusive
      <4>3. ~ Armed(c) /\ ~ Listed(c) /\ ~ InQueue(m_tasks, c)
        BY <4>1 DEF Exclusive
      <4>4. H = {t}
        BY <4>1, <4>2, <4>3 DEF InQueue
      <4>. QED
        BY <4>4
    <3>. QED
      BY <1>2, <3>1, <3>2, <3>3, <3>4 DEF Exclusive
  <2>. QED
    BY <2>1, FS_Singleton
<1>. QED
  BY <1>0, <1>1, <1>2

(* A connection is with epoll, on the loop's list, in the queue or with    *)
(* one thread, and with just one of them: EPOLLONESHOT and the arming by    *)
(* whoever handled the event make the hand-over exact, however many        *)
(* connections and threads there are.                                      *)
THEOREM OneHolder == Spec => []HeldByOne
<1>1. HandOverInv => HeldByOne
  BY ExclusiveHolder DEF HandOverInv, HeldByOne
<1>. QED
  BY <1>1, InitHandsOver, StepKeepsHandOver, PTL DEF Spec
-----------------------------------------------------------------------------
(* The end of the loop.                                                    *)

(* The thread t has counted the connection c out and not freed it yet. *)
Removing == {"check", "stop", "free"}
Removed(c) == \E t \in Threads : pc[t] \in Removing /\ ConnOf(t) = c

(* The connections that count are those that are open and not being freed. *)
Counted ==
    /\ _eclients \subseteq Conns
    /\ IsFiniteSet(_eclients)
    /\ _clients = Cardinality(_eclients)
    /\ \A c \in Conns : c \in _eclients <=> peer[c] # "none" /\ ~ Removed(c)

(* Whoever found the count at zero has not written S_STOP yet. *)
Deciding == \E t \in Threads : pc[t] = "stop"

(* A stop is decided on when no connection is left, and only after the status *)
(* left S_RUN; what is accepted from then on is late.  The last conjunct is   *)
(* its own because a late _shutdown may overwrite S_STOP.                    *)
Stopping ==
    /\ _status \in {"S_RUN", "S_REJECT_CONN", "S_STOP"}
    /\ late \subseteq Conns
    /\ Deciding => _status # "S_RUN" /\ _eclients \subseteq late
    /\ _status = "S_STOP" => _eclients \subseteq late
    /\ pc[Loop] = "ended" => _eclients \subseteq late

(* An event of the listening socket is a connection in its queue. *)
Listening ==
    /\ connects \in Nat
    /\ connecting \in 0 .. connects
    /\ ListenSocket \in DOMAIN events => connecting > 0

Responses ==
    /\ response \in [Conns -> [bytes : Lengths \cup {0}, index : Nat]]
    /\ \A c \in Conns : response[c].index <= response[c].bytes

StopInv ==
    /\ HandOverInv /\ Counted /\ Stopping /\ Listening /\ Responses
    /\ current \in Conns \cup {NoConn}
-----------------------------------------------------------------------------
LEMMA InitStops == Init => StopInv
<1>. SUFFICES ASSUME Init PROVE StopInv
  OBVIOUS
<1>1. \A t \in Threads : pc[t] \notin Removing
  BY DEF Init, Removing
<1>2. Counted
  <2>1. IsFiniteSet({}) /\ Cardinality({}) = 0
    BY FS_EmptySet
  <2>. QED
    BY <1>1, <2>1 DEF Init, Counted, Removed
<1>3. Stopping
  BY <1>1 DEF Init, Stopping, Deciding, Removing, Threads
<1>4. Listening
  BY DEF Init, Listening
<1>5. Responses
  BY DEF Init, Responses, NoResponse
<1>. QED
  BY <1>2, <1>3, <1>4, <1>5, InitHandsOver DEF StopInv, Init

(* A step that accepts nothing, closes nothing and decides nothing. *)
Quiet ==
    /\ UNCHANGED <<_clients, _eclients, late>>
    /\ \A c \in Conns : peer'[c] # "none" <=> peer[c] # "none"
    /\ \A c \in Conns : Removed(c)' <=> Removed(c)
    /\ Deciding' => Deciding
    /\ _status' \in {_status, "S_REJECT_CONN"}
    /\ pc'[Loop] = "ended" => pc[Loop] = "ended"

LEMMA QuietKeepsStop ==
    ASSUME Counted, Stopping, Quiet
    PROVE  Counted' /\ Stopping'
<1>1. Counted'
  BY DEF Counted, Quiet
<1>2. Stopping'
  BY DEF Stopping, Quiet
<1>. QED
  BY <1>1, <1>2

(* Threads that move neither into the end of close_and_release nor out of it. *)
LEMMA MoveIsQuiet ==
    ASSUME HandOverInv,
           UNCHANGED <<_clients, _eclients, late>>,
           \A c \in Conns : peer'[c] # "none" <=> peer[c] # "none",
           _status' \in {_status, "S_REJECT_CONN"},
           NEW t \in Threads, NEW to,
           pc' = pc \/ pc' = [pc EXCEPT ![t] = to],
           pc' # pc => pc[t] \notin Removing /\ to \notin Removing \cup {"ended"},
           \A u \in Threads : pc[u] \in Removing => ConnOf(u)' = ConnOf(u)
    PROVE  Quiet
<1>1. \A u \in Threads : pc'[u] = pc[u] \/ (u = t /\ pc'[u] = to /\ pc' # pc)
  BY DEF HandOverInv, Places
<1>2. \A u \in Threads : pc'[u] \in Removing <=> pc[u] \in Removing
  BY <1>1
<1>3. \A u \in Threads : pc'[u] = "stop" => pc[u] = "stop"
  BY <1>1 DEF Removing
<1>4. \A c \in Conns : Removed(c)' <=> Removed(c)
  BY <1>2 DEF Removed
<1>5. pc'[Loop] = "ended" => pc[Loop] = "ended"
  BY <1>1 DEF Threads
<1>. QED
  BY <1>3, <1>4, <1>5 DEF Quiet, Deciding

LEMMA PeersAreQuiet ==
    ASSUME HandOverInv, Connect \/ \E c \in Conns : Peer(c)
    PROVE  Quiet
<1>1. /\ UNCHANGED <<_status, _clients, _eclients, late, pc, job, current>>
      /\ \/ peer' = peer
         \/ \E d \in Conns : peer[d] = "open" /\ peer' = [peer EXCEPT ![d] = "closed"]
  BY DEF Connect, Peer, Ask, PeerCloses, poolVars, sockets, loopVars
<1>2. \A c \in Conns : peer'[c] # "none" <=> peer[c] # "none"
  BY <1>1 DEF HandOverInv, Places
<1>3. \A u \in Threads : ConnOf(u)' = ConnOf(u)
  BY <1>1 DEF ConnOf
<1>. QED
  BY <1>1, <1>2, <1>3, MoveIsQuiet DEF Threads

LEMMA LoopIsQuiet ==
    ASSUME HandOverInv,
           \/ epoll_wait
           \/ \E c \in Conns : multi_thread_handle_read_event(c) \/ WriteCloses(c)
                                  \/ handle_writeable_event(c)
           \/ MainReturns
    PROVE  Quiet
<1>1. /\ UNCHANGED <<_status, _clients, _eclients, late, peer, job>>
      /\ \/ UNCHANGED <<pc, current>>
         \/ /\ pc[Loop] \in {"wait", "handle"}
            /\ \E to \in {"handle", "close"} : pc' = [pc EXCEPT ![Loop] = to]
  <2>1. CASE epoll_wait
    BY <2>1 DEF epoll_wait, poolVars, peers
  <2>2. ASSUME NEW c \in Conns, multi_thread_handle_read_event(c)
        PROVE  UNCHANGED <<_status, _clients, _eclients, late, peer, job, pc, current>>
    BY <2>2 DEF multi_thread_handle_read_event, add_task, sockets, peers
  <2>3. ASSUME NEW c \in Conns, WriteCloses(c)
        PROVE  <1>1!1 /\ pc[Loop] = "handle" /\ pc' = [pc EXCEPT ![Loop] = "close"]
    BY <2>3 DEF WriteCloses, Handles, poolVars, sockets, peers
  <2>4. ASSUME NEW c \in Conns, handle_writeable_event(c)
        PROVE  /\ <1>1!1
               /\ \/ UNCHANGED <<pc, current>>
                  \/ pc[Loop] = "handle" /\ pc' = [pc EXCEPT ![Loop] = "close"]
    BY <2>4 DEF handle_writeable_event, Handles, poolVars
  <2>5. CASE MainReturns
    BY <2>5 DEF MainReturns, destroy_threadpool, StopPool, Broadcast, Joined, sockets, loopVars,
       peers
  <2>. QED
    BY <2>1, <2>2, <2>3, <2>4, <2>5
<1>2. Loop \in Threads /\ {"wait", "handle", "close"} \cap (Removing \cup {"ended"}) = {}
  BY DEF Threads, Removing
<1>3. \A u \in Threads : pc[u] \in Removing => ConnOf(u)' = ConnOf(u)
  BY <1>1, <1>2 DEF ConnOf
<1>. QED
  BY <1>1, <1>2, <1>3, MoveIsQuiet

LEMMA ReadersAreQuiet ==
    ASSUME HandOverInv, NEW w \in Workers,
           \/ Begin(w) \/ ReadInterrupted(w) \/ ReadFindsClosed(w) \/ Read(w) \/ Rearm(w)
           \/ End(w) \/ Idle(w)
    PROVE  Quiet
<1>1. /\ UNCHANGED <<_clients, _eclients, late, peer, current>>
      /\ _status' \in {_status, "S_REJECT_CONN"}
  BY DEF Begin, ReadInterrupted, ReadFindsClosed, Read, Respond, Rearm, End, Idle, sockets,
     loopVars, peers
<1>2. /\ w \in Threads /\ w # Loop
      /\ pc \in [Threads -> {"idle", "wait", "handle", "ended", "late"} \cup Holding]
      /\ thread[w] = "running" <=> pc[w] # "idle"
  BY HttpAssumption DEF HandOverInv, Places, Threads
<1>3. \/ UNCHANGED <<pc, job>>
      \/ /\ pc[w] \notin Removing
         /\ \E to \in {"idle", "late", "read", "EINTR", "READ_CONTINUE", "READ_OVER", "close"} :
               pc' = [pc EXCEPT ![w] = to]
         /\ job' = job \/ \E j : job' = [job EXCEPT ![w] = j]
  <2>1. CASE Begin(w) \/ End(w)
    BY <1>2, <2>1 DEF Begin, End, PickTask, TaskDone, AtLock, Removing
  <2>2. CASE ReadInterrupted(w) \/ ReadFindsClosed(w) \/ Rearm(w)
    BY <2>2 DEF ReadInterrupted, ReadFindsClosed, Rearm, poolVars, Removing
  <2>3. CASE Read(w)
    <3>1. PICK req : pc' = [pc EXCEPT ![w] = IF ParseResult(req) = "READ_CLOSE" THEN "close"
                                             ELSE ParseResult(req)]
      BY <2>3 DEF Read
    <3>2. ParseResult(req) \in {"READ_CLOSE", "READ_CONTINUE", "READ_OVER"}
      BY DEF ParseResult
    <3>. QED
      BY <2>3, <3>1, <3>2 DEF Read, poolVars, Removing
  <2>4. CASE Idle(w)
    BY <2>4 DEF Idle, Wait, WakeUp, ExitThread
  <2>. QED
    BY <2>1, <2>2, <2>3, <2>4
<1>4. job \in [Workers -> Jobs \cup {NoJob}]
  BY DEF HandOverInv, PoolInv, PoolTypeOK
<1>5. \A u \in Threads : pc[u] \in Removing => ConnOf(u)' = ConnOf(u)
  BY <1>1, <1>2, <1>3, <1>4 DEF ConnOf, Threads
<1>6. \A to \in {"idle", "late", "read", "EINTR", "READ_CONTINUE", "READ_OVER", "close"} :
         to \notin Removing \cup {"ended"}
  BY DEF Removing
<1>7. \E to : /\ pc' = pc \/ pc' = [pc EXCEPT ![w] = to]
              /\ pc' # pc => pc[w] \notin Removing /\ to \notin Removing \cup {"ended"}
  BY <1>3, <1>6
<1>8. \A c \in Conns : peer'[c] # "none" <=> peer[c] # "none"
  BY <1>1
<1>. QED
  BY <1>1, <1>2, <1>5, <1>7, <1>8, MoveIsQuiet
-----------------------------------------------------------------------------
(* The count says whether a connection is left. *)
LEMMA NoneLeft ==
    ASSUME Counted, Stopping, NoClientsLeft
    PROVE  _eclients = {} /\ _status = "S_REJECT_CONN"
  BY FS_EmptySet DEF Counted, NoClientsLeft

(* A new connection counts, and if the status left S_RUN it is late. *)
LEMMA AcceptKeepsStop ==
    ASSUME StopInv, handle_accept_event
    PROVE  Counted' /\ Stopping'
<1>1. PICK new \in Conns \ _eclients :
         /\ peer[new] = "none"
         /\ _eclients' = _eclients \cup {new}
         /\ _clients' = _clients + 1
         /\ peer' = [peer EXCEPT ![new] = "open"]
         /\ late' = IF _status = "S_RUN" THEN late ELSE late \cup {new}
  BY DEF handle_accept_event
<1>2. UNCHANGED <<pc, job, current>> /\ pc[Loop] = "handle"
  BY DEF handle_accept_event, Handles, poolVars
<1>3. (\A c : Removed(c)' <=> Removed(c)) /\ (Deciding' <=> Deciding)
  BY <1>2 DEF Removed, Deciding, ConnOf
<1>4. Counted'
  <2>1. IsFiniteSet(_eclients') /\ Cardinality(_eclients') = Cardinality(_eclients) + 1
    BY <1>1, FS_AddElement DEF StopInv, Counted
  <2>2. ~ Removed(new)
    <3>1. \A t \in Threads : ~ HeldBy(t, new)
      BY <1>1 DEF StopInv, HandOverInv, Exclusive
    <3>. QED
      BY <3>1 DEF Removed, Removing, HeldBy, Holding, Closing
  <2>3. /\ peer'[new] = "open"
        /\ \A c \in Conns \ {new} : peer'[c] = peer[c]
    BY <1>1 DEF StopInv, HandOverInv, Places
  <2>. QED
    BY <1>1, <1>3, <2>1, <2>2, <2>3 DEF StopInv, Counted
<1>5. Stopping'
  <2>1. _status' = _status \/ (_status' = "S_STOP" /\ _status # "S_RUN" /\ _eclients = {})
    BY NoneLeft DEF handle_accept_event, StopInv
  <2>. QED
    BY <1>1, <1>2, <1>3, <2>1 DEF StopInv, Stopping
<1>. QED
  BY <1>4, <1>5

(* The loop decides on the stop at the end of an iteration, and is left. *)
LEMMA LoopKeepsStop ==
    ASSUME StopInv, IterationEnds \/ LoopEnds
    PROVE  Counted' /\ Stopping'
<1>1. /\ UNCHANGED <<_clients, _eclients, late, peer, job, current>>
      /\ pc[Loop] \in {"wait", "handle"}
      /\ \/ /\ pc' = [pc EXCEPT ![Loop] = "wait"]
            /\ _status' = _status \/ (_status' = "S_STOP" /\ NoClientsLeft)
         \/ /\ pc' = [pc EXCEPT ![Loop] = "ended"]
            /\ _status = "S_STOP" /\ _status' = _status
  BY DEF IterationEnds, LoopEnds, poolVars, sockets, loopVars, peers
<1>2. \A t \in Threads : pc'[t] = pc[t] \/ (pc[t] \notin Removing /\ pc'[t] \notin Removing)
  BY <1>1 DEF StopInv, HandOverInv, Places, Removing
<1>3. (\A c : Removed(c)' <=> Removed(c)) /\ (Deciding' => Deciding)
  BY <1>1, <1>2 DEF Removed, Deciding, ConnOf, Removing
<1>4. Counted'
  BY <1>1, <1>3 DEF StopInv, Counted
<1>5. _status' = "S_STOP" \/ pc'[Loop] = "ended" => _eclients \subseteq late
  <2>1. Loop \in Threads /\ pc[Loop] # "ended"
    BY <1>1 DEF Threads
  <2>. QED
    BY <1>1, <2>1, NoneLeft DEF StopInv, Stopping, HandOverInv, Places
<1>6. Deciding' => _status' # "S_RUN" /\ _eclients \subseteq late
  BY <1>1, <1>3 DEF StopInv, Stopping
<1>7. _status' \in {"S_RUN", "S_REJECT_CONN", "S_STOP"}
  BY <1>1 DEF StopInv, Stopping
<1>. QED
  BY <1>1, <1>4, <1>5, <1>6, <1>7 DEF StopInv, Stopping
-----------------------------------------------------------------------------
(* close_and_release, by the loop or by a thread of the pool. *)

(* The connection that is closed is held by the thread that closes it. *)
LEMMA ClosingHolds ==
    ASSUME HandOverInv, NEW t \in Threads, pc[t] \in Closing
    PROVE  /\ ConnOf(t) \in Conns
           /\ peer[ConnOf(t)] # "none"
           /\ \A u \in Threads : pc[u] \in Holding /\ ConnOf(u) = ConnOf(t) => u = t
<1>1. ConnOf(t) \in Conns
  BY DEF HandOverInv, Places, ConnOf, Threads, Closing
<1>2. HeldBy(t, ConnOf(t))
  BY DEF HeldBy, Holding
<1>. QED
  BY <1>1, <1>2 DEF HandOverInv, Exclusive, HeldBy

LEMMA RemoveKeepsStop ==
    ASSUME StopInv, NEW t \in Threads, CloseRemoves(t)
    PROVE  Counted' /\ Stopping'
<1> DEFINE c == ConnOf(t)
<1>1. /\ UNCHANGED <<_status, late, peer, job, current>>
      /\ pc[t] = "close"
      /\ pc' = [pc EXCEPT ![t] = "check"]
      /\ _eclients' = _eclients \ {c}
      /\ _clients' = _clients - 1
  BY DEF CloseRemoves, CountWithout, poolVars, loopVars, peers
<1>2. /\ c \in Conns
      /\ peer[c] # "none"
      /\ \A u \in Threads : pc[u] \in Holding /\ ConnOf(u) = c => u = t
  BY <1>1, ClosingHolds DEF StopInv, Closing
<1>3. pc'[t] = "check" /\ \A u \in Threads \ {t} : pc'[u] = pc[u]
  BY <1>1 DEF StopInv, HandOverInv, Places
<1>4. \A u \in Threads : ConnOf(u)' = ConnOf(u)
  BY <1>1 DEF ConnOf
<1>5. ~ Removed(c)
  BY <1>1, <1>2 DEF Removed, Removing, Holding, Closing
<1>6. \A d : Removed(d)' <=> Removed(d) \/ d = c
  BY <1>1, <1>3, <1>4 DEF Removed, Removing
<1>7. Deciding' => Deciding
  BY <1>3 DEF Deciding
<1>8. Counted'
  <2>1. c \in _eclients
    BY <1>2, <1>5 DEF StopInv, Counted
  <2>2. IsFiniteSet(_eclients') /\ Cardinality(_eclients') = Cardinality(_eclients) - 1
    BY <1>1, <2>1, FS_RemoveElement DEF StopInv, Counted
  <2>. QED
    BY <1>1, <1>6, <2>2 DEF StopInv, Counted
<1>9. pc'[Loop] = "ended" => pc[Loop] = "ended"
  BY <1>3 DEF Threads
<1>. QED
  BY <1>1, <1>7, <1>8, <1>9 DEF StopInv, Stopping

LEMMA CheckKeepsStop ==
    ASSUME StopInv, NEW t \in Threads, CloseChecks(t) \/ CloseStops(t)
    PROVE  Counted' /\ Stopping'
<1>1. /\ UNCHANGED <<_clients, _eclients, late, peer, job, current>>
      /\ pc[t] \in Removing
      /\ \E to \in {"stop", "free"} : pc' = [pc EXCEPT ![t] = to]
  BY DEF CloseChecks, CloseStops, poolVars, sockets, loopVars, peers, Removing
<1>2. /\ pc'[t] \in {"stop", "free"}
      /\ \A u \in Threads \ {t} : pc'[u] = pc[u]
  BY <1>1 DEF StopInv, HandOverInv, Places
<1>3. \A c : Removed(c)' <=> Removed(c)
  BY <1>1, <1>2 DEF Removed, Removing, ConnOf
<1>4. Counted'
  BY <1>1, <1>3 DEF StopInv, Counted
<1>5. \/ _status' = _status /\ (Deciding' => Deciding \/ NoClientsLeft)
      \/ _status' = "S_STOP" /\ Deciding
  <2>1. CASE CloseChecks(t)
    <3>1. _status' = _status /\ pc' = [pc EXCEPT ![t] = IF NoClientsLeft THEN "stop" ELSE "free"]
      BY <2>1 DEF CloseChecks
    <3>2. pc'[t] = "stop" => NoClientsLeft
      BY <3>1 DEF StopInv, HandOverInv, Places
    <3>. QED
      BY <1>2, <3>1, <3>2 DEF Deciding
  <2>2. CASE CloseStops(t)
    BY <2>2 DEF CloseStops, Deciding
  <2>. QED
    BY <2>1, <2>2
<1>6. Deciding \/ NoClientsLeft => _status # "S_RUN" /\ _eclients \subseteq late
  BY NoneLeft DEF StopInv, Stopping
<1>7. pc'[Loop] = "ended" => pc[Loop] = "ended"
  BY <1>2 DEF Threads
<1>. QED
  BY <1>1, <1>4, <1>5, <1>6, <1>7 DEF StopInv, Stopping

(* A connection is freed after it was counted out, so a late one that is    *)
(* forgotten does not count any more.                                       *)
LEMMA FreeKeepsStop ==
    ASSUME StopInv, NEW t \in Threads, CloseFrees(t)
    PROVE  Counted' /\ Stopping'
<1> DEFINE c == ConnOf(t)
<1>1. /\ UNCHANGED <<_status, _clients, _eclients, job>>
      /\ pc[t] = "free"
      /\ pc' = [pc EXCEPT ![t] = IF t = Loop THEN "handle" ELSE "late"]
      /\ current' = IF t = Loop THEN NoConn ELSE current
      /\ peer' = [peer EXCEPT ![c] = "none"]
      /\ late' = late \ {c}
  BY DEF CloseFrees, poolVars, sockets
<1>2. /\ c \in Conns
      /\ \A u \in Threads : pc[u] \in Holding /\ ConnOf(u) = c => u = t
  BY <1>1, ClosingHolds DEF StopInv, Closing
<1>3. pc'[t] \in {"handle", "late"} /\ \A u \in Threads \ {t} : pc'[u] = pc[u]
  BY <1>1 DEF StopInv, HandOverInv, Places
<1>4. \A u \in Threads \ {t} : ConnOf(u)' = ConnOf(u)
  BY <1>1 DEF ConnOf
<1>5. Removed(c)
  BY <1>1 DEF Removed, Removing
<1>6. \A d \in Conns \ {c} : Removed(d)' <=> Removed(d)
  BY <1>1, <1>3, <1>4 DEF Removed, Removing
<1>7. peer'[c] = "none" /\ \A d \in Conns \ {c} : peer'[d] = peer[d]
  BY <1>1, <1>2 DEF StopInv, HandOverInv, Places
<1>8. c \notin _eclients
  BY <1>2, <1>5 DEF StopInv, Counted
<1>9. Counted'
  BY <1>1, <1>6, <1>7, <1>8 DEF StopInv, Counted
<1>10. Deciding' => Deciding
  BY <1>3 DEF Deciding
<1>11. pc'[Loop] = "ended" => pc[Loop] = "ended"
  BY <1>3 DEF Threads
<1>. QED
  BY <1>1, <1>8, <1>9, <1>10, <1>11 DEF StopInv, Stopping
-----------------------------------------------------------------------------
LEMMA StepKeepsCount ==
    ASSUME StopInv, [Next]_vars
    PROVE  Counted' /\ Stopping'
<1>1. CASE UNCHANGED vars
  <2>1. Quiet
    BY <1>1 DEF Quiet, vars, poolVars, sockets, loopVars, peers, Removed, Deciding, ConnOf
  <2>. QED
    BY <2>1, QuietKeepsStop DEF StopInv
<1>2. CASE Connect \/ \E c \in Conns : Peer(c)
  BY <1>2, PeersAreQuiet, QuietKeepsStop DEF StopInv
<1>3. ASSUME NEW t \in Threads, close_and_release(t)
      PROVE  Counted' /\ Stopping'
  BY <1>3, RemoveKeepsStop, CheckKeepsStop, FreeKeepsStop DEF close_and_release
<1>4. CASE start_event_loop
  <2>1. CASE \/ epoll_wait
             \/ \E c \in Conns : multi_thread_handle_read_event(c) \/ WriteCloses(c)
                                    \/ handle_writeable_event(c)
             \/ MainReturns
    BY <2>1, LoopIsQuiet, QuietKeepsStop DEF StopInv
  <2>2. CASE handle_accept_event
    BY <2>2, AcceptKeepsStop
  <2>3. CASE IterationEnds \/ LoopEnds
    BY <2>3, LoopKeepsStop
  <2>. QED
    BY <1>3, <1>4, <2>1, <2>2, <2>3 DEF start_event_loop, Threads
<1>5. ASSUME NEW w \in Workers, read_func(w) \/ Idle(w)
      PROVE  Counted' /\ Stopping'
  <2>1. CASE \/ Begin(w) \/ ReadInterrupted(w) \/ ReadFindsClosed(w) \/ Read(w) \/ Rearm(w)
             \/ End(w) \/ Idle(w)
    BY <2>1, ReadersAreQuiet, QuietKeepsStop DEF StopInv
  <2>. QED
    BY <1>3, <1>5, <2>1 DEF read_func, Threads
<1>. QED
  BY <1>1, <1>2, <1>4, <1>5 DEF Next

(* Only Connect, epoll_wait and the accepting touch the listening socket. *)
LEMMA StepKeepsListening ==
    ASSUME StopInv, [Next]_vars
    PROVE  Listening'
<1>1. CASE \/ UNCHANGED <<connecting, connects, events>>
           \/ /\ UNCHANGED <<connecting, connects>>
              /\ \E e : DOMAIN events' = DOMAIN events \ {e}
  BY <1>1 DEF StopInv, Listening
<1>2. CASE Connect
  BY <1>2 DEF Connect, loopVars, StopInv, Listening
<1>3. CASE epoll_wait
  <2>1. ListenSocket \in Ready => connecting > 0
    BY HttpAssumption DEF Ready
  <2>. QED
    BY <1>3, <2>1 DEF epoll_wait, peers, StopInv, Listening
<1>4. CASE handle_accept_event
  BY <1>4 DEF handle_accept_event, Handles, StopInv, Listening
<1>5. ASSUME NEW t \in Threads, close_and_release(t)
      PROVE  UNCHANGED <<connecting, connects, events>>
  BY <1>5 DEF close_and_release, CloseRemoves, CloseChecks, CloseStops, CloseFrees, loopVars, peers
<1>6. ASSUME NEW c \in Conns, \/ multi_thread_handle_read_event(c) \/ WriteCloses(c)
                              \/ handle_writeable_event(c)
      PROVE  <1>1!1
  BY <1>6 DEF multi_thread_handle_read_event, WriteCloses, handle_writeable_event, Handles, peers
<1>7. ASSUME NEW w \in Workers, read_func(w) \/ Idle(w)
      PROVE  UNCHANGED <<connecting, connects, events>>
  <2>1. CASE \/ Begin(w) \/ ReadInterrupted(w) \/ ReadFindsClosed(w) \/ Read(w) \/ Rearm(w)
             \/ End(w) \/ Idle(w)
    BY <2>1 DEF Begin, ReadInterrupted, ReadFindsClosed, Read, Rearm, End, Idle, loopVars, peers
  <2>. QED
    BY <1>5, <1>7, <2>1 DEF read_func, Threads
<1>8. ASSUME NEW c \in Conns, Peer(c)
      PROVE  UNCHANGED <<connecting, connects, events>>
  BY <1>8 DEF Peer, Ask, PeerCloses, loopVars
<1>9. CASE IterationEnds \/ LoopEnds \/ MainReturns \/ UNCHANGED vars
  BY <1>1, <1>9 DEF IterationEnds, LoopEnds, MainReturns, vars, loopVars, peers
<1>10. CASE start_event_loop
  BY <1>1, <1>3, <1>4, <1>5, <1>6, <1>9, <1>10 DEF start_event_loop, Threads
<1>. QED
  BY <1>1, <1>2, <1>7, <1>8, <1>9, <1>10 DEF Next

(* A response in place of the old one: the same further on, or a new one. *)
LEMMA ResponseReplaced ==
    ASSUME Responses, NEW c, NEW res \in [bytes : Lengths \cup {0}, index : Nat],
           res.index <= res.bytes,
           response' = [response EXCEPT ![c] = res]
    PROVE  Responses'
<1>1. \A d \in Conns : response'[d] = IF d = c THEN res ELSE response[d]
  BY DEF Responses
<1>. QED
  BY <1>1 DEF Responses

(* What is sent is rolled back to what was taken, which is not more than is left. *)
LEMMA SendingMovesIndex ==
    ASSUME Responses, NEW c \in Conns, NEW nwrite \in 1 .. ReadSize(response[c])
    PROVE  LET res == [response[c] EXCEPT !.index = IndexAfter(response[c], nwrite)]
           IN /\ res \in [bytes : Lengths \cup {0}, index : Nat]
              /\ res.index <= res.bytes
<1>1. PICK b \in Lengths \cup {0}, i \in Nat : response[c] = [bytes |-> b, index |-> i]
  BY DEF Responses
<1>2. b \in Nat /\ i <= b /\ SS_WRITE_BUFFER_SIZE \in Nat
  BY <1>1, HttpAssumption DEF Responses
<1>3. PICK n \in Nat : n = ReadSize(response[c])
  BY <1>1, <1>2 DEF ReadSize, Least
<1>4. n <= b - i
  BY <1>1, <1>2, <1>3 DEF ReadSize, Least
<1>5. nwrite \in Nat /\ nwrite <= n
  BY <1>3
<1>6. IndexAfter(response[c], nwrite) = i + nwrite
  BY <1>1, <1>3, <1>5 DEF IndexAfter
<1>. QED
  BY <1>1, <1>2, <1>4, <1>5, <1>6

LEMMA StepKeepsResponses ==
    ASSUME StopInv, [Next]_vars
    PROVE  Responses'
<1>1. CASE response' = response
  BY <1>1 DEF StopInv, Responses
<1>2. ASSUME NEW c, Clear(c)
      PROVE  Responses'
  <2>1. /\ NoResponse \in [bytes : Lengths \cup {0}, index : Nat]
        /\ NoResponse.index <= NoResponse.bytes
    BY DEF NoResponse
  <2>. QED
    BY <1>2, <2>1, ResponseReplaced DEF Clear, StopInv
<1>3. ASSUME NEW t \in Threads, close_and_release(t)
      PROVE  Responses'
  <2>1. response' = response \/ Clear(ConnOf(t))
    BY <1>3 DEF close_and_release, CloseRemoves, CloseChecks, CloseStops, CloseFrees, contexts
  <2>. QED
    BY <1>1, <1>2, <2>1
<1>4. ASSUME NEW c \in Conns, handle_writeable_event(c)
      PROVE  Responses'
  <2>1. PICK nwrite \in 1 .. ReadSize(response[c]) :
           \/ response' = [response EXCEPT ![c].index = IndexAfter(response[c], nwrite)]
           \/ response' = response
           \/ Clear(c)
    BY <1>4 DEF handle_writeable_event, contexts
  <2>2. CASE response' = [response EXCEPT ![c].index = IndexAfter(response[c], nwrite)]
    BY <2>1, <2>2, SendingMovesIndex, ResponseReplaced DEF StopInv
  <2>. QED
    BY <1>1, <1>2, <2>1, <2>2
<1>5. ASSUME NEW w \in Workers, read_func(w) \/ Idle(w)
      PROVE  Responses'
  <2>1. CASE Begin(w) \/ ReadInterrupted(w) \/ ReadFindsClosed(w) \/ Rearm(w) \/ End(w) \/ Idle(w)
    BY <1>1, <2>1 DEF Begin, ReadInterrupted, ReadFindsClosed, Rearm, End, Idle, contexts
  <2>2. CASE Read(w)
    <3>1. \/ response' = response
          \/ \E n \in Lengths : response' = [response EXCEPT ![job[w]] = gen_response(n)]
      BY <2>2 DEF Read, Respond
    <3>2. ASSUME NEW n \in Lengths, response' = [response EXCEPT ![job[w]] = gen_response(n)]
          PROVE  Responses'
      <4>1. /\ gen_response(n) \in [bytes : Lengths \cup {0}, index : Nat]
            /\ gen_response(n).index <= gen_response(n).bytes
        BY HttpAssumption DEF gen_response
      <4>. QED
        BY <3>2, <4>1, ResponseReplaced DEF StopInv
    <3>. QED
      BY <1>1, <3>1, <3>2
  <2>. QED
    BY <1>3, <1>5, <2>1, <2>2 DEF read_func, Threads
<1>6. CASE start_event_loop
  <2>1. CASE handle_accept_event
    BY <1>2, <2>1 DEF handle_accept_event
  <2>2. CASE \/ epoll_wait
             \/ \E c \in Conns : multi_thread_handle_read_event(c) \/ WriteCloses(c)
             \/ IterationEnds \/ LoopEnds \/ MainReturns
    BY <1>1, <2>2 DEF epoll_wait, multi_thread_handle_read_event, WriteCloses, IterationEnds,
       LoopEnds, MainReturns, contexts
  <2>. QED
    BY <1>3, <1>4, <1>6, <2>1, <2>2 DEF start_event_loop, Threads
<1>7. CASE Connect \/ (\E c \in Conns : Peer(c)) \/ UNCHANGED vars
  BY <1>1, <1>7 DEF Connect, Peer, Ask, PeerCloses, vars, contexts
<1>. QED
  BY <1>5, <1>6, <1>7 DEF Next

LEMMA StepKeepsCurrent ==
    ASSUME StopInv, [Next]_vars
    PROVE  current' \in Conns \cup {NoConn}
<1>1. CASE current' = current
  BY <1>1 DEF StopInv
<1>2. ASSUME NEW t \in Threads, close_and_release(t)
      PROVE  current' \in {current, NoConn}
  BY <1>2 DEF close_and_release, CloseRemoves, CloseChecks, CloseStops, CloseFrees, loopVars
<1>3. ASSUME NEW w \in Workers, read_func(w) \/ Idle(w)
      PROVE  current' \in {current, NoConn}
  <2>1. CASE \/ Begin(w) \/ ReadInterrupted(w) \/ ReadFindsClosed(w) \/ Read(w) \/ Rearm(w)
             \/ End(w) \/ Idle(w)
    BY <2>1 DEF Begin, ReadInterrupted, ReadFindsClosed, Read, Rearm, End, Idle, loopVars
  <2>. QED
    BY <1>2, <1>3, <2>1 DEF read_func, Threads
<1>4. ASSUME NEW c \in Conns, \/ multi_thread_handle_read_event(c) \/ WriteCloses(c)
                              \/ handle_writeable_event(c)
      PROVE  current' \in {current, c}
  BY <1>4 DEF multi_thread_handle_read_event, WriteCloses, handle_writeable_event
<1>5. CASE epoll_wait \/ handle_accept_event \/ IterationEnds \/ LoopEnds \/ MainReturns
  BY <1>1, <1>5 DEF epoll_wait, handle_accept_event, IterationEnds, LoopEnds, MainReturns, loopVars
<1>6. CASE start_event_loop
  BY <1>2, <1>4, <1>5, <1>6 DEF start_event_loop, Threads, StopInv
<1>7. CASE Connect \/ (\E c \in Conns : Peer(c)) \/ UNCHANGED vars
  BY <1>1, <1>7 DEF Connect, Peer, Ask, PeerCloses, vars, loopVars
<1>. QED
  BY <1>3, <1>6, <1>7 DEF Next, StopInv

LEMMA StopInvStep ==
    ASSUME StopInv, [Next]_vars
    PROVE  StopInv'
  BY StepKeepsHandOver, StepKeepsCount, StepKeepsListening, StepKeepsResponses, StepKeepsCurrent
     DEF StopInv

LEMMA StopInvHolds == Spec => []StopInv
  BY InitStops, StopInvStep, PTL DEF Spec

(* When the loop ends, although the count of connections and the status are   *)
(* read by several threads without a lock and S_STOP is written later, the    *)
(* only connections it abandons are those accepted after stop_epoll.          *)
THEOREM NobodyElseAbandoned == Spec => []OnlyLateComersAbandoned
<1>1. ASSUME StopInv
      PROVE  OnlyLateComersAbandoned
  <2>1. TypeOK
    BY <1>1 DEF StopInv, HandOverInv, PoolInv, Places, Counted, Stopping, Listening, Responses, TypeOK
  <2>. QED
    BY <1>1, <2>1 DEF StopInv, Stopping, OnlyLateComersAbandoned
<1>. QED
  BY <1>1, StopInvHolds, PTL
-----------------------------------------------------------------------------
(* What was asked on a connection, and how far its answer has come.        *)

(* The connection is on its way to a read, or to a part of its answer.     *)
Reading(c) ==
    \/ armed[c] = "in"
    \/ Listed(c) /\ events[c] = "in"
    \/ InQueue(m_tasks, c)
    \/ \E w \in Workers : job[w] = c /\ pc[w] \in {"read", "EINTR", "READ_CONTINUE"}
Writing(c) ==
    \/ armed[c] = "out"
    \/ Listed(c) /\ events[c] = "out"
    \/ \E w \in Workers : job[w] = c /\ pc[w] = "READ_OVER"

(* Nothing of a next request is there. *)
Fresh(c) == request[c] = NewRequest /\ inbox[c] = <<>>

(* The request was read up to n, and the rest of it is still to be received. *)
ReadSoFar(c, n) ==
    /\ inbox[c] = SubSeq(Wire(asked[c]), n + 1, Len(Wire(asked[c])))
    /\ n = 0 => request[c] = NewRequest
    /\ n # 0 => /\ request[c] = ReadUpTo(asked[c], n)
                /\ ParseResult(request[c]) = "READ_CONTINUE"

Asking(c) ==
    /\ asked[c] \in Requests
    /\ handled[c] = <<>>
    /\ expected[c] = 0
    /\ delivered[c] = <<>>
    /\ \E n \in Stops(asked[c]) \cup {0} : ReadSoFar(c, n)

(* The answer is sent up to the index; a peer that is gone misses it. *)
Answering(c) ==
    /\ inbox[c] = <<>>
    /\ asked[c] # NoRequest
    /\ expected[c] = response[c].bytes
    /\ peer[c] = "open" => delivered[c] = [i \in 1 .. response[c].index |-> i]

(* Only to be closed; the peer may have asked again. *)
AllSent(c) == response[c].index = response[c].bytes

Talk(c) ==
    /\ peer[c] = "none" => inbox[c] = <<>>
    /\ Reading(c) => Fresh(c) \/ Asking(c)
    /\ Writing(c) => Answering(c) \/ AllSent(c)

OnConns ==
    /\ DOMAIN request = Conns
    /\ DOMAIN asked = Conns
    /\ DOMAIN inbox = Conns
    /\ DOMAIN handled = Conns
    /\ DOMAIN expected = Conns
    /\ DOMAIN delivered = Conns

TalkInv == OnConns /\ \A c \in Conns : Talk(c)
-----------------------------------------------------------------------------
(* Steps that hand a connection on and say nothing. *)
SaysNothing(c) ==
    /\ Reading(c)' => Reading(c)
    /\ Writing(c)' => Writing(c)
    /\ peer'[c] = "none" => peer[c] = "none"
    /\ peer'[c] = "open" => peer[c] = "open"
    /\ request'[c] = request[c]
    /\ response'[c] = response[c]
    /\ asked'[c] = asked[c]
    /\ inbox'[c] = inbox[c]
    /\ handled'[c] = handled[c]
    /\ expected'[c] = expected[c]
    /\ delivered'[c] = delivered[c]

LEMMA SilenceKeepsTalk ==
    ASSUME NEW c, Talk(c), SaysNothing(c)
    PROVE  Talk(c)'
<1>1. Fresh(c)' <=> Fresh(c)
  BY DEF SaysNothing, Fresh
<1>2. \A n : ReadSoFar(c, n)' <=> ReadSoFar(c, n)
  BY DEF SaysNothing, ReadSoFar
<1>3. Asking(c)' <=> Asking(c)
  BY <1>2 DEF SaysNothing, Asking
<1>4. Answering(c) => Answering(c)'
  BY DEF SaysNothing, Answering
<1>5. AllSent(c) => AllSent(c)'
  BY DEF SaysNothing, AllSent
<1>. QED
  BY <1>1, <1>3, <1>4, <1>5 DEF SaysNothing, Talk

LEMMA MovesKeepTalk ==
    ASSUME TalkInv,
           UNCHANGED <<contexts, talk>>,
           \A c \in Conns : /\ Reading(c)' => Reading(c)
                            /\ Writing(c)' => Writing(c)
                            /\ peer'[c] = "none" => peer[c] = "none"
                            /\ peer'[c] = "open" => peer[c] = "open"
    PROVE  TalkInv'
<1>1. ASSUME NEW c \in Conns
      PROVE  Talk(c)'
  <2>1. SaysNothing(c)
    BY DEF SaysNothing, contexts, talk
  <2>. QED
    BY <2>1, SilenceKeepsTalk DEF TalkInv
<1>2. OnConns'
  BY DEF TalkInv, OnConns, contexts, talk
<1>. QED
  BY <1>1, <1>2 DEF TalkInv

(* A connection goes from a reader to a reader, or from a writer to a writer. *)
HandedOn(c) == (Reading(c)' => Reading(c)) /\ (Writing(c)' => Writing(c))

(* Threads that stay where they are, or leave a connection's reading and writing. *)
LEMMA StayingHandsOn ==
    ASSUME HandOverInv, NEW c \in Conns,
           armed'[c] \in {armed[c], "none"},
           Listed(c)' => Listed(c) /\ events'[c] = events[c],
           UNCHANGED <<m_tasks, job>>,
           \A w \in Workers : \/ pc'[w] \in {pc[w]} \cup {"idle", "late"} \cup Closing
                              \/ pc[w] = "read" /\ pc'[w] = "EINTR"
    PROVE  HandedOn(c)
<1>1. \A w \in Workers : /\ pc'[w] = "READ_OVER" => pc[w] = "READ_OVER"
                         /\ pc'[w] \in {"read", "EINTR", "READ_CONTINUE"} =>
                               pc[w] \in {"read", "EINTR", "READ_CONTINUE"}
  BY DEF Closing
<1>. QED
  BY <1>1 DEF HandedOn, Reading, Writing, Listed, InQueue

LEMMA EpollHandsOn ==
    ASSUME HandOverInv, epoll_wait, NEW c \in Conns
    PROVE  HandedOn(c)
<1>1. /\ armed' = Disarmed
      /\ DOMAIN events' = Ready
      /\ c \in Ready => events'[c] = armed[c]
      /\ UNCHANGED <<m_tasks, job>>
      /\ \A w \in Workers : pc'[w] = pc[w]
  BY HttpAssumption DEF epoll_wait, poolVars, HandOverInv, Places, Threads
<1>2. armed'[c] \in {armed[c], "none"}
  BY <1>1 DEF Disarmed
<1>. QED
  BY <1>1, <1>2 DEF HandedOn, Reading, Writing, Listed, InQueue

LEMMA QueueingHandsOn ==
    ASSUME HandOverInv, NEW r \in Conns, multi_thread_handle_read_event(r), NEW c \in Conns
    PROVE  HandedOn(c)
<1>1. /\ UNCHANGED <<job, armed, pc>>
      /\ Listed(r) /\ events[r] = "in"
      /\ Listed(c)' => Listed(c) /\ events'[c] = events[c]
      /\ m_tasks' = Append(m_tasks, r)
      /\ m_tasks \in Seq(Conns)
  BY HttpAssumption DEF multi_thread_handle_read_event, Handles, add_task, sockets,
     HandOverInv, PoolInv, PoolTypeOK, Listed
<1>2. InQueue(m_tasks, c)' => InQueue(m_tasks, c) \/ c = r
  BY <1>1, AppendToQueue
<1>. QED
  BY <1>1, <1>2 DEF HandedOn, Reading, Writing

LEMMA BeginHandsOn ==
    ASSUME HandOverInv, NEW w \in Workers, Begin(w), NEW c \in Conns
    PROVE  HandedOn(c)
<1>1. /\ UNCHANGED <<armed, events>>
      /\ m_tasks # <<>>
      /\ m_tasks' = Tail(m_tasks)
      /\ job' = [job EXCEPT ![w] = Head(m_tasks)]
      /\ pc' = [pc EXCEPT ![w] = "read"]
      /\ m_tasks \in Seq(Conns)
      /\ job \in [Workers -> Conns \cup {NoJob}]
  BY HttpAssumption DEF Begin, PickTask, sockets, loopVars, HandOverInv, PoolInv, PoolTypeOK
<1>2. InQueue(m_tasks, Head(m_tasks))
  BY <1>1, HeadIsQueued
<1>3. InQueue(m_tasks, c)' => InQueue(m_tasks, c)
  BY <1>1, TailOfQueue DEF HandOverInv, Exclusive
<1>4. /\ job'[w] = Head(m_tasks) /\ pc'[w] = "read"
      /\ \A u \in Workers \ {w} : job'[u] = job[u] /\ pc'[u] = pc[u]
  BY <1>1 DEF HandOverInv, Places, Threads
<1>. QED
  BY <1>1, <1>2, <1>3, <1>4 DEF HandedOn, Reading, Writing, Listed

LEMMA RearmHandsOn ==
    ASSUME HandOverInv, NEW w \in Workers, Rearm(w), NEW c \in Conns
    PROVE  HandedOn(c)
<1>1. /\ UNCHANGED <<m_tasks, job, events>>
      /\ armed' = [armed EXCEPT ![job[w]] = NextEvent(pc[w])]
      /\ pc[w] \in {"EINTR", "READ_CONTINUE", "READ_OVER"}
      /\ pc' = [pc EXCEPT ![w] = "late"]
  BY DEF Rearm, poolVars, loopVars
<1>2. \A u \in Workers : pc'[u] \in {pc[u], "late"}
  BY <1>1 DEF HandOverInv, Places, Threads
<1>3. CASE c # job[w]
  <2>1. armed'[c] = armed[c]
    BY <1>1, <1>3 DEF HandOverInv, Places
  <2>2. Listed(c)' => Listed(c) /\ events'[c] = events[c]
    BY <1>1 DEF Listed
  <2>3. \A u \in Workers : pc'[u] \in {pc[u]} \cup {"idle", "late"} \cup Closing
    BY <1>2
  <2>4. UNCHANGED <<m_tasks, job>>
    BY <1>1
  <2>. QED
    BY <2>1, <2>2, <2>3, <2>4, StayingHandsOn
<1>4. CASE c = job[w]
  <2>1. armed'[c] = NextEvent(pc[w])
    BY <1>1, <1>4 DEF HandOverInv, Places
  <2>2. /\ ~ Listed(c)
        /\ ~ InQueue(m_tasks, c)
        /\ \A u \in Workers : job[u] = c /\ pc[u] \in Holding => u = w
    <3>1. HeldBy(w, c) /\ w \in Threads
      BY <1>1, <1>4, HttpAssumption DEF HeldBy, ConnOf, Holding, Threads
    <3>2. \A u \in Workers : job[u] = c /\ pc[u] \in Holding => HeldBy(u, c) /\ u \in Threads
      BY HttpAssumption DEF HeldBy, ConnOf, Threads
    <3>. QED
      BY <3>1, <3>2 DEF HandOverInv, Exclusive
  <2>3. /\ Reading(c)' => NextEvent(pc[w]) = "in"
        /\ Writing(c)' => NextEvent(pc[w]) = "out"
    <3>1. \A u \in Workers : /\ job'[u] = job[u]
                             /\ pc'[u] \in {"read", "EINTR", "READ_CONTINUE", "READ_OVER"} =>
                                  pc[u] \in Holding /\ u # w
      BY <1>1 DEF Holding, HandOverInv, Places, Threads
    <3>. QED
      BY <1>1, <2>1, <2>2, <3>1 DEF Reading, Writing, Listed, InQueue
  <2>. QED
    BY <1>1, <1>4, <2>3 DEF HandedOn, Reading, Writing, NextEvent
<1>. QED
  BY <1>3, <1>4

(* The steps that are not about what is said. *)
Silent ==
    \/ UNCHANGED vars
    \/ Connect
    \/ \E c \in Conns : PeerCloses(c) \/ multi_thread_handle_read_event(c) \/ WriteCloses(c)
    \/ epoll_wait \/ IterationEnds \/ LoopEnds \/ MainReturns
    \/ \E t \in Threads : CloseRemoves(t) \/ CloseChecks(t) \/ CloseStops(t)
    \/ \E w \in Workers : \/ Begin(w) \/ ReadInterrupted(w) \/ ReadFindsClosed(w) \/ Rearm(w)
                          \/ End(w) \/ Idle(w)

LEMMA SilentIsSilent ==
    ASSUME Silent
    PROVE  UNCHANGED <<contexts, talk>>
<1>1. CASE UNCHANGED vars
  BY <1>1 DEF vars, peers
<1>2. CASE \/ Connect
           \/ \E c \in Conns : PeerCloses(c) \/ multi_thread_handle_read_event(c) \/ WriteCloses(c)
  BY <1>2 DEF Connect, PeerCloses, multi_thread_handle_read_event, WriteCloses, peers
<1>3. CASE epoll_wait \/ IterationEnds \/ LoopEnds \/ MainReturns
  BY <1>3 DEF epoll_wait, IterationEnds, LoopEnds, MainReturns, peers
<1>4. CASE \E t \in Threads : CloseRemoves(t) \/ CloseChecks(t) \/ CloseStops(t)
  BY <1>4 DEF CloseRemoves, CloseChecks, CloseStops, peers
<1>5. CASE \E w \in Workers : \/ Begin(w) \/ ReadInterrupted(w) \/ ReadFindsClosed(w) \/ Rearm(w)
                              \/ End(w) \/ Idle(w)
  BY <1>5 DEF Begin, ReadInterrupted, ReadFindsClosed, Rearm, End, Idle, peers
<1>. QED
  BY <1>1, <1>2, <1>3, <1>4, <1>5 DEF Silent

LEMMA SilentHandsOn ==
    ASSUME HandOverInv, Silent, NEW c \in Conns
    PROVE  HandedOn(c)
<1>1. CASE \/ UNCHANGED vars
           \/ Connect
           \/ \E d \in Conns : PeerCloses(d)
  <2>1. UNCHANGED <<m_tasks, job, armed, pc, events>>
    BY <1>1 DEF vars, Connect, PeerCloses, poolVars, sockets, loopVars
  <2>. QED
    BY <2>1 DEF HandedOn, Reading, Writing, Listed
<1>2. CASE IterationEnds \/ LoopEnds \/ MainReturns \/ \E d \in Conns : WriteCloses(d)
  <2> DEFINE Keeps == /\ UNCHANGED <<m_tasks, job, armed>>
                      /\ \A w \in Workers : pc'[w] = pc[w]
                      /\ Listed(c)' => Listed(c) /\ events'[c] = events[c]
  <2>1. Keeps
    <3>1. CASE IterationEnds
      BY <3>1, HttpAssumption DEF IterationEnds, poolVars, sockets, loopVars, Listed, HandOverInv,
         Places, Threads
    <3>2. CASE LoopEnds
      BY <3>2, HttpAssumption DEF LoopEnds, poolVars, sockets, loopVars, Listed, HandOverInv,
         Places, Threads
    <3>3. CASE MainReturns
      BY <3>3, HttpAssumption DEF MainReturns, destroy_threadpool, StopPool, Broadcast, Joined,
         poolVars, sockets, loopVars, Listed, HandOverInv, Places, Threads
    <3>4. CASE \E d \in Conns : WriteCloses(d)
      BY <3>4, HttpAssumption DEF WriteCloses, Handles, poolVars, sockets, loopVars, Listed,
         HandOverInv, Places, Threads
    <3>. QED
      BY <1>2, <3>1, <3>2, <3>3, <3>4
  <2>. QED
    BY <2>1 DEF HandedOn, Reading, Writing
<1>3. ASSUME NEW t \in Threads, CloseRemoves(t) \/ CloseChecks(t) \/ CloseStops(t)
      PROVE  HandedOn(c)
  <2>1. UNCHANGED <<m_tasks, job>> /\ UNCHANGED events
    BY <1>3 DEF CloseRemoves, CloseChecks, CloseStops, poolVars, loopVars
  <2>2. armed'[c] \in {armed[c], "none"}
    BY <1>3 DEF CloseRemoves, CloseChecks, CloseStops, sockets, HandOverInv, Places
  <2>3. \A w \in Workers : pc'[w] \in {pc[w]} \cup {"idle", "late"} \cup Closing
    BY <1>3 DEF CloseRemoves, CloseChecks, CloseStops, Closing, HandOverInv, Places, Threads
  <2>4. Listed(c)' => Listed(c) /\ events'[c] = events[c]
    BY <2>1 DEF Listed
  <2>. QED
    BY <2>1, <2>2, <2>3, <2>4, StayingHandsOn
<1>4. ASSUME NEW w \in Workers, ReadInterrupted(w) \/ ReadFindsClosed(w)
      PROVE  HandedOn(c)
  <2>1. UNCHANGED <<m_tasks, job>> /\ UNCHANGED <<armed, events>>
    BY <1>4 DEF ReadInterrupted, ReadFindsClosed, poolVars, sockets, loopVars
  <2>2. \A u \in Workers : \/ pc'[u] \in {pc[u]} \cup {"idle", "late"} \cup Closing
                           \/ pc[u] = "read" /\ pc'[u] = "EINTR"
    BY <1>4 DEF ReadInterrupted, ReadFindsClosed, Closing, HandOverInv, Places, Threads
  <2>3. armed'[c] \in {armed[c], "none"} /\ (Listed(c)' => Listed(c) /\ events'[c] = events[c])
    BY <2>1 DEF Listed
  <2>. QED
    BY <2>1, <2>2, <2>3, StayingHandsOn
<1>5. ASSUME NEW w \in Workers, End(w)
      PROVE  HandedOn(c)
  <2>1. /\ UNCHANGED <<m_tasks, armed, events>>
        /\ job' = [job EXCEPT ![w] = NoJob]
        /\ pc' = [pc EXCEPT ![w] = "idle"]
    BY <1>5 DEF End, TaskDone, sockets, loopVars
  <2>2. /\ pc'[w] = "idle"
        /\ \A u \in Workers \ {w} : job'[u] = job[u] /\ pc'[u] = pc[u]
    BY <2>1 DEF HandOverInv, PoolInv, PoolTypeOK, Places, Threads
  <2>. QED
    BY <2>1, <2>2 DEF HandedOn, Reading, Writing, Listed
<1>6. ASSUME NEW w \in Workers, Idle(w)
      PROVE  HandedOn(c)
  <2>1. UNCHANGED <<m_tasks, job, armed, pc, events>>
    BY <1>6 DEF Idle, Wait, WakeUp, ExitThread, sockets, loopVars
  <2>. QED
    BY <2>1 DEF HandedOn, Reading, Writing, Listed
<1>. QED
  BY <1>1, <1>2, <1>3, <1>4, <1>5, <1>6, EpollHandsOn, QueueingHandsOn, BeginHandsOn, RearmHandsOn
     DEF Silent

LEMMA SilentKeepsTalk ==
    ASSUME HandOverInv, TalkInv, Silent
    PROVE  TalkInv'
<1>1. peer' = peer \/ \E c \in Conns : peer[c] = "open" /\ peer' = [peer EXCEPT ![c] = "closed"]
  <2>1. CASE \/ UNCHANGED vars
             \/ Connect
             \/ \E c \in Conns : PeerCloses(c) \/ multi_thread_handle_read_event(c) \/ WriteCloses(c)
    BY <2>1 DEF vars, Connect, PeerCloses, multi_thread_handle_read_event, WriteCloses, peers
  <2>2. CASE epoll_wait \/ IterationEnds \/ LoopEnds \/ MainReturns
    BY <2>2 DEF epoll_wait, IterationEnds, LoopEnds, MainReturns, peers
  <2>3. CASE \E t \in Threads : CloseRemoves(t) \/ CloseChecks(t) \/ CloseStops(t)
    BY <2>3 DEF CloseRemoves, CloseChecks, CloseStops, peers
  <2>4. CASE \E w \in Workers : \/ Begin(w) \/ ReadInterrupted(w) \/ ReadFindsClosed(w)
                                \/ Rearm(w) \/ End(w) \/ Idle(w)
    BY <2>4 DEF Begin, ReadInterrupted, ReadFindsClosed, Rearm, End, Idle, peers
  <2>. QED
    BY <2>1, <2>2, <2>3, <2>4 DEF Silent
<1>2. \A c \in Conns : /\ peer'[c] = "none" => peer[c] = "none"
                       /\ peer'[c] = "open" => peer[c] = "open"
  BY <1>1 DEF HandOverInv, Places
<1>3. UNCHANGED <<contexts, talk>>
  BY SilentIsSilent
<1>4. \A c \in Conns : (Reading(c)' => Reading(c)) /\ (Writing(c)' => Writing(c))
  BY SilentHandsOn DEF HandedOn
<1>. QED
  BY <1>2, <1>3, <1>4, MovesKeepTalk
-----------------------------------------------------------------------------
(* Steps that are about one connection. *)
LEMMA OneTalks ==
    ASSUME TalkInv, NEW c, Talk(c)', OnConns',
           \A d \in Conns \ {c} : SaysNothing(d)
    PROVE  TalkInv'
<1>1. ASSUME NEW d \in Conns
      PROVE  Talk(d)'
  <2>1. CASE d = c
    BY <2>1
  <2>2. CASE d # c
    BY <2>2, SilenceKeepsTalk DEF TalkInv
  <2>. QED
    BY <2>1, <2>2
<1>. QED
  BY <1>1 DEF TalkInv

LEMMA AskKeepsTalk ==
    ASSUME Responses, TalkInv, NEW c \in Conns, Ask(c)
    PROVE  TalkInv'
<1>1. PICK r \in Requests : /\ asked' = [asked EXCEPT ![c] = r]
                            /\ inbox' = [inbox EXCEPT ![c] = Wire(r)]
  BY DEF Ask
<1>2. /\ UNCHANGED <<m_tasks, job, armed, pc, events, request, response, peer>>
      /\ handled' = [handled EXCEPT ![c] = <<>>]
      /\ expected' = [expected EXCEPT ![c] = 0]
      /\ delivered' = [delivered EXCEPT ![c] = <<>>]
      /\ peer[c] = "open" /\ inbox[c] = <<>> /\ Answered(c)
  BY DEF Ask, poolVars, sockets, loopVars, contexts
<1>3. \A d : (Reading(d)' <=> Reading(d)) /\ (Writing(d)' <=> Writing(d))
  BY <1>2 DEF Reading, Writing, Listed
<1>4. OnConns'
  BY <1>1, <1>2 DEF TalkInv, OnConns
<1>5. ASSUME NEW d \in Conns \ {c}
      PROVE  SaysNothing(d)
  BY <1>1, <1>2, <1>3 DEF SaysNothing, TalkInv, OnConns
<1>6. /\ asked'[c] = r /\ inbox'[c] = Wire(r)
      /\ handled'[c] = <<>> /\ expected'[c] = 0 /\ delivered'[c] = <<>>
  BY <1>1, <1>2 DEF TalkInv, OnConns
<1>7. Reading(c) => Asking(c)'
  <2>1. ASSUME Reading(c) PROVE ~ Asking(c)
    BY <1>2, RequestsAssumption DEF Asking, Answered
  <2>2. Reading(c) => request[c] = NewRequest
    BY <2>1 DEF TalkInv, Talk, Fresh
  <2>3. Wire(r) = SubSeq(Wire(r), 0 + 1, Len(Wire(r)))
    <3>1. Wire(r) \in Seq(STRING)
      BY WireAssumption
    <3>. QED
      BY <3>1, SubSeqFull
  <2>4. Reading(c) => ReadSoFar(c, 0)'
    BY <1>2, <1>6, <2>2, <2>3 DEF ReadSoFar
  <2>. QED
    BY <1>6, <2>4 DEF Asking
<1>8. ASSUME Writing(c) PROVE AllSent(c)'
  <2>1. CASE Answering(c)
    <3>1. response[c].index \in Nat /\ expected[c] = response[c].bytes
      BY <1>8, <2>1 DEF Responses, Answering
    <3>2. Len(delivered[c]) = response[c].index
      BY <1>2, <2>1, <3>1 DEF Answering
    <3>. QED
      BY <1>2, <2>1, <3>1, <3>2 DEF Answering, Answered, AllSent
  <2>2. CASE AllSent(c)
    BY <1>2, <2>2 DEF AllSent
  <2>. QED
    BY <1>8, <2>1, <2>2 DEF TalkInv, Talk
<1>9. Talk(c)'
  BY <1>2, <1>3, <1>7, <1>8 DEF Talk
<1>. QED
  BY <1>4, <1>5, <1>9, OneTalks

LEMMA AcceptKeepsTalk ==
    ASSUME HandOverInv, HandOverInv', TalkInv, handle_accept_event
    PROVE  TalkInv'
<1>1. PICK c \in Conns :
         /\ peer[c] = "none"
         /\ armed' = [armed EXCEPT ![c] = "in"]
         /\ peer' = [peer EXCEPT ![c] = "open"]
         /\ Clear(c)
  BY DEF handle_accept_event
<1>2. /\ UNCHANGED <<m_tasks, job, pc, talk>>
      /\ events' = [x \in DOMAIN events \ {ListenSocket} |-> events[x]]
  BY DEF handle_accept_event, Handles, poolVars
<1>3. OnConns'
  BY <1>1, <1>2 DEF TalkInv, OnConns, Clear, talk
<1>4. ASSUME NEW d \in Conns \ {c}
      PROVE  SaysNothing(d)
  <2>1. armed'[d] = armed[d] /\ peer'[d] = peer[d]
    BY <1>1 DEF HandOverInv, Places
  <2>2. Listed(d)' => Listed(d) /\ events'[d] = events[d]
    BY <1>2 DEF Listed
  <2>3. (Reading(d)' => Reading(d)) /\ (Writing(d)' => Writing(d))
    BY <1>2, <2>1, <2>2 DEF Reading, Writing
  <2>4. request'[d] = request[d] /\ response'[d] = response[d]
    BY <1>1 DEF Clear, TalkInv, OnConns
  <2>. QED
    BY <1>2, <2>1, <2>3, <2>4 DEF SaysNothing, talk
<1>5. Talk(c)'
  <2>1. armed'[c] = "in" /\ peer'[c] = "open" /\ request'[c] = NewRequest /\ inbox'[c] = <<>>
    BY <1>1, <1>2 DEF HandOverInv, Places, Clear, TalkInv, OnConns, Talk, talk
  <2>2. ~ Writing(c)'
    <3>1. ~ Listed(c)' /\ \A t \in Threads : ~ HeldBy(t, c)'
      BY <2>1 DEF HandOverInv, Exclusive, Armed
    <3>. QED
      BY <2>1, <3>1, HttpAssumption DEF Writing, HeldBy, Holding, ConnOf, Threads
  <2>. QED
    BY <2>1, <2>2 DEF Talk, Fresh
<1>. QED
  BY <1>3, <1>4, <1>5, OneTalks

LEMMA FreeKeepsTalk ==
    ASSUME HandOverInv, HandOverInv', TalkInv, NEW t \in Threads, CloseFrees(t)
    PROVE  TalkInv'
<1>0. PICK c \in Conns : c = ConnOf(t)
  BY DEF CloseFrees, HandOverInv, Places, ConnOf, Threads, Closing
<1>1. /\ UNCHANGED <<m_tasks, job, armed, events>>
      /\ Clear(c)
      /\ peer' = [peer EXCEPT ![c] = "none"]
      /\ asked' = [asked EXCEPT ![c] = NoRequest]
      /\ inbox' = [inbox EXCEPT ![c] = <<>>]
      /\ handled' = [handled EXCEPT ![c] = <<>>]
      /\ expected' = [expected EXCEPT ![c] = 0]
      /\ delivered' = [delivered EXCEPT ![c] = <<>>]
      /\ \E to \in {"handle", "late"} : pc' = [pc EXCEPT ![t] = to] /\ (t # Loop => to = "late")
      /\ pc[t] = "free"
  BY <1>0 DEF CloseFrees, poolVars, sockets
<1>3. OnConns'
  BY <1>1 DEF TalkInv, OnConns, Clear
<1>4. ASSUME NEW d \in Conns \ {c}
      PROVE  SaysNothing(d)
  <2>1. \A w \in Workers : pc'[w] \in {pc[w]} \cup {"idle", "late"} \cup Closing
    BY <1>1, HttpAssumption DEF HandOverInv, Places, Threads
  <2>2. UNCHANGED <<m_tasks, job>>
    BY <1>1
  <2>3. armed'[d] \in {armed[d], "none"} /\ (Listed(d)' => Listed(d) /\ events'[d] = events[d])
    BY <1>1 DEF Listed
  <2>4. HandedOn(d)
    BY <2>1, <2>2, <2>3, StayingHandsOn
  <2>5. peer'[d] = peer[d]
    BY <1>1 DEF HandOverInv, Places
  <2>. QED
    BY <1>1, <2>4, <2>5 DEF SaysNothing, HandedOn, TalkInv, OnConns, Clear
<1>5. Talk(c)'
  <2>1. peer'[c] = "none" /\ inbox'[c] = <<>>
    BY <1>1 DEF HandOverInv, Places, TalkInv, OnConns
  <2>2. ~ (Armed(c) \/ Listed(c) \/ InQueue(m_tasks, c) \/ \E u \in Threads : HeldBy(u, c))'
    BY <2>1 DEF HandOverInv, Exclusive
  <2>3. ~ Reading(c)' /\ ~ Writing(c)'
    <3>1. \A w \in Workers :
             job'[w] = c => pc'[w] \notin {"read", "EINTR", "READ_CONTINUE", "READ_OVER"}
      BY <2>2, HttpAssumption DEF Threads, HeldBy, ConnOf, Holding
    <3>. QED
      BY <2>2, <3>1 DEF Reading, Writing, Armed
  <2>. QED
    BY <2>1, <2>3 DEF Talk
<1>. QED
  BY <1>3, <1>4, <1>5, OneTalks
-----------------------------------------------------------------------------
(* Sending.                                                                *)
LEMMA PositionsGoOn ==
    ASSUME NEW i \in Nat, NEW n \in Nat
    PROVE  [j \in 1 .. i |-> j] \o Positions(i + 1, n) = [j \in 1 .. i + n |-> j]
<1>1. [j \in 1 .. i |-> j] \in Seq(Nat) /\ Len([j \in 1 .. i |-> j]) = i
  OBVIOUS
<1>2. Positions(i + 1, n) \in Seq(Nat) /\ Len(Positions(i + 1, n)) = n
  BY DEF Positions
<1>3. [j \in 1 .. i + n |-> j] \in Seq(Nat) /\ Len([j \in 1 .. i + n |-> j]) = i + n
  OBVIOUS
<1>4. \A j \in 1 .. i + n : ([k \in 1 .. i |-> k] \o Positions(i + 1, n))[j] = j
  BY <1>1, <1>2 DEF Positions
<1>5. /\ [j \in 1 .. i |-> j] \o Positions(i + 1, n) \in Seq(Nat)
      /\ Len([j \in 1 .. i |-> j] \o Positions(i + 1, n)) = i + n
  BY <1>1, <1>2
<1>. QED
  BY <1>3, <1>4, <1>5, SeqEqual

(* The next part of the answer is sent where the last one ended. *)
LEMMA SendingGoesOn ==
    ASSUME Responses, TalkInv, NEW c \in Conns, NEW nwrite \in 1 .. ReadSize(response[c]),
           Handles(c, "out")
    PROVE  LET sent == response[c].index + nwrite
           IN /\ Answering(c)
              /\ response[c].index \in Nat
              /\ nwrite \in Nat \ {0}
              /\ IndexAfter(response[c], nwrite) = sent
              /\ sent <= expected[c]
              /\ expected[c] \in Nat
              /\ peer[c] = "open" =>
                    /\ Len(delivered[c]) = response[c].index
                    /\ delivered[c] \o Positions(response[c].index + 1, nwrite)
                         = [i \in 1 .. sent |-> i]
<1>0. /\ response[c].bytes \in Nat
      /\ response[c].index \in Nat
      /\ response[c].index <= response[c].bytes
  <2>1. PICK b \in Lengths \cup {0}, i \in Nat : response[c] = [bytes |-> b, index |-> i]
    BY DEF Responses
  <2>2. b \in Nat
    BY HttpAssumption
  <2>. QED
    BY <2>1, <2>2 DEF Responses
<1>1. PICK b \in Nat, i \in Nat : b = response[c].bytes /\ i = response[c].index /\ i <= b
  BY <1>0
<1>2. SS_WRITE_BUFFER_SIZE \in Nat
  BY HttpAssumption
<1>3. PICK n \in Nat : n = ReadSize(response[c]) /\ n <= b - i
  BY <1>1, <1>2 DEF ReadSize, Least
<1>4. nwrite \in Nat \ {0} /\ nwrite <= n
  BY <1>3
<1>5. IndexAfter(response[c], nwrite) = i + nwrite /\ i + nwrite <= b
  BY <1>1, <1>3, <1>4 DEF IndexAfter
<1>6. Answering(c)
  <2>1. Writing(c)
    BY DEF Handles, Writing, Listed
  <2>2. ~ AllSent(c)
    BY <1>1, <1>3, <1>4 DEF AllSent
  <2>. QED
    BY <2>1, <2>2 DEF TalkInv, Talk
<1>7. ASSUME peer[c] = "open"
      PROVE  /\ Len(delivered[c]) = i
             /\ delivered[c] \o Positions(i + 1, nwrite) = [j \in 1 .. i + nwrite |-> j]
  <2>1. delivered[c] = [j \in 1 .. i |-> j]
    BY <1>1, <1>6, <1>7 DEF Answering
  <2>2. Len(delivered[c]) = i
    BY <2>1
  <2>3. nwrite \in Nat
    BY <1>4
  <2>4. delivered[c] \o Positions(i + 1, nwrite) = [j \in 1 .. i + nwrite |-> j]
    BY <2>1, <2>3, PositionsGoOn
  <2>. QED
    BY <2>2, <2>4
<1>. QED
  BY <1>1, <1>4, <1>5, <1>6, <1>7 DEF Answering

LEMMA WriteableKeepsTalk ==
    ASSUME HandOverInv, HandOverInv', Responses, TalkInv,
           NEW c \in Conns, handle_writeable_event(c)
    PROVE  TalkInv'
<1>1. PICK nwrite \in 1 .. ReadSize(response[c]) :
         /\ delivered' = IF peer[c] = "closed" THEN delivered
                         ELSE [delivered EXCEPT
                                 ![c] = @ \o Positions(response[c].index + 1, nwrite)]
         /\ \/ /\ response' = [response EXCEPT ![c].index = IndexAfter(response[c], nwrite)]
               /\ armed' = [armed EXCEPT ![c] = "out"]
               /\ UNCHANGED <<request, pc, current>>
            \/ /\ Clear(c)
               /\ armed' = [armed EXCEPT ![c] = "in"]
               /\ UNCHANGED <<pc, current>>
            \/ /\ pc' = [pc EXCEPT ![Loop] = "close"]
               /\ UNCHANGED <<contexts, armed>>
  BY DEF handle_writeable_event
<1>2. /\ Handles(c, "out")
      /\ Listed(c)
      /\ events' = [x \in DOMAIN events \ {c} |-> events[x]]
      /\ UNCHANGED <<m_tasks, job, peer, asked, inbox, handled, expected>>
  BY DEF handle_writeable_event, Handles, poolVars, Listed
<1>3. /\ Answering(c)
      /\ response[c].index \in Nat
      /\ IndexAfter(response[c], nwrite) = response[c].index + nwrite
      /\ peer[c] = "open" => delivered[c] \o Positions(response[c].index + 1, nwrite)
                                = [i \in 1 .. response[c].index + nwrite |-> i]
  BY <1>2, SendingGoesOn
<1>4. OnConns'
  BY <1>1, <1>2 DEF TalkInv, OnConns, Clear, contexts
<1>5. \A w \in Workers : pc'[w] = pc[w]
  BY <1>1, HttpAssumption DEF HandOverInv, Places, Threads
<1>6. ASSUME NEW d \in Conns \ {c}
      PROVE  SaysNothing(d)
  <2>1. armed'[d] = armed[d]
    BY <1>1 DEF HandOverInv, Places
  <2>2. Listed(d)' => Listed(d) /\ events'[d] = events[d]
    BY <1>2 DEF Listed
  <2>3. (Reading(d)' => Reading(d)) /\ (Writing(d)' => Writing(d))
    BY <1>2, <1>5, <2>1, <2>2 DEF Reading, Writing
  <2>4. request'[d] = request[d] /\ response'[d] = response[d] /\ delivered'[d] = delivered[d]
    BY <1>1 DEF Clear, TalkInv, OnConns, Responses, contexts
  <2>. QED
    BY <1>2, <2>3, <2>4 DEF SaysNothing
<1>7. Talk(c)'
  <2>1. /\ ~ Listed(c)' /\ ~ InQueue(m_tasks, c)'
        /\ armed[c] = "none"
        /\ \A w \in Workers :
              job'[w] = c => pc'[w] \notin {"read", "EINTR", "READ_CONTINUE", "READ_OVER"}
    <3>1. ~ InQueue(m_tasks, c) /\ ~ Armed(c) /\ \A t \in Threads : ~ HeldBy(t, c)
      BY <1>2 DEF HandOverInv, Exclusive
    <3>2. \A w \in Workers :
             job[w] = c => pc[w] \notin {"read", "EINTR", "READ_CONTINUE", "READ_OVER"}
      BY <3>1, HttpAssumption DEF Threads, HeldBy, ConnOf, Holding
    <3>. QED
      BY <1>2, <1>5, <3>1, <3>2 DEF Listed, Armed, InQueue
  <2>2. /\ Reading(c)' <=> armed'[c] = "in"
        /\ Writing(c)' <=> armed'[c] = "out"
    BY <2>1 DEF Reading, Writing
  <2>3. peer[c] # "none" /\ inbox'[c] = <<>>
    BY <1>2, <1>3 DEF HandOverInv, Exclusive, Answering
  <2>4. CASE /\ response' = [response EXCEPT ![c].index = IndexAfter(response[c], nwrite)]
             /\ armed' = [armed EXCEPT ![c] = "out"]
    <3>1. armed'[c] = "out"
      BY <2>4 DEF HandOverInv, Places
    <3>2. /\ response'[c].bytes = response[c].bytes
          /\ response'[c].index = response[c].index + nwrite
      BY <1>3, <2>4 DEF Responses
    <3>3. peer[c] = "open" => delivered'[c] = [i \in 1 .. response'[c].index |-> i]
      BY <1>1, <1>3, <3>2 DEF TalkInv, OnConns
    <3>4. Answering(c)'
      BY <1>2, <1>3, <2>3, <3>2, <3>3 DEF Answering
    <3>. QED
      BY <1>2, <2>2, <2>3, <3>1, <3>4 DEF Talk
  <2>5. CASE Clear(c) /\ armed' = [armed EXCEPT ![c] = "in"]
    <3>1. armed'[c] = "in" /\ request'[c] = NewRequest
      BY <2>5 DEF HandOverInv, Places, Clear, TalkInv, OnConns
    <3>. QED
      BY <1>2, <2>2, <2>3, <3>1 DEF Talk, Fresh
  <2>6. CASE UNCHANGED <<contexts, armed>>
    BY <1>2, <2>1, <2>2, <2>3, <2>6 DEF Talk
  <2>. QED
    BY <1>1, <2>4, <2>5, <2>6
<1>. QED
  BY <1>4, <1>6, <1>7, OneTalks
-----------------------------------------------------------------------------
(* Receiving.                                                              *)
LEMMA RestOfText ==
    ASSUME NEW S, NEW text \in Seq(S), NEW k \in 0 .. Len(text), NEW rest,
           rest = SubSeq(text, k + 1, Len(text)),
           NEW m \in 1 .. Len(rest)
    PROVE  /\ Len(rest) = Len(text) - k
           /\ SubSeq(rest, 1, m) = SubSeq(text, k + 1, k + m)
           /\ SubSeq(rest, m + 1, Len(rest)) = SubSeq(text, k + m + 1, Len(text))
<1>1. Len(text) \in Nat /\ k \in Nat
  OBVIOUS
<1>2. Len(rest) = Len(text) - k /\ rest \in Seq(S)
  <2>1. /\ SubSeq(text, k + 1, Len(text)) \in Seq(S)
        /\ Len(SubSeq(text, k + 1, Len(text))) =
             IF k + 1 <= Len(text) THEN Len(text) - (k + 1) + 1 ELSE 0
    <3>1. \A i \in k + 1 .. Len(text) : text[i] \in S
      OBVIOUS
    <3>. QED
      BY <1>1, <3>1, SubSeqProperties
  <2>. QED
    BY <1>1, <2>1
<1>3. k + 1 \in 1 .. Len(text) /\ m \in 1 .. Len(text) - (k + 1) + 1 /\ m \in Nat
  BY <1>1, <1>2
<1>4. SubSeq(rest, 1, m) = SubSeq(text, k + 1, k + m)
  <2>1. /\ Len(text) \in 1 .. Len(text)
        /\ 1 \in 1 .. Len(text) - (k + 1) + 1
    BY <1>1, <1>3
  <2>2. SubSeq(rest, 1, m) = SubSeq(text, k + 1 + 1 - 1, k + 1 + m - 1)
    BY <1>3, <2>1, SubSeqOfSubSeq
  <2>3. k + 1 + 1 - 1 = k + 1 /\ k + 1 + m - 1 = k + m
    BY <1>1, <1>3
  <2>. QED
    BY <2>2, <2>3
<1>5. SubSeq(rest, m + 1, Len(rest)) = SubSeq(text, k + m + 1, Len(text))
  <2>1. CASE m = Len(rest)
    <3>1. Len(rest) < m + 1 /\ Len(text) < k + m + 1
      BY <1>1, <1>2, <1>3, <2>1
    <3>2. SubSeq(rest, m + 1, Len(rest)) = <<>>
      BY <1>1, <1>2, <1>3, <3>1, SubSeqEmpty
    <3>3. SubSeq(text, k + m + 1, Len(text)) = <<>>
      BY <1>1, <1>3, <3>1, SubSeqEmpty
    <3>. QED
      BY <3>2, <3>3
  <2>2. CASE m < Len(rest)
    <3>1. /\ Len(text) \in 1 .. Len(text)
          /\ m + 1 \in 1 .. Len(text) - (k + 1) + 1
          /\ Len(rest) \in 1 .. Len(text) - (k + 1) + 1
      BY <1>1, <1>2, <1>3, <2>2
    <3>2. SubSeq(rest, m + 1, Len(rest)) = SubSeq(text, k + 1 + (m + 1) - 1, k + 1 + Len(rest) - 1)
      BY <1>3, <3>1, SubSeqOfSubSeq
    <3>3. k + 1 + (m + 1) - 1 = k + m + 1 /\ k + 1 + Len(rest) - 1 = Len(text)
      BY <1>1, <1>2, <1>3
    <3>. QED
      BY <3>2, <3>3
  <2>. QED
    BY <1>1, <1>2, <1>3, <2>1, <2>2
<1>. QED
  BY <1>2, <1>4, <1>5

(* A read that makes req of the connection's request and leaves the rest. *)
Receives(w, c, rest, req) ==
    /\ inbox' = [inbox EXCEPT ![c] = rest]
    /\ request' = [request EXCEPT ![c] = req]
    /\ pc' = [pc EXCEPT ![w] = IF ParseResult(req) = "READ_CLOSE"
                                 THEN "close" ELSE ParseResult(req)]
    /\ IF ParseResult(req) = "READ_OVER"
         THEN Respond(c, req)
         ELSE UNCHANGED <<_status, response, expected, handled>>

TextFrom(r, n) == SubSeq(Wire(r), n, Len(Wire(r)))

(* What a read leaves: the request up to n, unless it is to be closed. *)
LEMMA ReadingGoesOn ==
    ASSUME HandOverInv, TalkInv, NEW w \in Workers, Read(w), NEW c, c = job[w]
    PROVE  /\ c \in Conns
           /\ Asking(c)
           /\ \E n \in Stops(asked[c]) : \E req :
                 /\ Receives(w, c, TextFrom(asked[c], n + 1), req)
                 /\ ParseResult(req) # "READ_CLOSE" => req = ReadUpTo(asked[c], n)
<1> DEFINE Req(m) == http_parser_execute(request[c], SubSeq(inbox[c], 1, m))
<1>1. PICK m \in 1 .. Len(inbox[c]) :
         /\ Len(inbox[c]) - m \in Cuts \cup {0}
         /\ Receives(w, c, SubSeq(inbox[c], m + 1, Len(inbox[c])), Req(m))
  BY DEF Read, Receives
<1>2. pc[w] = "read" /\ c \in Conns
  BY DEF Read, HandOverInv, Places
<1>3. Asking(c)
  <2>1. Reading(c)
    BY <1>2 DEF Reading
  <2>2. inbox[c] # <<>>
    BY <1>1
  <2>. QED
    BY <1>2, <2>1, <2>2 DEF TalkInv, Talk, Fresh
<1> DEFINE text == Wire(asked[c])
<1>4. asked[c] \in Requests /\ text \in Seq(STRING)
  BY <1>3, WireAssumption DEF Asking
<1>5. PICK k \in Stops(asked[c]) \cup {0} : ReadSoFar(c, k)
  BY <1>3 DEF Asking
<1>6. k \in 0 .. Len(text) /\ Len(text) \in Nat /\ k \in Nat
  BY <1>4, <1>5 DEF Stops
<1>7. inbox[c] = SubSeq(text, k + 1, Len(text))
  BY <1>5 DEF ReadSoFar
<1>8. /\ Len(inbox[c]) = Len(text) - k
      /\ SubSeq(inbox[c], 1, m) = SubSeq(text, k + 1, k + m)
      /\ SubSeq(inbox[c], m + 1, Len(inbox[c])) = SubSeq(text, k + m + 1, Len(text))
  <2>. HIDE DEF text
  <2>1. text \in Seq(STRING) /\ k \in 0 .. Len(text)
    BY <1>4, <1>6
  <2>2. PICK rest : rest = inbox[c]
    OBVIOUS
  <2>3. rest = SubSeq(text, k + 1, Len(text)) /\ m \in 1 .. Len(rest)
    BY <1>7, <2>2
  <2>4. /\ Len(rest) = Len(text) - k
        /\ SubSeq(rest, 1, m) = SubSeq(text, k + 1, k + m)
        /\ SubSeq(rest, m + 1, Len(rest)) = SubSeq(text, k + m + 1, Len(text))
    BY <2>1, <2>3, RestOfText
  <2>. QED
    BY <2>2, <2>4
<1>9. /\ m \in Nat \ {0} /\ k + m \in 1 .. Len(text) /\ k < k + m
      /\ Len(text) - (k + m) = Len(inbox[c]) - m
  <2>. HIDE DEF text
  <2>1. m \in 1 .. Len(inbox[c])
    BY <1>1
  <2>. QED
    BY <1>6, <1>8, <2>1
<1>10. k + m \in Stops(asked[c])
  BY <1>1, <1>9 DEF Stops
<1>11. ParseResult(Req(m)) # "READ_CLOSE" => Req(m) = ReadUpTo(asked[c], k + m)
  <2>1. CASE k = 0
    <3>1. k + 1 = 1 /\ request[c] = NewRequest
      BY <1>5, <2>1 DEF ReadSoFar
    <3>. QED
      BY <1>1, <1>8, <3>1 DEF ReadUpTo
  <2>2. CASE k # 0
    <3>1. /\ k \in Stops(asked[c])
          /\ request[c] = ReadUpTo(asked[c], k)
          /\ ParseResult(ReadUpTo(asked[c], k)) = "READ_CONTINUE"
      BY <1>5, <2>2 DEF ReadSoFar
    <3>2. Req(m) = http_parser_execute(ReadUpTo(asked[c], k), SubSeq(text, k + 1, k + m))
      BY <1>1, <1>8, <3>1
    <3>3. Alike(ReadUpTo(asked[c], k + m), Req(m))
      <4>1. k + m \in Nat /\ k =< k + m /\ k + m =< Len(text)
        BY <1>6, <1>9
      <4>. HIDE DEF Req
      <4>2. ReadUpTo(asked[c], k) = http_parser_execute(NewRequest, SubSeq(text, 1, k))
        BY DEF ReadUpTo
      <4>3. ReadUpTo(asked[c], k + m) = http_parser_execute(NewRequest, SubSeq(text, 1, k + m))
        BY DEF ReadUpTo
      <4>4. Alike(http_parser_execute(NewRequest, SubSeq(text, 1, k + m)),
                  http_parser_execute(ReadUpTo(asked[c], k), SubSeq(text, k + 1, k + m)))
        <5>. HIDE DEF text
        <5>. QED
          BY <1>4, <1>6, <3>1, <4>1, <4>2, CutAnywhere
      <4>. QED
        BY <3>2, <4>3, <4>4
    <3>. QED
      BY <3>3 DEF Alike, ParseResult
  <2>. QED
    BY <2>1, <2>2
<1>12. Receives(w, c, TextFrom(asked[c], k + m + 1), Req(m))
  BY <1>1, <1>8 DEF TextFrom
<1>. QED
  BY <1>1, <1>2, <1>3, <1>10, <1>11, <1>12

LEMMA ReadKeepsTalk ==
    ASSUME HandOverInv, HandOverInv', Responses, TalkInv, NEW w \in Workers, Read(w)
    PROVE  TalkInv'
<1>1. PICK c \in Conns : c = job[w] /\ Asking(c)
  BY ReadingGoesOn
<1>0. PICK n \in Stops(asked[c]) : \E req :
         /\ Receives(w, c, TextFrom(asked[c], n + 1), req)
         /\ ParseResult(req) # "READ_CLOSE" => req = ReadUpTo(asked[c], n)
  BY <1>1, ReadingGoesOn
<1>2. PICK req :
         /\ inbox' = [inbox EXCEPT ![c] = TextFrom(asked[c], n + 1)]
         /\ request' = [request EXCEPT ![c] = req]
         /\ pc' = [pc EXCEPT ![w] = IF ParseResult(req) = "READ_CLOSE"
                                      THEN "close" ELSE ParseResult(req)]
         /\ IF ParseResult(req) = "READ_OVER"
              THEN Respond(c, req)
              ELSE UNCHANGED <<_status, response, expected, handled>>
         /\ ParseResult(req) # "READ_CLOSE" => req = ReadUpTo(asked[c], n)
  BY <1>0 DEF Receives
<1>3. /\ UNCHANGED <<m_tasks, job, armed, events, peer, asked, delivered>>
      /\ pc[w] = "read"
  BY DEF Read, poolVars, sockets, loopVars
<1>4. \/ UNCHANGED <<response, expected, handled>>
      \/ \E length \in Lengths : /\ response' = [response EXCEPT ![c] = gen_response(length)]
                                 /\ expected' = [expected EXCEPT ![c] = length]
                                 /\ handled' = [handled EXCEPT ![c] = Append(@, Seen(req))]
  BY <1>2 DEF Respond
<1>5. OnConns'
  BY <1>2, <1>3, <1>4 DEF TalkInv, OnConns
<1>6. \A u \in Workers \ {w} : pc'[u] = pc[u]
  BY <1>2 DEF HandOverInv, Places, Threads
<1>7. /\ ~ Armed(c) /\ ~ Listed(c) /\ ~ InQueue(m_tasks, c) /\ peer[c] # "none"
      /\ \A u \in Workers : job[u] = c /\ pc[u] \in Holding => u = w
  <2>1. HeldBy(w, c) /\ w \in Threads
    BY <1>1, <1>3, HttpAssumption DEF HeldBy, ConnOf, Holding, Threads
  <2>2. \A u \in Workers : job[u] = c /\ pc[u] \in Holding => HeldBy(u, c) /\ u \in Threads
    BY HttpAssumption DEF HeldBy, ConnOf, Threads
  <2>. QED
    BY <2>1, <2>2 DEF HandOverInv, Exclusive
<1>8. ASSUME NEW d \in Conns \ {c}
      PROVE  SaysNothing(d)
  <2>1. (Reading(d)' => Reading(d)) /\ (Writing(d)' => Writing(d))
    BY <1>1, <1>3, <1>6 DEF Reading, Writing, Listed
  <2>2. /\ request'[d] = request[d] /\ inbox'[d] = inbox[d] /\ response'[d] = response[d]
        /\ expected'[d] = expected[d] /\ handled'[d] = handled[d]
    BY <1>2, <1>4 DEF TalkInv, OnConns, Responses
  <2>. QED
    BY <1>3, <2>1, <2>2 DEF SaysNothing
<1>9. Talk(c)'
  <2>1. /\ request'[c] = req
        /\ inbox'[c] = TextFrom(asked[c], n + 1)
        /\ pc'[w] = IF ParseResult(req) = "READ_CLOSE" THEN "close" ELSE ParseResult(req)
    BY <1>2 DEF TalkInv, OnConns, HandOverInv, Places, Threads
  <2>2. /\ Reading(c)' => pc'[w] \in {"read", "EINTR", "READ_CONTINUE"}
        /\ Writing(c)' => pc'[w] = "READ_OVER"
    <3>1. \A u \in Workers : job'[u] = c /\ pc'[u] \in {"read", "EINTR", "READ_CONTINUE", "READ_OVER"}
                                => u = w
      BY <1>3, <1>6, <1>7 DEF Holding
    <3>. QED
      BY <1>3, <1>7, <3>1 DEF Reading, Writing, Armed, Listed
  <2>3. ParseResult(req) \in {"READ_CLOSE", "READ_CONTINUE", "READ_OVER"}
    BY DEF ParseResult
  <2>4. n \in Nat \ {0}
    BY DEF Stops
  <2>5. ASSUME Reading(c)' PROVE Asking(c)'
    <3>1. ParseResult(req) = "READ_CONTINUE"
      BY <2>1, <2>2, <2>3, <2>5
    <3>2. UNCHANGED <<response, expected, handled>>
      BY <1>2, <3>1
    <3>3. ReadSoFar(c, n)'
      BY <1>2, <1>3, <2>1, <2>4, <3>1 DEF ReadSoFar, TextFrom
    <3>. QED
      BY <1>1, <1>3, <3>2, <3>3 DEF Asking
  <2>6. ASSUME Writing(c)' PROVE Answering(c)'
    <3>1. ParseResult(req) = "READ_OVER"
      BY <2>1, <2>2, <2>3, <2>6
    <3>2. PICK length \in Lengths : /\ response' = [response EXCEPT ![c] = gen_response(length)]
                                    /\ expected' = [expected EXCEPT ![c] = length]
      BY <1>2, <3>1 DEF Respond
    <3>3. expected'[c] = length
      BY <3>2 DEF TalkInv, OnConns
    <3>4. response'[c].bytes = length /\ response'[c].index = 0
      BY <3>2 DEF Responses, gen_response
    <3>5. inbox'[c] = <<>>
      <4>1. asked[c] \in Requests /\ n = Len(Wire(asked[c]))
        BY <1>1, <1>2, <3>1, RequestsAssumption DEF Asking
      <4>2. Len(Wire(asked[c])) < n + 1 /\ n + 1 \in Int /\ Len(Wire(asked[c])) \in Int
        BY <2>4, <4>1
      <4>. QED
        BY <2>1, <4>2, SubSeqEmpty DEF TextFrom
    <3>6. asked'[c] # NoRequest /\ delivered'[c] = <<>>
      BY <1>1, <1>3, RequestsAssumption DEF Asking
    <3>7. <<>> = [i \in 1 .. 0 |-> i]
      OBVIOUS
    <3>. QED
      BY <3>3, <3>4, <3>5, <3>6, <3>7 DEF Answering
  <2>. QED
    BY <1>3, <1>7, <2>5, <2>6 DEF Talk
<1>. QED
  BY <1>5, <1>8, <1>9, OneTalks
-----------------------------------------------------------------------------
(* Every step says nothing, or is one of these. *)
LEMMA SilentOrNot ==
    ASSUME [Next]_vars
    PROVE  \/ Silent
           \/ \E c \in Conns : Ask(c) \/ handle_writeable_event(c)
           \/ handle_accept_event
           \/ \E t \in Threads : CloseFrees(t)
           \/ \E w \in Workers : Read(w)
<1>1. Loop \in Threads /\ Workers \subseteq Threads
  BY DEF Threads
<1>2. CASE UNCHANGED vars \/ Connect
  BY <1>2 DEF Silent
<1>3. CASE \E c \in Conns : Peer(c)
  BY <1>3 DEF Silent, Peer
<1>4. ASSUME NEW t \in Threads, close_and_release(t)
      PROVE  Silent \/ CloseFrees(t)
  BY <1>4 DEF Silent, close_and_release
<1>5. CASE start_event_loop
  BY <1>1, <1>4, <1>5 DEF Silent, start_event_loop
<1>6. ASSUME NEW w \in Workers, read_func(w) \/ Idle(w)
      PROVE  Silent \/ CloseFrees(w) \/ Read(w)
  BY <1>1, <1>4, <1>6 DEF Silent, read_func
<1>. QED
  BY <1>1, <1>2, <1>3, <1>5, <1>6 DEF Next

ExchangeInv == StopInv /\ TalkInv

LEMMA ExchangeInvHolds == Spec => []ExchangeInv
<1>1. Init => ExchangeInv
  <2>1. ASSUME Init, NEW c \in Conns PROVE ~ Reading(c) /\ ~ Writing(c)
    <3>1. /\ DOMAIN events = {} /\ DOMAIN m_tasks = {}
          /\ \A w \in Workers : pc[w] = "idle"
          /\ armed[c] = "none"
      BY <2>1, HttpAssumption DEF Init, Threads
    <3>. QED
      BY <3>1 DEF Reading, Writing, Listed, InQueue
  <2>2. ASSUME Init PROVE OnConns /\ \A c \in Conns : inbox[c] = <<>>
    BY <2>2 DEF Init, OnConns
  <2>. QED
    BY <2>1, <2>2, InitStops DEF ExchangeInv, TalkInv, Talk
<1>2. ExchangeInv /\ [Next]_vars => ExchangeInv'
  <2>. SUFFICES ASSUME ExchangeInv, [Next]_vars PROVE ExchangeInv'
    OBVIOUS
  <2>1. StopInv'
    BY StopInvStep DEF ExchangeInv
  <2>2. HandOverInv /\ Responses /\ TalkInv /\ HandOverInv'
    BY <2>1 DEF ExchangeInv, StopInv
  <2>3. TalkInv'
    BY <2>2, SilentOrNot, SilentKeepsTalk, AskKeepsTalk, WriteableKeepsTalk, AcceptKeepsTalk,
       FreeKeepsTalk, ReadKeepsTalk
  <2>. QED
    BY <2>1, <2>3 DEF ExchangeInv
<1>. QED
  BY <1>1, <1>2, PTL DEF Spec

(* However a request is cut on its way, however the threads of the pool, the  *)
(* loop and the peers take turns, and whoever closes when: a request is        *)
(* handled at most once and as its peer meant it, and what arrives of the      *)
(* answer is its beginning, without gaps or repetitions.                      *)
THEOREM ExchangeIsKept == Spec => KeepsExchange
<1>1. Init => Exchange!Init
  BY DEF Init, Exchange!Init
<1>2. ExchangeInv /\ [Next]_vars => [Exchange!Next]_(Exchange!vars)
  <2>. SUFFICES ASSUME ExchangeInv, [Next]_vars PROVE [Exchange!Next]_(Exchange!vars)
    OBVIOUS
  <2>0. HandOverInv /\ Responses /\ TalkInv
    BY DEF ExchangeInv, StopInv
  <2>1. CASE Silent \/ handle_accept_event
    <3>1. UNCHANGED talk
      BY <2>1, SilentIsSilent DEF handle_accept_event
    <3>. QED
      BY <3>1 DEF talk, Exchange!vars
  <2>2. ASSUME NEW c \in Conns, Ask(c)
        PROVE  Exchange!Next
    <3>1. \E r \in Requests : Exchange!Ask(c, r)
      BY <2>2 DEF Ask, Answered, Exchange!Ask
    <3>. QED
      BY <3>1 DEF Exchange!Next
  <2>3. ASSUME NEW c \in Conns, handle_writeable_event(c)
        PROVE  [Exchange!Next]_(Exchange!vars)
    <3>1. PICK nwrite \in 1 .. ReadSize(response[c]) :
             delivered' = IF peer[c] = "closed" THEN delivered
                          ELSE [delivered EXCEPT
                                  ![c] = @ \o Positions(response[c].index + 1, nwrite)]
      BY <2>3 DEF handle_writeable_event
    <3>2. Handles(c, "out") /\ UNCHANGED <<asked, handled, expected>>
      BY <2>3 DEF handle_writeable_event
    <3>3. CASE peer[c] = "closed"
      BY <3>1, <3>2, <3>3 DEF Exchange!vars
    <3>4. CASE peer[c] # "closed"
      <4>1. peer[c] = "open"
        BY <3>2, <3>4, <2>0 DEF HandOverInv, Places, Exclusive, Handles, Listed
      <4>2. PICK i \in Nat, last \in Nat : i = response[c].index /\ last = i + nwrite
        <5>1. response[c].index \in Nat /\ nwrite \in Nat
          BY <2>0, <3>2, SendingGoesOn
        <5>2. response[c].index + nwrite \in Nat
          BY <5>1
        <5>. QED
          BY <5>1, <5>2
      <4>3. last <= expected[c] /\ expected[c] \in Nat /\ Len(delivered[c]) < last /\ 1 <= last
        <5>1. /\ nwrite \in Nat \ {0}
              /\ i + nwrite <= expected[c]
              /\ expected[c] \in Nat
              /\ Len(delivered[c]) = i
          BY <2>0, <3>2, <4>1, <4>2, SendingGoesOn
        <5>. QED
          BY <4>2, <5>1
      <4>4. delivered[c] \o Positions(response[c].index + 1, nwrite) = [j \in 1 .. last |-> j]
        BY <2>0, <3>2, <4>1, <4>2, SendingGoesOn
      <4>5. delivered' = [delivered EXCEPT ![c] = [j \in 1 .. last |-> j]]
        BY <3>1, <3>4, <4>4
      <4>6. Exchange!Deliver(c, last)
        BY <3>2, <4>3, <4>5 DEF Exchange!Deliver
      <4>7. last \in 1 .. expected[c]
        BY <4>3
      <4>. QED
        BY <4>6, <4>7 DEF Exchange!Next
    <3>. QED
      BY <3>3, <3>4
  <2>4. ASSUME NEW t \in Threads, CloseFrees(t)
        PROVE  Exchange!Next
    <3>1. PICK c \in Conns : c = ConnOf(t)
      BY <2>0, <2>4 DEF CloseFrees, HandOverInv, Places, ConnOf, Threads, Closing
    <3>2. Exchange!Close(c)
      BY <2>4, <3>1 DEF CloseFrees, Exchange!Close
    <3>. QED
      BY <3>2 DEF Exchange!Next
  <2>5. ASSUME NEW w \in Workers, Read(w)
        PROVE  [Exchange!Next]_(Exchange!vars)
    <3>1. PICK c \in Conns : c = job[w] /\ Asking(c)
      BY <2>0, <2>5, ReadingGoesOn
    <3>0. PICK n \in Stops(asked[c]) : \E req :
             /\ Receives(w, c, TextFrom(asked[c], n + 1), req)
             /\ ParseResult(req) # "READ_CLOSE" => req = ReadUpTo(asked[c], n)
      BY <2>0, <2>5, <3>1, ReadingGoesOn
    <3>2. PICK req :
             /\ IF ParseResult(req) = "READ_OVER"
                  THEN Respond(c, req)
                  ELSE UNCHANGED <<_status, response, expected, handled>>
             /\ ParseResult(req) # "READ_CLOSE" => req = ReadUpTo(asked[c], n)
      BY <3>0 DEF Receives
    <3>3. UNCHANGED <<asked, delivered>>
      BY <2>5 DEF Read
    <3>4. CASE ParseResult(req) # "READ_OVER"
      BY <3>2, <3>3, <3>4 DEF Exchange!vars
    <3>5. CASE ParseResult(req) = "READ_OVER"
      <4>1. asked[c] \in Requests /\ asked[c] # NoRequest /\ handled[c] = <<>>
        BY <3>1, RequestsAssumption DEF Asking
      <4>2. Seen(req) = Meaning(asked[c])
        BY <3>2, <3>5, <4>1, RequestsAssumption
      <4>3. PICK length \in Lengths : /\ expected' = [expected EXCEPT ![c] = length]
                                      /\ handled' = [handled EXCEPT ![c] = Append(@, Seen(req))]
        BY <3>2, <3>5 DEF Respond
      <4>4. handled' = [handled EXCEPT ![c] = <<Meaning(asked[c])>>]
        <5>1. Append(<<>>, Meaning(asked[c])) = <<Meaning(asked[c])>>
          OBVIOUS
        <5>. QED
          BY <4>1, <4>2, <4>3, <5>1
      <4>5. Exchange!Handle(c, length)
        BY <3>3, <4>1, <4>3, <4>4 DEF Exchange!Handle
      <4>. QED
        BY <4>5 DEF Exchange!Next
    <3>. QED
      BY <3>4, <3>5
  <2>. QED
    BY <2>1, <2>2, <2>3, <2>4, <2>5, SilentOrNot
<1>. QED
  BY <1>1, <1>2, ExchangeInvHolds, PTL DEF Spec, KeepsExchange, Exchange!Spec
=============================================================================
