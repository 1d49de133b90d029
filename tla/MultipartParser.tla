-------------------------- MODULE MultipartParser --------------------------
(***************************************************************************)
(* multipart_parser.c and the callbacks it is given: the parts of a body    *)
(* between boundaries, each with a Content-Disposition that names it.  The  *)
(* body is parsed at once, when the request is complete.                    *)
(***************************************************************************)
EXTENDS Integers, Sequences, SequencesExt

CR == "\r"
LF == "\n"
Quote == "\""

(* The texts between the separators; the last one may be empty. *)
Split(text, separator) ==
    FoldLeft(LAMBDA texts, a : IF a = separator THEN Append(texts, <<>>)
                               ELSE [texts EXCEPT ![Len(texts)] = Append(@, a)],
             << <<>> >>, text)

(* ss_split_str, which drops an empty last text. *)
WithoutEmptyLast(texts) == IF texts[Len(texts)] = <<>> THEN Front(texts) ELSE texts
Tokens(text, separator) == WithoutEmptyLast(Split(text, separator))

NoItem == [name |-> <<>>, type |-> <<>>, data |-> <<>>, state |-> "PARSE_MULTI_DISPOSITION"]

(* _file_items and the state of the parser; text is what is being read. *)
multipart_parser_init ==
    [state |-> "s_start_boundary", index |-> 0, text |-> <<>>, header |-> <<>>,
     items |-> <<>>, params |-> <<>>, failed |-> FALSE]

Fails(m) == [m EXCEPT !.failed = TRUE]
To(m, s) == [m EXCEPT !.state = s]
-----------------------------------------------------------------------------
(* The callbacks. *)

LastItem(m) == m.items[Len(m.items)]

ss_on_multipart_name(m) ==
    CASE m.text = <<"Content-Disposition">> ->
           [m EXCEPT !.items = Append(@, NoItem), !.header = m.text, !.text = <<>>]
      [] m.text = <<"Content-Type">> ->
           IF m.items = <<>> THEN Fails(m)
           ELSE [m EXCEPT !.items[Len(m.items)].state = "PARSE_MULTI_CONTENT_TYPE",
                          !.header = m.text, !.text = <<>>]
      [] OTHER -> [m EXCEPT !.header = m.text, !.text = <<>>]

(* name="value": the quotes are dropped, whatever they are. *)
Unquoted(value) ==
    IF value = <<Quote, Quote>> THEN <<>> ELSE SubSeq(value, 2, Len(value) - 1)

IsDispositionValue(parts) ==
    /\ Len(parts) = 2
    /\ parts[2] = <<Quote, Quote>> \/ Len(parts[2]) > 2

IsDisposition(tokens) ==
    /\ Len(tokens) >= 2
    /\ \A i \in {2, 3} \cap DOMAIN tokens : IsDispositionValue(Tokens(tokens[i], "="))

(* get_parse_state returns a bool: all states but the first are one.       *)
ss_on_multipart_value(m) ==
    LET last == Len(m.items)
        r == [m EXCEPT !.text = <<>>]
    IN IF m.items = <<>> THEN Fails(m)
       ELSE IF LastItem(m).state # "PARSE_MULTI_DISPOSITION"
         THEN [r EXCEPT !.items[last].type = m.text]
       ELSE IF IsDisposition(Tokens(m.text, ";"))
         THEN [r EXCEPT !.items[last].name = Unquoted(Tokens(Tokens(m.text, ";")[2], "=")[2])]
       ELSE Fails(m)

ss_on_multipart_data(m, d) ==
    CASE d = <<>>       -> m
      [] m.items = <<>> -> Fails(m)
      [] OTHER          -> [m EXCEPT !.items[Len(m.items)].data = @ \o d]

ss_on_multipart_data_over(m) ==
    IF m.items = <<>> THEN Fails(m)
    ELSE [m EXCEPT !.items[Len(m.items)].state = "PARSE_MULTI_OVER"]

(* parse_multi_params *)
ss_on_multipart_body_end(m) ==
    [m EXCEPT !.params = [i \in DOMAIN m.items |-> <<m.items[i].name, m.items[i].data>>]]
-----------------------------------------------------------------------------
(* One character in each group of states.                                  *)

StartBoundary(m, c, boundary) ==
    LET next == [m EXCEPT !.index = @ + 1]
    IN CASE m.index = Len(boundary) ->
              IF c = CR THEN next ELSE Fails(m)
         [] m.index = Len(boundary) + 1 ->
              IF c = LF THEN To([m EXCEPT !.index = 0], "s_header_field") ELSE Fails(m)
         [] OTHER -> IF c = boundary[m.index + 1] THEN next ELSE Fails(m)

NoNameChar == {LF, " ", "=", ";", Quote}

PartHeader(m, c) ==
    LET longer == [m EXCEPT !.text = Append(@, c)]
    IN CASE m.state = "s_header_field" ->
              IF c = CR THEN To([m EXCEPT !.text = <<>>], "s_headers_almost_done")
              ELSE IF c = ":" THEN To(ss_on_multipart_name(m), "s_header_value_start")
              ELSE IF c \in NoNameChar THEN Fails(m)
              ELSE longer
         [] m.state = "s_header_value_start" /\ c = " " -> m
         [] m.state \in {"s_header_value_start", "s_header_value"} /\ c = CR ->
              To(ss_on_multipart_value(m), "s_header_value_almost_done")
         [] m.state \in {"s_header_value_start", "s_header_value"} ->
              To(longer, "s_header_value")
         [] m.state = "s_header_value_almost_done" ->
              IF c = LF THEN To(m, "s_header_field") ELSE Fails(m)
         [] m.state = "s_headers_almost_done" ->
              IF c = LF THEN To(m, "s_part_data") ELSE Fails(m)

PartData(m, c) ==
    IF c = CR THEN To(m, "s_part_data_almost_boundary") ELSE ss_on_multipart_data(m, <<c>>)

(* Mutant of Lookbehind: the part of the boundary that did match is lost.  *)
LookbehindWithout(m, boundary) == <<CR, LF>>

(* What was taken for the beginning of a boundary and was not one. *)
Lookbehind(m, boundary) == <<CR, LF>> \o SubSeq(boundary, 1, m.index)

PartDataEnds(m, c, boundary) ==
    CASE m.state = "s_part_data_almost_boundary" ->
           IF c = LF THEN To([m EXCEPT !.index = 0], "s_part_data_boundary")
           ELSE PartData(To(ss_on_multipart_data(m, <<CR>>), "s_part_data"), c)
      [] m.state = "s_part_data_boundary" ->
           LET matched == [m EXCEPT !.index = @ + 1]
           IN IF c # boundary[m.index + 1]
                THEN PartData(To(ss_on_multipart_data(m, Lookbehind(m, boundary)),
                                 "s_part_data"), c)
              ELSE IF matched.index < Len(boundary) THEN matched
              ELSE To(ss_on_multipart_data_over(matched), "s_part_data_almost_end")
      [] m.state = "s_part_data_almost_end" ->
           CASE c = "-" -> To(m, "s_part_data_final_hyphen")
             [] c = CR  -> To(m, "s_part_data_end")
             [] OTHER   -> Fails(m)
      [] m.state = "s_part_data_final_hyphen" ->
           IF c = "-" THEN To(ss_on_multipart_body_end(m), "s_end") ELSE Fails(m)
      [] m.state = "s_part_data_end" ->
           IF c = LF THEN To(m, "s_header_field") ELSE Fails(m)

multipart_parser_execute(boundary, body) ==
    FoldLeft(LAMBDA m, c :
                CASE m.failed \/ m.state = "s_end"  -> m
                  [] m.state = "s_start_boundary"   -> StartBoundary(m, c, boundary)
                  [] m.state = "s_part_data"        -> PartData(m, c)
                  [] m.state \in {"s_header_field", "s_header_value_start",
                                  "s_header_value", "s_header_value_almost_done",
                                  "s_headers_almost_done"} -> PartHeader(m, c)
                  [] OTHER                          -> PartDataEnds(m, c, boundary),
             multipart_parser_init, body)
=============================================================================
