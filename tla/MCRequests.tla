----------------------------- MODULE MCRequests -----------------------------
(* Requests for the instances of RequestInPieces and HttpServer. *)
EXTENDS PeerRequests

MCKeepAlive == << <<"connection">>, <<"keep-", "alive">> >>
Alive == << <<"Connection">>, <<"Keep-", "Alive">> >>
ContentType(value) == << <<"Content-", "Type">>, value >>

MCGet == [method |-> <<"GET">>, path |-> <<"/", "task">>, params |-> <<>>,
          headers |-> <<Alive>>, how |-> "plain", body |-> <<>>, form |-> <<>>,
          boundary |-> <<>>, trailer |-> <<>>, eol |-> CRLF]

MCShutdownUrl == <<"/", "shutdown">>
MCShutdown == [MCGet EXCEPT !.path = MCShutdownUrl,
                            !.headers = << << <<"Connection">>, <<"close">> >> >>]

(* A value to be escaped, an empty one, a folded header and an empty one.  *)
MCQuery ==
    [MCGet EXCEPT !.params = << << <<"id">>, <<"7", "&">> >>, << <<"count">>, <<>> >> >>,
                  !.headers = << << <<"Accept">>, <<"x", ",", CR, LF, " ", "y">> >>,
                                 << <<"Referer">>, <<>> >>, Alive >>]

MCForm ==
    [MCGet EXCEPT !.method = <<"POST">>, !.path = <<"/", "config">>, !.how = "form",
                  !.headers = <<ContentType(<<"application/x-www-form-urlencoded">>)>>,
                  !.form = << << <<"a">>, <<"=", "b">> >> >>]

(* Data that begins like a boundary. *)
MCMultipart ==
    [MCForm EXCEPT !.how = "multipart", !.boundary = <<"B", "B">>,
                   !.headers = <<ContentType(<<"multipart/form-data", ";", " ", "boundary", "=",
                                               "B", "B">>)>>,
                   !.form = << << <<"n">>, <<CR, LF, "-", "-", "B", "x">> >>,
                               << <<"m">>, <<CR, CR, LF, CR>> >> >>]
MCOnePart == [MCMultipart EXCEPT !.form = << @[1] >>]
MCParts == [MCMultipart EXCEPT !.form = << << <<"n">>, <<>> >>,
                                           << <<"m">>, <<CR, LF, "-", "-", "B", CR, LF, "-">> >> >>]

MCChunked ==
    [MCGet EXCEPT !.headers = <<Alive, << <<"Transfer-", "Encoding">>, <<"chunked">> >> >>,
                  !.how = "chunked", !.body = <<"a", "b">>,
                  !.trailer = <<"Expires", ":", " ", "0", CR, LF>>]

MCJson == [MCForm EXCEPT !.how = "json", !.form = << << <<"k">>, <<"1">> >>, << <<"l">>, <<"2", "0">> >> >>,
                         !.headers = <<ContentType(<<"application/json">>)>>]

(* Line feeds only, several tokens and a change of protocol. *)
MCUpgrade == [MCGet EXCEPT !.eol = <<LF>>, !.path = <<"/", "task", "#", "f">>,
                !.headers = << << <<"Upgrade">>, <<"h2c">> >>,
                               << <<"Connection">>, <<"x", ",", " ", "upgrade">> >> >>]
MCProxied == [MCGet EXCEPT !.method = <<"OP", "TIONS">>, !.eol = <<LF>>,
                           !.path = <<"http", ":", "/", "/", "u", "@", "h", "/", "task">>,
                           !.headers = << << <<"Content">>, <<>> >>,
                                          << <<"Content-", "Length">>, <<"0">> >> >>]
MCConnect == [MCGet EXCEPT !.method = <<"CONNECT">>, !.path = <<"h", ":", "8", "0">>]

(* To be refused: without a length or with two, with a length and chunks,   *)
(* with a space in a name, and with bodies that are not what they claim.    *)
MCBadPost == [MCForm EXCEPT !.how = "no length"]
Length(text) == << <<"Content-", "Length">>, text >>
MCBad ==
    {MCBadPost,
     [MCForm EXCEPT !.headers = Append(@, Length(<<"1">>))],
     [MCChunked EXCEPT !.headers = Append(@, Length(<<"2">>))],
     [MCBadPost EXCEPT !.headers = Append(@, Length(<<>>))],
     [MCBadPost EXCEPT !.headers = Append(@, Length(<<"1", CR, LF, " ", "2">>))],
     [MCGet EXCEPT !.headers = << << <<"Ho", " ", "st">>, <<"h">> >> >>],
     [MCGet EXCEPT !.path = <<"http", ":", "task">>],
     [MCJson EXCEPT !.how = "plain", !.body = <<"{", NotJson>>],
     [MCMultipart EXCEPT !.boundary = <<"B", "C">>]}

MCRequests == {MCGet, MCShutdown}
MCExchanges == {MCShutdown, MCQuery, MCForm, MCOnePart, MCChunked, MCBadPost}
MCAllRequests ==
    MCBad \cup MCExchanges \cup {MCGet, MCMultipart, MCParts, MCJson, MCUpgrade, MCProxied, MCConnect}
MCResources == MCGet.path :> MCGet.method @@ MCForm.path :> MCForm.method
                 @@ MCShutdownUrl :> MCShutdown.method
=============================================================================
