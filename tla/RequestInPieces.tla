-------------------------- MODULE RequestInPieces --------------------------
(***************************************************************************)
(* One request on its way to parse_request: the peer's text arrives in      *)
(* pieces, cut anywhere, and every piece is handed to the parser.           *)
(***************************************************************************)
EXTENDS PeerRequests

CONSTANT
    Malformed       \* those of the Requests the server has to refuse

ASSUME PiecesAssumption == Malformed \subseteq Requests

VARIABLES
    meant,      \* the request, as it is meant
    wire,       \* what it looks like on its way
    taken,      \* how much of it was read
    parsed      \* the Request of the connection

pieces == <<meant, wire, taken, parsed>>

PiecesInit ==
    /\ meant \in Requests
    /\ wire = Wire(meant)
    /\ taken = 0
    /\ parsed = NewRequest

(* on_readable: recv returns whatever is there. *)
parse_request ==
    /\ ParseResult(parsed) = "READ_CONTINUE"
    /\ \E upTo \in taken + 1 .. Len(wire) :
          /\ parsed' = http_parser_execute(parsed, SubSeq(wire, taken + 1, upTo))
          /\ taken' = upTo
    /\ UNCHANGED <<meant, wire>>

PiecesSpec == PiecesInit /\ [][parse_request]_pieces
-----------------------------------------------------------------------------
(* What the server knows depends on what it has read, and not on how it    *)
(* was cut: not within the url, a header, a line end, a number or a body.   *)
Known(req) == IF req.p.errno THEN Error(NewRequest) ELSE req

CutsDoNotMatter ==
    Known(parsed) = Known(http_parser_execute(NewRequest, SubSeq(wire, 1, taken)))

(* The request is complete with its last character and not before, and     *)
(* says what the peer meant.                                              *)
MeantIsSeen ==
    meant \notin Malformed =>
        IF taken = Len(wire) THEN ParseResult(parsed) = "READ_OVER" /\ Seen(parsed) = Meaning(meant)
                            ELSE ParseResult(parsed) = "READ_CONTINUE"

(* What must be refused is not handled, however it is cut. *)
MalformedIsRefused ==
    meant \in Malformed => /\ ParseResult(parsed) # "READ_OVER"
                           /\ taken = Len(wire) => ParseResult(parsed) = "READ_CLOSE"
=============================================================================
