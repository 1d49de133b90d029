----------------------------- MODULE MCSettings -----------------------------
(* Two consoles, two handlers and one client.                              *)
EXTENDS Settings, TLC

Client(limits, pauses) == "client" :> [limits |-> limits, pauses |-> pauses]
Server(limits) == "server" :> [limits |-> limits]

MCFirst == Client(1, 100 :> 1) @@ "database" :> 1 @@ "proxy" :> 1
             @@ "server" :> [fixed |-> "p", limits |-> 1]
MCForms == {Client(2, 100 :> 2 @@ 200 :> 1), Client(Bad, 100 :> 1), Client(2, <<>>), Server(2),
            [MCFirst EXCEPT !["server"] = [fixed |-> "q", limits |-> 1]]}
=============================================================================
