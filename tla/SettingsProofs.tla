----------------------------- MODULE SettingsProofs -----------------------------
(***************************************************************************)
(* Theorems about the settings: for any consoles, clients, threads of the   *)
(* server and forms, whatever interleaves, is repeated, lost or killed.     *)
(***************************************************************************)
EXTENDS Settings, TLAPS

(* A section that the server may use, and that the file gives back. *)
Good(s, value) ==
    /\ parseFromJson(s, value)
    /\ isValid(s, value)
    /\ s = "client" => value.pauses # <<>>

IsMap(f) == f = [s \in DOMAIN f |-> f[s]]
Whole(settings) ==
    /\ IsMap(settings)
    /\ DOMAIN settings = Sections
    /\ \A s \in Sections : Good(s, settings[s])

Asks == {Written(form) : form \in Forms}
Messages == [from : Consoles, ask : Asks, try : Nat]

SentOK ==
    /\ sent \in [Consoles -> [status : {"none", "waiting", "refused"},
                              ask : Asks \cup {<<>>}, try : Nat, left : Int]]
    /\ \A c \in Consoles : sent[c].status # "none" => sent[c].ask \in Asks
    /\ network \subseteq Messages
    /\ DOMAIN known = Consoles /\ IsMap(known)
    /\ DOMAIN doubts = Consoles /\ IsMap(doubts)

(* A handler at work; the sections it is still to replace and those it has read. *)
Busy(x) ==
    /\ x = [at |-> x.at, request |-> x.request, values |-> x.values, text |-> x.text]
    /\ x.at \in {"assign", "open", "write", "done"}
    /\ x.request \in Messages
    /\ DOMAIN x.values \subseteq DOMAIN x.request.ask
    /\ x.at = "assign" <=> DOMAIN x.values # {}
    /\ \A s \in DOMAIN x.values : Good(s, x.values[s])
    /\ IsMap(x.text) /\ DOMAIN x.text \subseteq Sections
    /\ x.at \in {"assign", "open"} => DOMAIN x.text = {}
    /\ \A s \in DOMAIN x.text : Good(s, x.text[s])

HandlersOK ==
    /\ DOMAIN handler = Handlers /\ IsMap(handler)
    /\ \A h \in Handlers : handler[h] = Idle \/ Busy(handler[h])

(* Only a kill leaves the file empty, and then the server stays down. *)
FileOK ==
    /\ up \in BOOLEAN
    /\ excused \in BOOLEAN
    /\ killed \in BOOLEAN
    /\ Whole(memory)
    /\ file = Emptied \/ Whole(file)
    /\ file = Emptied => killed \/ \E h \in Active : handler[h].at = "write"
    /\ killed => ~ up /\ file = Emptied
    /\ ~ up => Active = {}

(* Whoever asked for a change without a confirmation made every console doubt. *)
DoubtsOK == \A c \in Consoles : Unsettled(UnderWay) \subseteq doubts[c]

SettingsTyped == SentOK /\ HandlersOK /\ FileOK /\ DoubtsOK

(* A handler has put in place what it does not still have to. *)
InPlace(h) ==
    LET target == Completed(handler[h].request.ask)
    IN \A s \in DOMAIN handler[h].request.ask :
          IF s \in DOMAIN handler[h].values THEN handler[h].values[s] = target[s]
                                            ELSE memory[s] = target[s]

(* Handlers that do not race want the same. *)
OneAsk ==
    /\ \A g, h \in Active : handler[g].request.ask = handler[h].request.ask
    /\ \A h \in Active : InPlace(h)
    /\ \A h \in Active : \A s \in DOMAIN handler[h].text : handler[h].text[s] = memory[s]

AgreeBut(S) == \A s \in Sections \ S : file[s] = memory[s]

(* The file is what the server uses, but for what is being changed, or what   *)
(* was being changed when the server was killed, which nobody is sure of.     *)
FileAgrees ==
    /\ \A h \in Active : handler[h].at \in {"write", "done"} => file \in {Emptied, memory}
    /\ file # Emptied =>
          /\ up => AgreeBut(Unsettled({handler[h].request : h \in Active}))
          /\ \A c \in Consoles : AgreeBut(doubts[c])

KnownRight ==
    \A c \in Consoles : \A s \in DOMAIN known[c] \ doubts[c] :
        s \in Sections /\ Shown(s, known[c][s]) = Shown(s, memory[s])

Raceless == ~ excused => OneAsk /\ FileAgrees /\ KnownRight

SettingsInv == SettingsTyped /\ Raceless
-----------------------------------------------------------------------------
(* What is written of a section that is in use reads as that section. *)
LEMMA GoodText ==
    ASSUME NEW s, NEW value, Good(s, value)
    PROVE  toJson(s, value) = value
  BY DEF Good, toJson

LEMMA AskIs ==
    ASSUME NEW ask \in Asks
    PROVE  /\ IsMap(ask)
           /\ DOMAIN ask \subseteq Sections
           /\ DOMAIN ask # {}
           /\ "client" \in DOMAIN ask => ask["client"].pauses # <<>>
<1>1. PICK form \in Forms : ask = Written(form)
  BY DEF Asks
<1>2. /\ DOMAIN form \subseteq Sections /\ DOMAIN form # {}
      /\ DOMAIN ask = DOMAIN form /\ IsMap(ask)
      /\ "client" \in DOMAIN form => ask["client"] = toJson("client", form["client"])
  BY <1>1, SettingsAssumption DEF Written, IsMap
<1>3. ASSUME "client" \in DOMAIN form
      PROVE  ask["client"].pauses # <<>>
  <2>1. PICK v : v = form["client"] /\ DOMAIN v = {"limits", "pauses"}
    BY <1>3, SettingsAssumption
  <2>2. Null # <<>>
    BY DEF Null
  <2>3. [v EXCEPT !.pauses = Null].pauses = Null
    BY <2>1
  <2>. QED
    BY <1>2, <1>3, <2>1, <2>2, <2>3 DEF toJson
<1>. QED
  BY <1>2, <1>3

LEMMA CompletedIs ==
    ASSUME NEW ask \in Asks
    PROVE  /\ DOMAIN Completed(ask) = DOMAIN ask
           /\ Accepted(ask) => \A s \in DOMAIN ask : Good(s, Completed(ask)[s])
           /\ \A s \in DOMAIN ask : Shown(s, Completed(ask)[s]) = Shown(s, ask[s])
<1>1. DOMAIN Completed(ask) = DOMAIN ask
  BY DEF Completed
<1>2. ASSUME NEW s \in DOMAIN ask
      PROVE  /\ \/ Completed(ask)[s] = ask[s]
                \/ s = "server" /\ Completed(ask)[s].limits = ask[s].limits
             /\ Shown(s, Completed(ask)[s]) = Shown(s, ask[s])
  BY DEF Completed, Shown
<1>3. ASSUME NEW s \in DOMAIN ask, Accepted(ask)
      PROVE  Good(s, Completed(ask)[s])
  <2>1. /\ parseFromJson(s, ask[s]) /\ isValid(s, ask[s])
        /\ s = "client" => ask[s].pauses # <<>>
    BY <1>3, AskIs DEF Accepted
  <2>2. CASE Completed(ask)[s] = ask[s]
    BY <2>1, <2>2 DEF Good
  <2>3. CASE s = "server" /\ Completed(ask)[s].limits = ask[s].limits
    BY <2>1, <2>3 DEF Good, parseFromJson, isValid
  <2>. QED
    BY <1>2, <2>2, <2>3
<1>. QED
  BY <1>1, <1>2, <1>3

(* The next section is one that is wanted and not done. *)
LEMMA NextOfIs ==
    ASSUME NEW order \in {AssignOrder, WriteOrder}, NEW done, NEW wanted \in SUBSET Sections,
           wanted \ done # {}
    PROVE  NextOf(order, done, wanted) \in wanted \ done
<1> DEFINE Is(i) == /\ order[i] \in wanted \ done
                    /\ \A j \in 1 .. i - 1 : order[j] \notin wanted \ done
<1>1. /\ DOMAIN order = 1 .. 4
      /\ \A s \in Sections : \E i \in 1 .. 4 : order[i] = s
  <2>1. CASE order = AssignOrder
    <3>1. DOMAIN order = 1 .. 4
      BY <2>1 DEF AssignOrder
    <3>2. order[1] = "client" /\ order[2] = "database" /\ order[3] = "proxy" /\ order[4] = "server"
      BY <2>1 DEF AssignOrder
    <3>. QED
      BY <3>1, <3>2 DEF Sections
  <2>2. CASE order = WriteOrder
    <3>1. DOMAIN order = 1 .. 4
      BY <2>2 DEF WriteOrder
    <3>2. order[1] = "database" /\ order[2] = "client" /\ order[3] = "proxy" /\ order[4] = "server"
      BY <2>2 DEF WriteOrder
    <3>. QED
      BY <3>1, <3>2 DEF Sections
  <2>. QED
    BY <2>1, <2>2
<1>2. \E i \in 1 .. 4 : order[i] \in wanted \ done
  BY <1>1
<1>3. \E i \in 1 .. 4 : Is(i)
  <2>1. CASE order[1] \in wanted \ done
    BY <2>1
  <2>2. CASE order[1] \notin wanted \ done /\ order[2] \in wanted \ done
    BY <2>2
  <2>3. CASE order[1] \notin wanted \ done /\ order[2] \notin wanted \ done /\ order[3] \in wanted \ done
    BY <2>3
  <2>4. CASE /\ order[1] \notin wanted \ done /\ order[2] \notin wanted \ done
             /\ order[3] \notin wanted \ done /\ order[4] \in wanted \ done
    BY <2>4
  <2>. QED
    BY <1>2, <2>1, <2>2, <2>3, <2>4
<1>4. Is(CHOOSE i \in DOMAIN order : Is(i))
  BY <1>1, <1>3
<1>. QED
  BY <1>4 DEF NextOf

LEMMA BusyIsNotIdle ==
    ASSUME NEW x, Busy(x)
    PROVE  x # Idle
  BY DEF Busy, Idle

(* One handler changes. *)
LEMMA HandlerChanges ==
    ASSUME HandlersOK, NEW h \in Handlers, NEW x, Busy(x) \/ x = Idle,
           handler' = [handler EXCEPT ![h] = x]
    PROVE  /\ HandlersOK'
           /\ handler'[h] = x
           /\ \A g \in Handlers \ {h} : handler'[g] = handler[g]
           /\ Active' = IF x = Idle THEN Active \ {h} ELSE Active \cup {h}
<1>1. /\ DOMAIN handler' = Handlers /\ IsMap(handler')
      /\ handler'[h] = x
      /\ \A g \in Handlers \ {h} : handler'[g] = handler[g]
  BY DEF HandlersOK, IsMap
<1>. QED
  BY <1>1 DEF HandlersOK, Active

(* A handler at work, and what it works on. *)
LEMMA AtWork ==
    ASSUME HandlersOK, NEW h \in Handlers, handler[h].at # "idle"
    PROVE  h \in Active /\ Busy(handler[h])
  BY DEF HandlersOK, Active, Idle

LEMMA ActiveIsBusy ==
    ASSUME HandlersOK, NEW h \in Active
    PROVE  h \in Handlers /\ Busy(handler[h])
  BY DEF HandlersOK, Active

LEMMA UnsettledIs ==
    ASSUME NEW R, NEW s
    PROVE  s \in Unsettled(R) <=> \E r \in R : s \in DOMAIN r.ask
  BY DEF Unsettled
-----------------------------------------------------------------------------
LEMMA InitSettings == Init => SettingsInv
<1>. SUFFICES ASSUME Init PROVE SettingsInv
  OBVIOUS
<1>1. Active = {} /\ UnderWay = {} /\ Unsettled(UnderWay) = {}
  <2>1. Active = {}
    BY DEF Init, Active
  <2>2. UnderWay = {}
    BY <2>1 DEF Init, UnderWay
  <2>. QED
    BY <2>1, <2>2, UnsettledIs
<1>2. Whole(First)
  <2>1. \A s \in Sections : Good(s, First[s])
    BY SettingsAssumption DEF Accepted, Good
  <2>2. IsMap(First)
    BY SettingsAssumption DEF IsMap
  <2>. QED
    BY <2>1, <2>2, SettingsAssumption DEF Whole
<1>3. SentOK
  BY DEF Init, SentOK, Nothing, IsMap
<1>4. HandlersOK
  BY DEF Init, HandlersOK, IsMap
<1>5. FileOK
  <2>1. First # Emptied
    BY SettingsAssumption DEF Emptied, Sections
  <2>. QED
    BY <1>2, <2>1 DEF Init, FileOK
<1>6. DoubtsOK
  BY <1>1 DEF DoubtsOK
<1>7. OneAsk
  BY <1>1 DEF OneAsk
<1>8. FileAgrees
  BY <1>1 DEF Init, FileAgrees, AgreeBut
<1>9. KnownRight
  <2>1. \A c \in Consoles : DOMAIN known[c] = {}
    BY DEF Init, Disconnected
  <2>. QED
    BY <2>1 DEF KnownRight
<1>. QED
  BY <1>3, <1>4, <1>5, <1>6, <1>7, <1>8, <1>9 DEF SettingsInv, SettingsTyped, Raceless
-----------------------------------------------------------------------------
(* The consoles. *)

(* A step of a console that only makes doubts. *)
LEMMA DoubtingKeeps ==
    ASSUME SettingsInv, UNCHANGED <<server, known, excused>>, SentOK', DoubtsOK',
           \A c \in Consoles : doubts[c] \subseteq doubts'[c]
    PROVE  SettingsInv'
<1>1. UNCHANGED <<up, memory, file, handler, killed>>
  BY DEF server
<1>2. UNCHANGED Active
  BY <1>1 DEF Active
<1>3. HandlersOK' /\ FileOK'
  BY <1>1, <1>2 DEF SettingsInv, SettingsTyped, HandlersOK, FileOK
<1>4. OneAsk => OneAsk'
  BY <1>1, <1>2 DEF OneAsk, InPlace, Completed
<1>5. FileAgrees => FileAgrees'
  BY <1>1, <1>2 DEF FileAgrees, AgreeBut
<1>6. KnownRight => KnownRight'
  BY <1>1 DEF KnownRight
<1>. QED
  BY <1>3, <1>4, <1>5, <1>6 DEF SettingsInv, SettingsTyped, Raceless

LEMMA SendingKeeps ==
    ASSUME SettingsInv, NEW c \in Consoles, NEW ask \in Asks, NEW left \in Int,
           Sends(c, ask, left), UNCHANGED <<server, known, excused>>
    PROVE  SettingsInv'
<1>1. PICK try \in Nat :
         /\ try = sent[c].try + 1
         /\ sent' = [sent EXCEPT ![c] = [status |-> "waiting", ask |-> ask, try |-> try,
                                         left |-> left]]
         /\ network' \subseteq network \cup {[from |-> c, ask |-> ask, try |-> try]}
         /\ doubts' = [d \in Consoles |-> doubts[d] \cup DOMAIN ask]
  <2>1. sent[c].try + 1 \in Nat
    BY DEF SettingsInv, SettingsTyped, SentOK
  <2>. QED
    BY <2>1 DEF Sends
<1>2. SentOK'
  <2>1. [from |-> c, ask |-> ask, try |-> try] \in Messages
    BY DEF Messages
  <2>2. network' \subseteq Messages
    BY <1>1, <2>1 DEF SettingsInv, SettingsTyped, SentOK
  <2>3. /\ [status |-> "waiting", ask |-> ask, try |-> try, left |-> left]
              \in [status : {"none", "waiting", "refused"}, ask : Asks \cup {<<>>},
                   try : Nat, left : Int]
        /\ [status |-> "waiting", ask |-> ask, try |-> try, left |-> left].ask = ask
    OBVIOUS
  <2>4. /\ sent' \in [Consoles -> [status : {"none", "waiting", "refused"},
                                   ask : Asks \cup {<<>>}, try : Nat, left : Int]]
        /\ \A d \in Consoles : sent'[d].status # "none" => sent'[d].ask \in Asks
    BY <1>1, <2>3 DEF SettingsInv, SettingsTyped, SentOK
  <2>5. DOMAIN doubts' = Consoles /\ IsMap(doubts')
    BY <1>1 DEF IsMap
  <2>. QED
    BY <2>2, <2>4, <2>5 DEF SettingsInv, SettingsTyped, SentOK, IsMap
<1>3. DoubtsOK'
  <2>1. UnderWay' \subseteq UnderWay \cup {[from |-> c, ask |-> ask, try |-> try]}
    BY <1>1 DEF UnderWay, Active, server
  <2>2. ASSUME NEW d \in Consoles, NEW s \in Unsettled(UnderWay')
        PROVE  s \in doubts'[d]
    <3>1. PICK r \in UnderWay' : s \in DOMAIN r.ask
      BY <2>2, UnsettledIs
    <3>2. CASE r \in UnderWay
      <4>1. s \in Unsettled(UnderWay)
        BY <3>1, <3>2, UnsettledIs
      <4>. QED
        BY <1>1, <4>1 DEF SettingsInv, SettingsTyped, DoubtsOK
    <3>3. CASE r = [from |-> c, ask |-> ask, try |-> try]
      BY <1>1, <3>1, <3>3
    <3>. QED
      BY <2>1, <3>2, <3>3
  <2>. QED
    BY <2>2 DEF DoubtsOK, Unsettled
<1>4. \A d \in Consoles : doubts[d] \subseteq doubts'[d]
  BY <1>1
<1>. QED
  BY <1>2, <1>3, <1>4, DoubtingKeeps

LEMMA StatusChanges ==
    ASSUME SentOK, NEW c \in Consoles, NEW status \in {"none", "refused"}, sent[c].status # "none",
           sent' = [sent EXCEPT ![c].status = status]
    PROVE  /\ sent' \in [Consoles -> [status : {"none", "waiting", "refused"},
                                      ask : Asks \cup {<<>>}, try : Nat, left : Int]]
           /\ \A d \in Consoles : sent'[d].status # "none" => sent'[d].ask \in Asks
<1>1. PICK s \in {"none", "waiting", "refused"}, a \in Asks \cup {<<>>}, n \in Nat, left \in Int :
         sent[c] = [status |-> s, ask |-> a, try |-> n, left |-> left]
  BY DEF SentOK
<1>2. a \in Asks
  BY <1>1 DEF SentOK
<1>3. sent' = [sent EXCEPT ![c] = [status |-> status, ask |-> a, try |-> n, left |-> left]]
  <2>1. [sent[c] EXCEPT !.status = status]
           = [status |-> status, ask |-> a, try |-> n, left |-> left]
    BY <1>1
  <2>. QED
    BY <2>1
<1>4. [status |-> status, ask |-> a, try |-> n, left |-> left]
         \in [status : {"none", "waiting", "refused"}, ask : Asks \cup {<<>>}, try : Nat, left : Int]
  OBVIOUS
<1>5. sent' \in [Consoles -> [status : {"none", "waiting", "refused"},
                             ask : Asks \cup {<<>>}, try : Nat, left : Int]]
  BY <1>3, <1>4 DEF SentOK
<1>6. \A d \in Consoles : sent'[d] = IF d = c THEN [status |-> status, ask |-> a, try |-> n, left |-> left]
                                             ELSE sent[d]
  BY <1>3 DEF SentOK
<1>7. \A d \in Consoles : sent'[d].status # "none" => sent'[d].ask \in Asks
  BY <1>2, <1>6 DEF SentOK
<1>. QED
  BY <1>5, <1>7

(* A request is settled for its console: it was refused, or given up. *)
LEMMA GivingUpKeeps ==
    ASSUME SettingsInv, UNCHANGED <<server, known, doubts, excused>>,
           network' \subseteq network,
           \/ sent' = sent
           \/ \E c \in Consoles : /\ sent[c].status # "none"
                                  /\ \E status \in {"none", "refused"} :
                                        sent' = [sent EXCEPT ![c].status = status]
    PROVE  SettingsInv'
<1>1. SentOK'
  <2>1. CASE sent' = sent
    BY <2>1 DEF SettingsInv, SettingsTyped, SentOK, IsMap
  <2>2. ASSUME NEW c \in Consoles, NEW status \in {"none", "refused"}, sent[c].status # "none",
               sent' = [sent EXCEPT ![c].status = status]
        PROVE  SentOK'
    BY <2>2, StatusChanges DEF SettingsInv, SettingsTyped, SentOK, IsMap
  <2>. QED
    BY <2>1, <2>2
<1>2. DoubtsOK'
  <2>1. UnderWay' \subseteq UnderWay
    BY DEF UnderWay, Active, server
  <2>2. Unsettled(UnderWay') \subseteq Unsettled(UnderWay)
    BY <2>1 DEF Unsettled
  <2>. QED
    BY <2>2 DEF SettingsInv, SettingsTyped, DoubtsOK, Unsettled
<1>. QED
  BY <1>1, <1>2, DoubtingKeeps DEF SettingsInv, SettingsTyped, SentOK

(* A console that asks gets what the server uses now. *)
LEMMA ConnectingKeeps ==
    ASSUME SettingsInv, NEW c \in Consoles, getAllConfig(c)
    PROVE  SettingsInv'
<1>1. /\ up
      /\ UNCHANGED <<up, memory, file, handler, killed, sent, network, excused>>
      /\ known' = [known EXCEPT ![c] = memory]
      /\ doubts' = [doubts EXCEPT ![c] = Unsettled(UnderWay)]
  BY DEF getAllConfig, api_get_advance_config, config_advance_get, server
<1>2. UNCHANGED <<Active, UnderWay>>
  BY <1>1 DEF Active, UnderWay
<1>3. SentOK'
  BY <1>1 DEF SettingsInv, SettingsTyped, SentOK, IsMap
<1>4. HandlersOK' /\ FileOK'
  BY <1>1, <1>2 DEF SettingsInv, SettingsTyped, HandlersOK, FileOK
<1>5. \A d \in Consoles : doubts'[d] = IF d = c THEN Unsettled(UnderWay) ELSE doubts[d]
  BY <1>1 DEF SettingsInv, SettingsTyped, SentOK
<1>6. DoubtsOK'
  BY <1>2, <1>5 DEF SettingsInv, SettingsTyped, DoubtsOK, Unsettled
<1>7. OneAsk => OneAsk'
  <2>1. UNCHANGED <<memory, handler>>
    BY <1>1
  <2>. QED
    BY <1>2, <2>1 DEF OneAsk, InPlace, Completed
<1>8. FileAgrees => FileAgrees'
  <2>1. Unsettled({handler[h].request : h \in Active}) \subseteq Unsettled(UnderWay)
    BY DEF Unsettled, UnderWay
  <2>. QED
    BY <1>1, <1>2, <1>5, <2>1 DEF FileAgrees, AgreeBut
<1>9. KnownRight => KnownRight'
  <2>1. \A d \in Consoles : known'[d] = IF d = c THEN memory ELSE known[d]
    BY <1>1 DEF SettingsInv, SettingsTyped, SentOK
  <2>2. DOMAIN memory = Sections
    BY DEF SettingsInv, SettingsTyped, FileOK, Whole
  <2>. QED
    BY <1>1, <1>5, <2>1, <2>2 DEF KnownRight
<1>. QED
  BY <1>1, <1>3, <1>4, <1>6, <1>7, <1>8, <1>9 DEF SettingsInv, SettingsTyped, Raceless
-----------------------------------------------------------------------------
(* The handlers. *)

(* A request becomes a handler's: of those that do not race, it wants the same. *)
LEMMA AcceptingKeeps ==
    ASSUME SettingsInv, NEW h \in Handlers, NEW r \in network, config_set(h, r), Accepts(r.ask)
    PROVE  SettingsInv'
<1>1. PICK x : x = [at |-> "assign", request |-> r, values |-> Completed(r.ask), text |-> <<>>]
  OBVIOUS
<1>2. /\ up /\ handler[h] = Idle
      /\ handler' = [handler EXCEPT ![h] = x]
      /\ network' = network \ {r}
      /\ excused' = (excused \/ Races(r))
      /\ UNCHANGED <<up, memory, file, killed, known, doubts, sent>>
  BY <1>1 DEF config_set
<1>3. r \in Messages /\ r.ask \in Asks
  BY DEF SettingsInv, SettingsTyped, SentOK, Messages
<1>4. /\ x.at = "assign" /\ x.request = r /\ x.values = Completed(r.ask) /\ x.text = <<>>
      /\ Busy(x)
  <2>1. x.at = "assign" /\ x.request = r /\ x.values = Completed(r.ask) /\ x.text = <<>>
    BY <1>1
  <2>2. /\ DOMAIN x.values = DOMAIN r.ask /\ DOMAIN r.ask # {}
        /\ \A s \in DOMAIN x.values : Good(s, x.values[s])
    BY <1>3, <2>1, CompletedIs, AskIs DEF Accepts
  <2>3. IsMap(x.text) /\ DOMAIN x.text = {}
    BY <2>1 DEF IsMap
  <2>4. x = [at |-> x.at, request |-> x.request, values |-> x.values, text |-> x.text]
    BY <1>1, <2>1
  <2>. QED
    BY <1>3, <2>1, <2>2, <2>3, <2>4 DEF Busy
<1>5. HandlersOK
  BY DEF SettingsInv, SettingsTyped
<1>6. /\ HandlersOK'
      /\ handler'[h] = x
      /\ \A g \in Handlers \ {h} : handler'[g] = handler[g]
      /\ Active' = Active \cup {h}
      /\ h \notin Active /\ Active \subseteq Handlers
  BY <1>2, <1>4, <1>5, HandlerChanges, BusyIsNotIdle DEF Active
<1>7. \A g \in Active : g # h /\ handler'[g] = handler[g]
  BY <1>6
<1>8. SentOK'
  BY <1>2 DEF SettingsInv, SettingsTyped, SentOK, IsMap
<1>9. DoubtsOK'
  <2>1. UnderWay' \subseteq UnderWay
    BY <1>2, <1>4, <1>6, <1>7 DEF UnderWay
  <2>2. Unsettled(UnderWay') \subseteq Unsettled(UnderWay)
    BY <2>1 DEF Unsettled
  <2>. QED
    BY <1>2, <2>2 DEF SettingsInv, SettingsTyped, DoubtsOK, Unsettled
<1>10. FileOK'
  <2>1. excused' \in BOOLEAN
    BY <1>2 DEF SettingsInv, SettingsTyped, FileOK
  <2>. QED
    BY <1>2, <1>6, <1>7, <2>1 DEF SettingsInv, SettingsTyped, FileOK
<1>11. ASSUME ~ excused' PROVE OneAsk' /\ FileAgrees' /\ KnownRight'
  <2>1. ~ excused /\ OneAsk /\ FileAgrees /\ KnownRight
    BY <1>2, <1>11 DEF SettingsInv, Raceless
  <2>2. \A g \in Active : handler[g].request.ask = r.ask
    BY <1>2, <1>11 DEF Races
  <2>3. \A g, k \in Active' : handler'[g].request.ask = handler'[k].request.ask
    BY <1>4, <1>6, <1>7, <2>2
  <2>4. \A g \in Active' : InPlace(g)'
    <3>1. \A ask : Completed(ask)' = Completed(ask)
      BY <1>2 DEF Completed
    <3>2. InPlace(h)'
      BY <1>3, <1>4, <1>6, <3>1, CompletedIs DEF InPlace
    <3>3. ASSUME NEW g \in Active PROVE InPlace(g)'
      BY <1>2, <1>7, <2>1, <3>1 DEF InPlace, OneAsk
    <3>. QED
      BY <1>6, <3>2, <3>3
  <2>5. \A g \in Active' : \A s \in DOMAIN handler'[g].text : handler'[g].text[s] = memory'[s]
    BY <1>2, <1>4, <1>6, <1>7, <2>1 DEF OneAsk
  <2>6. OneAsk'
    BY <2>3, <2>4, <2>5 DEF OneAsk
  <2>7. FileAgrees'
    <3>1. {handler[g].request : g \in Active} \subseteq {handler'[g].request : g \in Active'}
      BY <1>6, <1>7
    <3>2. Unsettled({handler[g].request : g \in Active})
             \subseteq Unsettled({handler'[g].request : g \in Active'})
      BY <3>1 DEF Unsettled
    <3>3. \A g \in Active' : handler'[g].at \in {"write", "done"} => file \in {Emptied, memory}
      BY <1>4, <1>6, <1>7, <2>1 DEF FileAgrees
    <3>4. file # Emptied /\ up => AgreeBut(Unsettled({handler'[g].request : g \in Active'}))
      BY <2>1, <3>2 DEF FileAgrees, AgreeBut
    <3>. QED
      BY <1>2, <2>1, <3>3, <3>4 DEF FileAgrees, AgreeBut, Unsettled
  <2>. QED
    BY <1>2, <2>1, <2>6, <2>7 DEF KnownRight
<1>. QED
  BY <1>6, <1>8, <1>9, <1>10, <1>11 DEF SettingsInv, SettingsTyped, Raceless

(* A handler goes on with its request. *)
LEMMA HandlerGoesOn ==
    ASSUME SettingsTyped, NEW h \in Active, NEW y, Busy(y), y.request = handler[h].request,
           handler' = [handler EXCEPT ![h] = y], UNCHANGED consoles
    PROVE  /\ HandlersOK' /\ SentOK' /\ DoubtsOK'
           /\ UNCHANGED Active
           /\ handler'[h] = y
           /\ \A g \in Active \ {h} : handler'[g] = handler[g]
           /\ \A g \in Active : handler'[g].request = handler[g].request
           /\ {handler'[g].request : g \in Active'} = {handler[g].request : g \in Active}
           /\ UNCHANGED <<known, doubts, sent, network>>
<1>1. HandlersOK /\ h \in Handlers /\ Active \subseteq Handlers
  BY DEF SettingsTyped, Active
<1>2. /\ HandlersOK'
      /\ handler'[h] = y
      /\ \A g \in Handlers \ {h} : handler'[g] = handler[g]
      /\ Active' = Active
  <2>1. y # Idle
    BY BusyIsNotIdle
  <2>2. /\ HandlersOK'
        /\ handler'[h] = y
        /\ \A g \in Handlers \ {h} : handler'[g] = handler[g]
        /\ Active' = IF y = Idle THEN Active \ {h} ELSE Active \cup {h}
    BY <1>1, HandlerChanges
  <2>. QED
    BY <2>1, <2>2
<1>3. \A g \in Active : handler'[g].request = handler[g].request
  BY <1>1, <1>2
<1>4. {handler'[g].request : g \in Active'} = {handler[g].request : g \in Active}
  BY <1>2, <1>3
<1>5. UNCHANGED <<known, doubts, sent, network>>
  BY DEF consoles
<1>6. SentOK'
  BY <1>5 DEF SettingsTyped, SentOK, IsMap
<1>7. UNCHANGED UnderWay
  BY <1>4, <1>5 DEF UnderWay
<1>8. DoubtsOK'
  BY <1>5, <1>7 DEF SettingsTyped, DoubtsOK, Unsettled
<1>. QED
  BY <1>1, <1>2, <1>3, <1>4, <1>5, <1>6, <1>8

(* What a request comes to does not change while it is put in place. *)
LEMMA CompletedStays ==
    ASSUME NEW ask \in Asks, NEW s \in DOMAIN ask, DOMAIN memory = Sections,
           memory' = [memory EXCEPT ![s] = Completed(ask)[s]]
    PROVE  Completed(ask)' = Completed(ask)
<1>1. CASE s # "server" \/ "server" \notin DOMAIN ask
  <2>1. memory'["server"] = memory["server"] \/ "server" \notin DOMAIN ask
    BY <1>1
  <2>. QED
    BY <2>1 DEF Completed
<1>2. CASE s = "server" /\ "fixed" \in DOMAIN ask["server"]
  BY <1>2 DEF Completed
<1>3. CASE s = "server" /\ "fixed" \notin DOMAIN ask["server"]
  <2>1. /\ s \in DOMAIN memory
        /\ Completed(ask)[s] = [fixed |-> memory["server"].fixed, limits |-> ask["server"].limits]
    BY <1>3, AskIs DEF Completed
  <2>2. memory'["server"].fixed = memory["server"].fixed
    BY <1>3, <2>1
  <2>. QED
    BY <2>2 DEF Completed
<1>. QED
  BY <1>1, <1>2, <1>3

LEMMA TwoFields ==
    ASSUME NEW f, NEW h \in DOMAIN f, NEW w, NEW b
    PROVE  [f EXCEPT ![h].values = w, ![h].at = b]
              = [f EXCEPT ![h] = [[f[h] EXCEPT !.values = w] EXCEPT !.at = b]]
  OBVIOUS

LEMMA AssigningKeeps ==
    ASSUME SettingsInv, NEW h \in Handlers, Assigns(h)
    PROVE  SettingsInv'
<1> DEFINE ask == handler[h].request.ask
<1>1. HandlersOK /\ h \in Active /\ Busy(handler[h]) /\ handler[h].at = "assign"
  BY AtWork DEF Assigns, SettingsInv, SettingsTyped
<1>2. handler[h].request \in Messages /\ ask \in Asks /\ DOMAIN ask \subseteq Sections
  BY <1>1, AskIs DEF Busy, Messages
<1>3. PICK s : s = NextOf(AssignOrder, {}, DOMAIN handler[h].values)
  OBVIOUS
<1>4. s \in DOMAIN handler[h].values /\ s \in DOMAIN ask /\ s \in Sections
  BY <1>1, <1>2, <1>3, NextOfIs DEF Busy
<1>5. PICK rest : rest = DOMAIN handler[h].values \ {s}
  OBVIOUS
<1>6. PICK y : y = [at |-> IF rest = {} THEN "open" ELSE "assign",
                    request |-> handler[h].request,
                    values |-> [t \in rest |-> handler[h].values[t]],
                    text |-> handler[h].text]
  OBVIOUS
<1>7. /\ memory' = [memory EXCEPT ![s] = handler[h].values[s]]
      /\ handler' = [handler EXCEPT ![h] = y]
      /\ UNCHANGED <<up, file, killed, excused>>
      /\ UNCHANGED consoles
  <2>1. handler' = [handler EXCEPT ![h].values = [t \in rest |-> @[t]],
                                   ![h].at = IF rest = {} THEN AfterAssign ELSE "assign"]
    BY <1>3, <1>5 DEF Assigns
  <2>2. PICK a, r, v, x : handler[h] = [at |-> a, request |-> r, values |-> v, text |-> x]
    BY <1>1 DEF Busy
  <2>3. handler' = [handler EXCEPT ![h] = y]
    <3>1. PICK w, b : w = [t \in rest |-> handler[h].values[t]] /\ b = y.at
      OBVIOUS
    <3>2. y = [[handler[h] EXCEPT !.values = w] EXCEPT !.at = b]
      <4>1. y = [at |-> b, request |-> r, values |-> w, text |-> x]
        BY <1>6, <2>2, <3>1
      <4>2. [[handler[h] EXCEPT !.values = w] EXCEPT !.at = b]
               = [at |-> b, request |-> r, values |-> w, text |-> x]
        <5>1. [handler[h] EXCEPT !.values = w]
                 = [at |-> a, request |-> r, values |-> w, text |-> x]
          BY <2>2
        <5>2. [[at |-> a, request |-> r, values |-> w, text |-> x] EXCEPT !.at = b]
                 = [at |-> b, request |-> r, values |-> w, text |-> x]
          OBVIOUS
        <5>. QED
          BY <5>1, <5>2
      <4>. QED
        BY <4>1, <4>2
    <3>3. b = IF rest = {} THEN AfterAssign ELSE "assign"
      BY <1>6, <3>1 DEF AfterAssign
    <3>4. handler' = [handler EXCEPT ![h].values = w, ![h].at = b]
      BY <2>1, <3>1, <3>3
    <3>5. h \in DOMAIN handler
      BY <1>1 DEF HandlersOK
    <3>. QED
      BY <3>2, <3>4, <3>5, TwoFields
  <2>. QED
    BY <1>3, <2>3 DEF Assigns
<1>8. /\ y.at \in {"open", "assign"} /\ y.request = handler[h].request
      /\ y.text = handler[h].text
      /\ DOMAIN y.values = DOMAIN handler[h].values \ {s}
      /\ \A t \in DOMAIN y.values : y.values[t] = handler[h].values[t]
      /\ y.at = "assign" <=> DOMAIN y.values # {}
      /\ y = [at |-> y.at, request |-> y.request, values |-> y.values, text |-> y.text]
  BY <1>5, <1>6
<1>9. Busy(y)
  BY <1>1, <1>8 DEF Busy
<1>10. /\ HandlersOK' /\ SentOK' /\ DoubtsOK'
       /\ UNCHANGED Active
       /\ handler'[h] = y
       /\ \A g \in Active \ {h} : handler'[g] = handler[g]
       /\ \A g \in Active : handler'[g].request = handler[g].request
       /\ {handler'[g].request : g \in Active'} = {handler[g].request : g \in Active}
       /\ UNCHANGED <<known, doubts, sent, network>>
  BY <1>1, <1>7, <1>8, <1>9, HandlerGoesOn DEF SettingsInv
<1>11. DOMAIN memory = Sections /\ Whole(memory')
  BY <1>1, <1>4, <1>7 DEF SettingsInv, SettingsTyped, FileOK, Whole, IsMap, Busy
<1>12. FileOK'
  BY <1>1, <1>7, <1>8, <1>10, <1>11 DEF SettingsInv, SettingsTyped, FileOK
<1>13. ASSUME ~ excused PROVE OneAsk' /\ FileAgrees' /\ KnownRight'
  <2>1. OneAsk /\ FileAgrees /\ KnownRight
    BY <1>13 DEF SettingsInv, Raceless
  <2>2. PICK a, target : a \in Asks /\ a = ask /\ target = Completed(a)
    BY <1>2
  <2>3. handler[h].values[s] = target[s]
    BY <1>1, <1>4, <2>1, <2>2 DEF OneAsk, InPlace
  <2>4. Completed(a)' = target
    BY <1>4, <1>7, <1>11, <2>2, <2>3, CompletedStays
  <2>5. \A g \in Active : /\ handler[g].request.ask = a
                          /\ handler'[g].request.ask = a
                          /\ handler[g].at # "assign" => DOMAIN handler[g].values = {}
    <3>1. \A g \in Active : handler[g].request.ask = a
      BY <1>1, <2>1, <2>2 DEF OneAsk
    <3>2. \A g \in Active : handler[g].at # "assign" => DOMAIN handler[g].values = {}
      BY <1>1, ActiveIsBusy DEF Busy
    <3>. QED
      BY <1>10, <3>1, <3>2
  <2>6. \A t \in Sections : memory'[t] = IF t = s THEN target[s] ELSE memory[t]
    BY <1>4, <1>7, <1>11, <2>3
  <2>7. ASSUME NEW g \in Active, NEW t \in DOMAIN a
        PROVE  /\ IF t \in DOMAIN handler[g].values THEN handler[g].values[t] = target[t]
                                                   ELSE memory[t] = target[t]
               /\ IF t \in DOMAIN handler'[g].values THEN handler'[g].values[t] = target[t]
                                                    ELSE memory'[t] = target[t]
    <3>1. IF t \in DOMAIN handler[g].values THEN handler[g].values[t] = target[t]
                                           ELSE memory[t] = target[t]
      BY <2>1, <2>2, <2>5 DEF OneAsk, InPlace
    <3>2. t \in Sections
      BY <1>2, <2>2
    <3>3. CASE g = h
      BY <1>8, <1>10, <2>6, <3>1, <3>2, <3>3
    <3>4. CASE g # h
      BY <1>10, <2>6, <3>1, <3>2, <3>4
    <3>. QED
      BY <3>1, <3>3, <3>4
  <2>8. \A g \in Active : InPlace(g)'
    BY <2>4, <2>5, <2>7 DEF InPlace
  <2>9. ASSUME NEW g \in Active, handler[g].at # "assign"
        PROVE  memory' = memory
    <3>1. memory[s] = target[s]
      BY <1>4, <2>2, <2>5, <2>7, <2>9
    <3>. QED
      BY <1>7, <2>3, <3>1 DEF SettingsInv, SettingsTyped, FileOK, Whole, IsMap
  <2>10. OneAsk'
    <3>1. ASSUME NEW g \in Active, NEW t \in DOMAIN handler'[g].text
          PROVE  handler'[g].text[t] = memory'[t]
      <4>1. handler'[g].text = handler[g].text
        BY <1>8, <1>10
      <4>2. handler[g].at # "assign"
        BY <1>1, <3>1, <4>1, ActiveIsBusy DEF Busy
      <4>. QED
        BY <2>1, <2>9, <3>1, <4>1, <4>2 DEF OneAsk
    <3>. QED
      BY <1>10, <2>5, <2>8, <3>1 DEF OneAsk
  <2>11. s \in Unsettled({handler[g].request : g \in Active})
        /\ \A c \in Consoles : s \in doubts[c]
    <3>1. s \in Unsettled({handler[g].request : g \in Active}) /\ s \in Unsettled(UnderWay)
      BY <1>1, <1>4 DEF Unsettled, UnderWay
    <3>. QED
      BY <3>1 DEF SettingsInv, SettingsTyped, DoubtsOK
  <2>12. FileAgrees'
    <3>1. ASSUME NEW g \in Active, handler'[g].at \in {"write", "done"}
          PROVE  file' \in {Emptied, memory'}
      <4>1. g # h /\ handler[g].at \in {"write", "done"}
        BY <1>8, <1>10, <3>1
      <4>2. memory' = memory
        BY <2>9, <4>1
      <4>. QED
        BY <1>7, <2>1, <4>1, <4>2 DEF FileAgrees
    <3>2. \A S : s \in S /\ AgreeBut(S) => AgreeBut(S)'
      BY <1>7, <2>6 DEF AgreeBut
    <3>. QED
      BY <1>7, <1>10, <2>1, <2>11, <3>1, <3>2 DEF FileAgrees
  <2>13. KnownRight'
    BY <1>10, <2>1, <2>6, <2>11 DEF KnownRight
  <2>. QED
    BY <2>10, <2>12, <2>13
<1>. QED
  BY <1>7, <1>10, <1>12, <1>13 DEF SettingsInv, SettingsTyped, Raceless

(* A handler goes on and leaves the settings in use as they are. *)
LEMMA GoingOnKeeps ==
    ASSUME SettingsInv, NEW h \in Active, NEW y, Busy(y), y.request = handler[h].request,
           y.values = handler[h].values,
           handler' = [handler EXCEPT ![h] = y], UNCHANGED consoles,
           UNCHANGED <<up, memory, killed>>,
           file' = Emptied \/ Whole(file'),
           file' = Emptied => \/ y.at = "write"
                              \/ file = Emptied /\ handler[h].at # "write",
           excused' \in BOOLEAN,
           ~ excused' => /\ ~ excused
                         /\ \/ file' \in {Emptied, memory}
                            \/ file' = file /\ y.at = handler[h].at
                         /\ \A s \in DOMAIN y.text : y.text[s] = memory[s]
    PROVE  SettingsInv'
<1>1. /\ HandlersOK' /\ SentOK' /\ DoubtsOK'
      /\ UNCHANGED Active
      /\ handler'[h] = y
      /\ \A g \in Active \ {h} : handler'[g] = handler[g]
      /\ \A g \in Active : handler'[g].request = handler[g].request
      /\ {handler'[g].request : g \in Active'} = {handler[g].request : g \in Active}
      /\ UNCHANGED <<known, doubts, sent, network>>
  BY HandlerGoesOn DEF SettingsInv
<1>2. FileOK'
  <2>1. file' = Emptied => killed' \/ \E g \in Active' : handler'[g].at = "write"
    BY <1>1 DEF SettingsInv, SettingsTyped, FileOK
  <2>2. (killed => ~ up /\ file = Emptied)' /\ (~ up => Active = {})'
    BY <1>1 DEF SettingsInv, SettingsTyped, FileOK
  <2>. QED
    BY <2>1, <2>2 DEF SettingsInv, SettingsTyped, FileOK, Whole
<1>3. ASSUME ~ excused' PROVE OneAsk' /\ FileAgrees' /\ KnownRight'
  <2>1. ~ excused /\ OneAsk /\ FileAgrees /\ KnownRight
    BY <1>3 DEF SettingsInv, Raceless
  <2>2. \A g \in Active : InPlace(g)'
    <3>1. \A ask : Completed(ask)' = Completed(ask)
      BY DEF Completed
    <3>2. \A g \in Active : InPlace(g)
      BY <2>1 DEF OneAsk
    <3>3. \A g \in Active : handler'[g].values = handler[g].values
      BY <1>1
    <3>. QED
      BY <1>1, <3>1, <3>2, <3>3 DEF InPlace
  <2>3. \A g \in Active : \A s \in DOMAIN handler'[g].text : handler'[g].text[s] = memory[s]
    BY <1>1, <1>3, <2>1 DEF OneAsk
  <2>4. \A g, k \in Active : handler'[g].request.ask = handler'[k].request.ask
    BY <1>1, <2>1 DEF OneAsk
  <2>5. OneAsk'
    BY <1>1, <2>2, <2>3, <2>4 DEF OneAsk
  <2>6. FileAgrees'
    <3>1. CASE file' \in {Emptied, memory}
      BY <3>1 DEF FileAgrees, AgreeBut
    <3>2. CASE file' = file /\ y.at = handler[h].at
      <4>1. \A g \in Active : handler'[g].at = handler[g].at
        BY <1>1, <3>2
      <4>2. \A g \in Active' : handler'[g].at \in {"write", "done"} => file' \in {Emptied, memory'}
        BY <1>1, <2>1, <3>2, <4>1 DEF FileAgrees
      <4>3. \A S : AgreeBut(S) => AgreeBut(S)'
        BY <3>2 DEF AgreeBut
      <4>4. PICK S : S = Unsettled({handler[g].request : g \in Active})
        OBVIOUS
      <4>5. Unsettled({handler'[g].request : g \in Active'}) = S
        BY <1>1, <4>4
      <4>6. file # Emptied => (up => AgreeBut(S)) /\ \A c \in Consoles : AgreeBut(doubts[c])
        BY <2>1, <4>4 DEF FileAgrees
      <4>7. file' # Emptied => /\ up' => AgreeBut(S)'
                               /\ \A c \in Consoles : (AgreeBut(doubts[c]))'
        BY <1>1, <3>2, <4>3, <4>6 DEF AgreeBut
      <4>. QED
        BY <4>2, <4>5, <4>7 DEF FileAgrees, AgreeBut
    <3>. QED
      BY <1>3, <3>1, <3>2
  <2>7. KnownRight'
    BY <1>1, <2>1 DEF KnownRight
  <2>. QED
    BY <2>5, <2>6, <2>7
<1>. QED
  BY <1>1, <1>2, <1>3 DEF SettingsInv, SettingsTyped, Raceless

(* The file is emptied, or the writing fails unseen. *)
LEMMA OpeningKeeps ==
    ASSUME SettingsInv, NEW h \in Handlers, Opens(h)
    PROVE  SettingsInv'
<1>1. HandlersOK /\ h \in Active /\ Busy(handler[h]) /\ handler[h].at = "open"
  BY AtWork DEF Opens, SettingsInv, SettingsTyped
<1>2. PICK b \in {"write", "done"} :
         /\ handler' = [handler EXCEPT ![h].at = b]
         /\ \/ b = "write" /\ file' = Emptied /\ excused' = excused
            \/ b = "done" /\ excused' = TRUE /\ file' = file
  BY DEF Opens
<1>3. PICK y : y = [handler[h] EXCEPT !.at = b]
  OBVIOUS
<1>4. /\ y.at = b /\ y.request = handler[h].request /\ y.values = handler[h].values
      /\ y.text = handler[h].text
      /\ y = [at |-> y.at, request |-> y.request, values |-> y.values, text |-> y.text]
  <2>1. PICK a, r, v, x : handler[h] = [at |-> a, request |-> r, values |-> v, text |-> x]
    BY <1>1 DEF Busy
  <2>2. y = [at |-> b, request |-> r, values |-> v, text |-> x]
    BY <1>3, <2>1
  <2>. QED
    BY <2>1, <2>2
<1>5. Busy(y)
  BY <1>1, <1>4 DEF Busy
<1>6. handler' = [handler EXCEPT ![h] = y]
  BY <1>2, <1>3
<1>7. UNCHANGED consoles /\ UNCHANGED <<up, memory, killed>>
  BY DEF Opens
<1>8. /\ file' = Emptied \/ Whole(file')
      /\ file' = Emptied => \/ y.at = "write"
                            \/ file = Emptied /\ handler[h].at # "write"
      /\ excused' \in BOOLEAN
  BY <1>1, <1>2, <1>4 DEF SettingsInv, SettingsTyped, FileOK, Whole
<1>9. DOMAIN y.text = {}
  BY <1>1, <1>4 DEF Busy
<1>10. ~ excused' => ~ excused /\ file' \in {Emptied, memory}
  BY <1>2
<1>11. \A s \in DOMAIN y.text : y.text[s] = memory[s]
  BY <1>9
<1>. QED
  BY <1>1, <1>4, <1>5, <1>6, <1>7, <1>8, <1>10, <1>11, GoingOnKeeps

(* The next section is read, as it is used now. *)
LEMMA ReadingKeeps ==
    ASSUME SettingsInv, NEW h \in Handlers, Reads(h)
    PROVE  SettingsInv'
<1>1. HandlersOK /\ h \in Active /\ Busy(handler[h]) /\ handler[h].at = "write"
  BY AtWork DEF Reads, SettingsInv, SettingsTyped
<1>2. PICK a, r, v, x : handler[h] = [at |-> a, request |-> r, values |-> v, text |-> x]
  BY <1>1 DEF Busy
<1>3. /\ a = "write" /\ handler[h].request = r /\ handler[h].values = v /\ handler[h].text = x
      /\ IsMap(x) /\ DOMAIN x \subseteq Sections /\ DOMAIN x # Sections
      /\ \A t \in DOMAIN x : Good(t, x[t])
  BY <1>1, <1>2 DEF Busy, Reads
<1>4. PICK s : s = NextOf(WriteOrder, DOMAIN x, Sections)
  OBVIOUS
<1>5. s \in Sections /\ s \notin DOMAIN x
  BY <1>3, <1>4, NextOfIs
<1>6. Good(s, memory[s]) /\ toJson(s, memory[s]) = memory[s]
  BY <1>5, GoodText DEF SettingsInv, SettingsTyped, FileOK, Whole
<1>7. PICK z : z = Over([t \in {s} |-> toJson(t, memory[t])], x)
  OBVIOUS
<1>8. /\ IsMap(z) /\ DOMAIN z = DOMAIN x \cup {s}
      /\ z[s] = memory[s]
      /\ \A t \in DOMAIN x : z[t] = x[t]
  BY <1>5, <1>6, <1>7 DEF IsMap, Over
<1>9. PICK y : y = [at |-> "write", request |-> r, values |-> v, text |-> z]
  OBVIOUS
<1>10. /\ y.at = "write" /\ y.request = r /\ y.values = v /\ y.text = z
       /\ y = [at |-> y.at, request |-> y.request, values |-> y.values, text |-> y.text]
  BY <1>9
<1>11. Busy(y)
  BY <1>1, <1>3, <1>5, <1>6, <1>8, <1>10 DEF Busy
<1>12. handler' = [handler EXCEPT ![h] = y]
  <2>1. handler' = [handler EXCEPT ![h].text = z]
    BY <1>3, <1>4, <1>6, <1>7 DEF Reads
  <2>2. [handler[h] EXCEPT !.text = z] = y
    BY <1>2, <1>3, <1>9
  <2>. QED
    BY <2>1, <2>2
<1>13. UNCHANGED consoles /\ UNCHANGED <<up, memory, file, killed, excused>>
  BY DEF Reads
<1>14. /\ file' = Emptied \/ Whole(file')
       /\ excused' \in BOOLEAN
  BY <1>13 DEF SettingsInv, SettingsTyped, FileOK, Whole
<1>15. ASSUME ~ excused, NEW t \in DOMAIN z PROVE z[t] = memory[t]
  BY <1>1, <1>3, <1>8, <1>15 DEF SettingsInv, Raceless, OneAsk
<1>. QED
  BY <1>1, <1>3, <1>10, <1>11, <1>12, <1>13, <1>14, <1>15, GoingOnKeeps

(* The file has all sections again. *)
LEMMA WritingKeeps ==
    ASSUME SettingsInv, NEW h \in Handlers, Writes(h)
    PROVE  SettingsInv'
<1>1. HandlersOK /\ h \in Active /\ Busy(handler[h]) /\ handler[h].at = "write"
  BY AtWork DEF Writes, SettingsInv, SettingsTyped
<1>2. PICK y : y = [handler[h] EXCEPT !.at = "done"]
  OBVIOUS
<1>3. /\ y.at = "done" /\ y.request = handler[h].request /\ y.values = handler[h].values
      /\ y.text = handler[h].text
      /\ y = [at |-> y.at, request |-> y.request, values |-> y.values, text |-> y.text]
  <2>1. PICK a, r, v, x : handler[h] = [at |-> a, request |-> r, values |-> v, text |-> x]
    BY <1>1 DEF Busy
  <2>2. y = [at |-> "done", request |-> r, values |-> v, text |-> x]
    BY <1>2, <2>1
  <2>. QED
    BY <2>1, <2>2
<1>4. Busy(y)
  BY <1>1, <1>3 DEF Busy
<1>5. handler' = [handler EXCEPT ![h] = y]
  BY <1>2 DEF Writes
<1>6. UNCHANGED consoles /\ UNCHANGED <<up, memory, killed, excused>> /\ file' = handler[h].text
  BY DEF Writes
<1>7. Whole(file')
  BY <1>1, <1>6 DEF Writes, Busy, Whole, IsMap
<1>8. file' # Emptied
  BY <1>7 DEF Whole, Emptied, Sections
<1>9. ASSUME ~ excused
      PROVE  file' = memory /\ \A s \in DOMAIN y.text : y.text[s] = memory[s]
  <2>1. \A s \in DOMAIN y.text : y.text[s] = memory[s]
    BY <1>1, <1>3, <1>9 DEF SettingsInv, Raceless, OneAsk
  <2>2. Whole(memory)
    BY DEF SettingsInv, SettingsTyped, FileOK
  <2>3. \A s \in Sections : file'[s] = memory[s]
    BY <1>3, <1>6, <1>7, <2>1 DEF Whole
  <2>. QED
    BY <1>7, <2>1, <2>2, <2>3 DEF Whole, IsMap
<1>10. excused' \in BOOLEAN
  BY <1>6 DEF SettingsInv, SettingsTyped, FileOK
<1>. QED
  BY <1>1, <1>3, <1>4, <1>5, <1>6, <1>7, <1>8, <1>9, <1>10, GoingOnKeeps

(* The console is told: it was the last to doubt the settings it gets. *)
LEMMA ReturningKeeps ==
    ASSUME SettingsInv, NEW h \in Handlers, Returns(h)
    PROVE  SettingsInv'
<1>1. HandlersOK /\ h \in Active /\ Busy(handler[h]) /\ handler[h].at = "done"
  BY AtWork DEF Returns, SettingsInv, SettingsTyped
<1>2. PICK r \in Messages : r = handler[h].request
  BY <1>1 DEF Busy
<1>3. r.from \in Consoles /\ r.ask \in Asks /\ DOMAIN r.ask \subseteq Sections
  BY <1>2, AskIs DEF Messages
<1>4. PICK c \in Consoles : c = r.from
  BY <1>3
<1>5. /\ HandlersOK'
      /\ \A g \in Handlers \ {h} : handler'[g] = handler[g]
      /\ Active' = Active \ {h}
  BY <1>1, HandlerChanges DEF Returns
<1>6. \A g \in Active' : g \in Active /\ handler'[g] = handler[g]
  BY <1>5 DEF Active
<1>7. UNCHANGED <<up, memory, file, killed, network, excused>>
  BY DEF Returns
<1>8. PICK rest : rest = Unsettled(UnderWay')
  OBVIOUS
<1>9. rest \subseteq Unsettled(UnderWay)
  <2>1. UnderWay' \subseteq UnderWay
    BY <1>6, <1>7 DEF UnderWay
  <2>. QED
    BY <1>8, <2>1 DEF Unsettled
<1>10. \/ /\ Waits(r)
          /\ sent' = [sent EXCEPT ![c].status = "none"]
          /\ known' = [known EXCEPT ![c] = Over(r.ask, known[c])]
          /\ doubts' = [doubts EXCEPT ![c] = (doubts[c] \ DOMAIN r.ask) \cup rest]
       \/ UNCHANGED <<sent, known, doubts>>
  <2>1. Told(r, network \cup {handler[g].request : g \in Active \ {h}})
    BY <1>2 DEF Returns
  <2>2. network \cup {handler[g].request : g \in Active \ {h}} = UnderWay'
    BY <1>5, <1>6, <1>7 DEF UnderWay
  <2>. QED
    BY <1>4, <1>8, <2>1, <2>2 DEF Told
<1>11. SentOK'
  <2>1. CASE UNCHANGED <<sent, known, doubts>>
    BY <1>7, <2>1 DEF SettingsInv, SettingsTyped, SentOK, IsMap
  <2>2. CASE /\ Waits(r)
             /\ sent' = [sent EXCEPT ![c].status = "none"]
             /\ known' = [known EXCEPT ![c] = Over(r.ask, known[c])]
             /\ doubts' = [doubts EXCEPT ![c] = (doubts[c] \ DOMAIN r.ask) \cup rest]
    <3>1. sent[c].status # "none"
      BY <1>4, <2>2 DEF Waits
    <3>2. /\ sent' \in [Consoles -> [status : {"none", "waiting", "refused"},
                                      ask : Asks \cup {<<>>}, try : Nat, left : Int]]
          /\ \A d \in Consoles : sent'[d].status # "none" => sent'[d].ask \in Asks
      BY <2>2, <3>1, StatusChanges DEF SettingsInv, SettingsTyped
    <3>3. DOMAIN known' = Consoles /\ IsMap(known') /\ DOMAIN doubts' = Consoles /\ IsMap(doubts')
      BY <2>2 DEF SettingsInv, SettingsTyped, SentOK, IsMap
    <3>. QED
      BY <1>7, <3>2, <3>3 DEF SettingsInv, SettingsTyped, SentOK
  <2>. QED
    BY <1>10, <2>1, <2>2
<1>12. \/ \A d \in Consoles : known'[d] = known[d] /\ doubts'[d] = doubts[d]
       \/ \A d \in Consoles :
             /\ known'[d] = IF d = c THEN Over(r.ask, known[c]) ELSE known[d]
             /\ doubts'[d] = IF d = c THEN (doubts[c] \ DOMAIN r.ask) \cup rest ELSE doubts[d]
  BY <1>10 DEF SettingsInv, SettingsTyped, SentOK
<1>13. DoubtsOK'
  <2>1. \A d \in Consoles : rest \subseteq doubts[d]
    BY <1>9 DEF SettingsInv, SettingsTyped, DoubtsOK
  <2>2. \A d \in Consoles : rest \subseteq doubts'[d]
    BY <1>12, <2>1
  <2>. QED
    BY <1>8, <2>2 DEF DoubtsOK
<1>14. FileOK'
  <2>1. up
    BY <1>1 DEF SettingsInv, SettingsTyped, FileOK
  <2>2. \A g \in Active : handler[g].at = "write" => g \in Active' /\ handler'[g].at = "write"
    BY <1>1, <1>5, <1>6
  <2>. QED
    BY <1>7, <2>1, <2>2 DEF SettingsInv, SettingsTyped, FileOK
<1>15. ASSUME ~ excused PROVE OneAsk' /\ FileAgrees' /\ KnownRight'
  <2>1. OneAsk /\ FileAgrees /\ KnownRight
    BY <1>15 DEF SettingsInv, Raceless
  <2>2. OneAsk'
    <3>1. \A ask : Completed(ask)' = Completed(ask)
      BY <1>7 DEF Completed
    <3>2. \A g \in Active' : InPlace(g)'
      BY <1>6, <1>7, <2>1, <3>1 DEF InPlace, OneAsk
    <3>. QED
      BY <1>6, <1>7, <2>1, <3>2 DEF OneAsk
  <2>3. FileAgrees'
    <3>1. file \in {Emptied, memory}
      BY <1>1, <2>1 DEF FileAgrees
    <3>. QED
      BY <1>7, <3>1 DEF FileAgrees, AgreeBut
  <2>4. \A s \in DOMAIN r.ask : Shown(s, r.ask[s]) = Shown(s, memory[s])
    <3>1. DOMAIN handler[h].values = {}
      BY <1>1 DEF Busy
    <3>2. \A s \in DOMAIN r.ask : memory[s] = Completed(r.ask)[s]
      BY <1>1, <1>2, <2>1, <3>1 DEF OneAsk, InPlace
    <3>. QED
      BY <1>3, <3>2, CompletedIs
  <2>5. ASSUME NEW d \in Consoles, NEW s \in DOMAIN known'[d] \ doubts'[d]
        PROVE  s \in Sections /\ Shown(s, known'[d][s]) = Shown(s, memory[s])
    <3>1. CASE known'[d] = known[d] /\ doubts'[d] = doubts[d]
      BY <2>1, <2>5, <3>1 DEF KnownRight
    <3>2. CASE /\ d = c
               /\ known'[d] = Over(r.ask, known[c])
               /\ doubts'[d] = (doubts[c] \ DOMAIN r.ask) \cup rest
      <4>1. /\ s \in DOMAIN r.ask \/ s \in DOMAIN known[c]
            /\ known'[d][s] = IF s \in DOMAIN r.ask THEN r.ask[s] ELSE known[c][s]
        BY <2>5, <3>2 DEF Over
      <4>2. CASE s \in DOMAIN r.ask
        BY <1>3, <2>4, <4>1, <4>2
      <4>3. CASE s \notin DOMAIN r.ask
        BY <2>1, <2>5, <3>2, <4>1, <4>3 DEF KnownRight
      <4>. QED
        BY <4>2, <4>3
    <3>. QED
      BY <1>12, <3>1, <3>2
  <2>6. KnownRight'
    BY <1>7, <2>5 DEF KnownRight
  <2>. QED
    BY <2>2, <2>3, <2>6
<1>. QED
  BY <1>5, <1>7, <1>11, <1>13, <1>14, <1>15 DEF SettingsInv, SettingsTyped, Raceless
-----------------------------------------------------------------------------
(* The process. *)

(* What was being changed is doubted, whatever was in place of it. *)
LEMMA KillingKeeps ==
    ASSUME SettingsInv, Killed
    PROVE  SettingsInv'
<1>1. /\ up' = FALSE /\ killed' = (file = Emptied) /\ network' = {}
      /\ handler' = [h \in Handlers |-> Idle]
      /\ UNCHANGED <<memory, file, known, sent, doubts, excused>>
  BY DEF Killed
<1>2. Active' = {} /\ HandlersOK'
  BY <1>1 DEF Active, HandlersOK, IsMap
<1>3. SentOK'
  BY <1>1 DEF SettingsInv, SettingsTyped, SentOK, IsMap
<1>4. DoubtsOK'
  <2>1. UnderWay' = {}
    BY <1>1, <1>2 DEF UnderWay
  <2>. QED
    BY <2>1 DEF DoubtsOK, Unsettled
<1>5. FileOK'
  BY <1>1, <1>2 DEF SettingsInv, SettingsTyped, FileOK, Whole
<1>6. FileAgrees => FileAgrees'
  BY <1>1, <1>2 DEF FileAgrees, AgreeBut
<1>7. KnownRight => KnownRight'
  BY <1>1 DEF KnownRight
<1>8. OneAsk'
  BY <1>2 DEF OneAsk
<1>. QED
  BY <1>1, <1>2, <1>3, <1>4, <1>5, <1>6, <1>7, <1>8 DEF SettingsInv, SettingsTyped, Raceless

(* The server starts from the file. *)
LEMMA StartingKeeps ==
    ASSUME SettingsInv, g_read_config
    PROVE  SettingsInv'
<1>1. /\ ~ up /\ DOMAIN file = Sections
      /\ up' = TRUE /\ memory' = file
      /\ UNCHANGED <<file, handler, killed, known, sent, network, doubts, excused>>
  BY DEF g_read_config, consoles
<1>2. file # Emptied /\ Whole(file) /\ ~ killed
  BY <1>1 DEF SettingsInv, SettingsTyped, FileOK, Emptied, Sections
<1>3. Active = {} /\ Active' = {} /\ UNCHANGED UnderWay
  BY <1>1 DEF SettingsInv, SettingsTyped, FileOK, Active, UnderWay
<1>4. HandlersOK' /\ SentOK' /\ DoubtsOK'
  BY <1>1, <1>3 DEF SettingsInv, SettingsTyped, HandlersOK, SentOK, DoubtsOK, IsMap, Unsettled
<1>5. FileOK'
  BY <1>1, <1>2, <1>3 DEF SettingsInv, SettingsTyped, FileOK, Whole
<1>6. OneAsk'
  BY <1>3 DEF OneAsk
<1>7. FileAgrees'
  BY <1>1, <1>3 DEF FileAgrees, AgreeBut
<1>8. ASSUME FileAgrees, KnownRight
      PROVE  KnownRight'
  <2>1. \A c \in Consoles : \A s \in Sections \ doubts[c] : file[s] = memory[s]
    BY <1>2, <1>8 DEF FileAgrees, AgreeBut
  <2>. QED
    BY <1>1, <1>8, <2>1 DEF KnownRight
<1>. QED
  BY <1>1, <1>4, <1>5, <1>6, <1>7, <1>8 DEF SettingsInv, SettingsTyped, Raceless
-----------------------------------------------------------------------------
LEMMA ElsewhereKeeps ==
    ASSUME SettingsInv, UNCHANGED <<server, consoles, excused>>
    PROVE  SettingsInv'
<1>1. UNCHANGED <<handler, known, sent, network, doubts>>
  BY DEF server, consoles
<1>2. SentOK' /\ DoubtsOK'
  <2>1. UNCHANGED UnderWay
    BY <1>1 DEF UnderWay, Active
  <2>. QED
    BY <1>1, <2>1 DEF SettingsInv, SettingsTyped, SentOK, DoubtsOK, IsMap, Unsettled
<1>. QED
  BY <1>1, <1>2, DoubtingKeeps

LEMMA SettingsStepKeeps ==
    ASSUME SettingsInv, [Next]_vars
    PROVE  SettingsInv'
<1>1. ASSUME NEW c \in Consoles, getAllConfig(c)
      PROVE  SettingsInv'
  BY <1>1, ConnectingKeeps
<1>2. ASSUME NEW c \in Consoles, NEW form \in Forms, onSetConfig(c, form)
      PROVE  SettingsInv'
  <2>1. Written(form) \in Asks /\ Tries - 1 \in Int
    BY SettingsAssumption DEF Asks
  <2>. QED
    BY <1>2, <2>1, SendingKeeps DEF onSetConfig, api_set_advance_config
<1>3. ASSUME NEW c \in Consoles, TriesAgain(c)
      PROVE  SettingsInv'
  <2>1. sent[c].status # "none" /\ UNCHANGED <<server, known, excused>>
    BY <1>3 DEF TriesAgain
  <2>2. CASE Sends(c, sent[c].ask, sent[c].left - 1)
    <3>1. sent[c].ask \in Asks /\ sent[c].left - 1 \in Int
      BY <2>1 DEF SettingsInv, SettingsTyped, SentOK
    <3>. QED
      BY <2>1, <2>2, <3>1, SendingKeeps
  <2>3. CASE sent' = [sent EXCEPT ![c].status = "none"] /\ UNCHANGED <<network, doubts>>
    BY <2>1, <2>3, GivingUpKeeps
  <2>. QED
    BY <1>3, <2>2, <2>3 DEF TriesAgain
<1>4. ASSUME NEW h \in Handlers, NEW r \in network, config_set(h, r)
      PROVE  SettingsInv'
  <2>1. CASE Accepts(r.ask)
    BY <1>4, <2>1, AcceptingKeeps
  <2>2. CASE ~ Accepts(r.ask)
    <3>1. r.from \in Consoles
      BY DEF SettingsInv, SettingsTyped, SentOK, Messages
    <3>2. /\ UNCHANGED <<server, known, doubts, excused>> /\ network' \subseteq network
          /\ Refused(r)
      BY <1>4, <2>2 DEF config_set, server
    <3>3. sent' = sent \/ (sent[r.from].status # "none"
                             /\ sent' = [sent EXCEPT ![r.from].status = "refused"])
      BY <3>2 DEF Refused, Waits
    <3>. QED
      BY <3>1, <3>2, <3>3, GivingUpKeeps
  <2>. QED
    BY <2>1, <2>2
<1>5. ASSUME NEW h \in Handlers, Assigns(h) \/ Opens(h) \/ Reads(h) \/ Writes(h) \/ Returns(h)
      PROVE  SettingsInv'
  BY <1>5, AssigningKeeps, OpeningKeeps, ReadingKeeps, WritingKeeps, ReturningKeeps
<1>6. CASE Killed
  BY <1>6, KillingKeeps
<1>7. CASE g_read_config
  BY <1>7, StartingKeeps
<1>8. ASSUME NEW w \in Workers,
             connectToServer(w) \/ task_get(w) \/ Heard(w) \/ LosesAnswer(w)
      PROVE  SettingsInv'
  BY <1>8, ElsewhereKeeps DEF connectToServer, task_get, Heard, LosesAnswer
<1>9. CASE UNCHANGED vars
  BY <1>9, ElsewhereKeeps DEF vars
<1>. QED
  BY <1>1, <1>2, <1>3, <1>4, <1>5, <1>6, <1>7, <1>8, <1>9 DEF Next

LEMMA SettingsInvHolds == Spec => []SettingsInv
<1>1. Init => SettingsInv
  BY InitSettings
<1>2. SettingsInv /\ [Next]_vars => SettingsInv'
  BY SettingsStepKeeps
<1>. QED
  BY <1>1, <1>2, PTL DEF Spec

(* The next start accepts what is in config.json, unless the server was killed *)
(* while it wrote it, and finds there the settings that were in use, once the   *)
(* handlers are done that did not race and could open the file.              *)
THEOREM FileStaysSound == Spec => []FileIsSound
<1>1. ASSUME SettingsInv PROVE FileIsSound
  <2>1. FileOK
    BY <1>1 DEF SettingsInv, SettingsTyped
  <2>2. file # Emptied => Accepted(file)
    BY <2>1 DEF FileOK, Whole, Good, Accepted
  <2>3. ASSUME up, Active = {}, ~ excused PROVE file = memory
    <3>1. Whole(memory) /\ Whole(file) /\ file # Emptied
      BY <2>1, <2>3 DEF FileOK
    <3>2. Unsettled({handler[h].request : h \in Active}) = {}
      BY <2>3, UnsettledIs
    <3>3. \A s \in Sections : file[s] = memory[s]
      BY <1>1, <2>3, <3>1, <3>2 DEF SettingsInv, Raceless, FileAgrees, AgreeBut
    <3>. QED
      BY <3>1, <3>3 DEF Whole, IsMap
  <2>. QED
    BY <2>1, <2>2, <2>3 DEF FileIsSound, FileOK
<1>. QED
  BY <1>1, SettingsInvHolds, PTL

(* What a console shows is what the server uses, whatever else is asked for,    *)
(* repeated, lost or killed, but for the sections that somebody asked to change *)
(* since, without that console being told.                                  *)
THEOREM ConsolesShowTheTruth == Spec => []ConsolesAreRight
<1>1. SettingsInv => ConsolesAreRight
  BY DEF SettingsInv, Raceless, KnownRight, ConsolesAreRight
<1>. QED
  BY <1>1, SettingsInvHolds, PTL
=============================================================================
