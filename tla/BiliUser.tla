------------------------------- MODULE BiliUser -------------------------------
(***************************************************************************)
(* What a crawling thread makes of the site's answer when it asked for a    *)
(* user.  An answer is abstracted to what is looked at: whether the request  *)
(* succeeded with status 200, whether the body has at least 10 bytes and is  *)
(* JSON, its code, and which of the members that are looked for are missing  *)
(* or null.  What is copied from it into the user's record is left out.      *)
(***************************************************************************)
EXTENDS Integers, FiniteSets

CONSTANT bili_api_type      \* 0: the site's web interface, else that of its app

Members(parent, keys) == {<<parent, key>> : key \in keys}
checkNull(answer, members) == answer.nulls \cap members # {}

WebMembers ==
    Members("answer", {"data"})
      \cup Members("data", {"mid", "name", "sex", "face", "sign", "level", "official", "vip"})
      \cup Members("official", {"type", "desc", "role", "title"})
      \cup Members("vip", {"type", "status", "label"})
      \cup Members("label", {"text"})

AppMembers ==
    Members("answer", {"data"})
      \cup Members("data", {"card"})
      \cup Members("card", {"mid", "name", "sex", "face", "sign", "attention", "fans",
                            "level_info", "official_verify", "vip", "is_deleted"})
      \cup Members("level_info", {"current_level"})
      \cup Members("official_verify", {"type", "desc", "role", "title"})
      \cup Members("vip", {"vipType", "vipStatus", "label"})
      \cup Members("label", {"text"})

(* Which of them were looked for depends on the interface; that of a live   *)
(* room, only if there is one.                                             *)
Live == IF bili_api_type = 0 THEN "live_room" ELSE "live"
RoomMembers(answer) ==
    IF checkNull(answer, Members("data", {Live})) THEN {} ELSE Members(Live, {"roomid"})

(* A status other than 200 is no error if there is something to read.      *)
Received(answer) == answer.ok \/ answer.long

CodeVerdict(code) ==
    CASE code = -412           -> "RET_RISK_CONTROL"
      [] code \in {-404, -400} -> "RET_NOT_FOUND"
      [] OTHER                 -> "RET_ERROR"

Verdict(answer, members) ==
    CASE ~ (Received(answer) /\ answer.json)                -> "RET_ERROR"
      [] checkNull(answer, Members("answer", {"code", "message"})) -> "RET_CRITICAL"
      [] answer.code # 0                                    -> CodeVerdict(answer.code)
      [] checkNull(answer, members \cup RoomMembers(answer)) -> "RET_CRITICAL"
      [] OTHER                                              -> "RET_NO_ERORR"

getUserInfo_Web(answer) == Verdict(answer, WebMembers)
getUserInfo_App(answer) == Verdict(answer, AppMembers)

getUserInfo(answer) ==
    IF bili_api_type = 0 THEN getUserInfo_Web(answer) ELSE getUserInfo_App(answer)

(* Every answer with at most one of the members missing.                   *)
Answers ==
    LET all == WebMembers \cup AppMembers \cup Members("answer", {"code", "message"})
                 \cup Members("data", {Live}) \cup Members(Live, {"roomid"})
    IN [ok : BOOLEAN, long : BOOLEAN, json : BOOLEAN, code : {0, -412, -404, -400, -1},
        nulls : {{}} \cup {{m} : m \in all}]

(* What may come of a request through a proxy the site has blocked, or not. *)
Outcomes(blocked) ==
    {getUserInfo(a) : a \in {b \in Answers : b.code = -412 => blocked}}
=============================================================================
