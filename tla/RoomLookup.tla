------------------------------ MODULE RoomLookup ------------------------------
(***************************************************************************)
(* What the HTTP calls about a room make of the reply they get:            *)
(* CheckOnline, which Connect begins with, FetchRoomInfo and               *)
(* FetchRoomAudience.  Each sends one request, the last one sometimes two, *)
(* and keeps nothing; what matters is which error a caller is told, and so *)
(* the order in which the code looks at a reply.                           *)
(*                                                                         *)
(* http is "none" when there is no response at all, and body "cut" when it *)
(* breaks off, "page" when it is not the JSON that is expected.  A status  *)
(* code may be missing from the JSON: "none".                              *)
(***************************************************************************)

BodyKinds == {"cut", "page", "json"}

Said(r) == r.http = "answered" /\ r.body = "json"

(* encoding/json leaves the zero of Go where there is no status code.      *)
CodeIsZero(r) == r.statusCode \in {"none", "zero"}

(* Status 403 and 429 block; no other status of HTTP is looked at.  A room *)
(* may be missing, "0", or an id, told apart as a session will (WssSession *)
(* has the kinds).                                                         *)
RoomReplies ==
    [http : {"none", "blocked", "answered"}, body : BodyKinds,
     statusCode : {"none", "zero", "noUser", "other"},
     roomId : {"", "0", "signed", "unsigned", "invalid"},
     liveRoomLive : BOOLEAN, userLive : BOOLEAN]

IsLive(r) == r.roomId \notin {"", "0"} /\ (r.liveRoomLive \/ r.userLive)

(* A page in place of JSON counts as a block.                              *)
CheckOnline(r) ==
    CASE r.http = "blocked" \/ (r.http = "answered" /\ r.body = "page")
                                              -> "TikTokBlocked"
      [] Said(r) /\ r.statusCode = "noUser"   -> "UserNotFound"
      [] Said(r) /\ r.statusCode = "other"    -> "TikTokAPI"
      [] Said(r) /\ CodeIsZero(r) /\ ~IsLive(r) -> "HostNotOnline"
      [] Said(r) /\ CodeIsZero(r) /\ IsLive(r)  -> "Online"
      [] OTHER                                -> "Failed"

(* FetchRoomInfo and FetchRoomAudience look at no HTTP status.             *)
InfoReplies ==
    [http : {"none", "answered"}, body : BodyKinds,
     statusCode : {"none", "zero", "adults", "other"}, owner : {"", "id"}]

FetchRoomInfo(r) ==
    CASE Said(r) /\ CodeIsZero(r)           -> "RoomInfo"
      [] Said(r) /\ r.statusCode = "adults" -> "AgeRestricted"
      [] OTHER                              -> "Failed"

(* The anchor is the owner in the room info.                               *)
ResolveAnchorID(info) ==
    IF FetchRoomInfo(info) = "RoomInfo"
    THEN IF info.owner = "id" THEN "Resolved" ELSE "Failed"
    ELSE FetchRoomInfo(info)

(* Here an empty body and a missing status code are errors.                *)
AudienceReplies ==
    [http : {"none", "answered"}, body : BodyKinds,
     statusCode : {"none", "zero", "noSession", "other"}, data : BOOLEAN]

ParseRoomAudience(r) ==
    CASE Said(r) /\ r.statusCode = "noSession"      -> "SessionRequired"
      [] Said(r) /\ r.statusCode = "zero" /\ r.data -> "RoomAudience"
      [] OTHER                                      -> "Failed"

(* Without an anchor the room info is asked first, and what is wrong with  *)
(* it is what the caller is told.                                          *)
FetchRoomAudience(anchorID, info, r) ==
    IF anchorID = "" /\ ResolveAnchorID(info) # "Resolved"
    THEN ResolveAnchorID(info)
    ELSE ParseRoomAudience(r)

=============================================================================
