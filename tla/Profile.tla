------------------------------ MODULE Profile ------------------------------
(***************************************************************************)
(* Service.UpdateProfile and the avatar of one account: users.avatar_media *)
(* _id in PostgreSQL refers to a file that media-service stores.  The      *)
(* handler reads the row, asks media-service whether the caller owns the   *)
(* new avatar, has the old file deleted there and then writes names and    *)
(* avatar back with one UPDATE; nothing spans these calls.  Names are left *)
(* out: they are always replaced by the request's.                         *)
(***************************************************************************)
EXTENDS Naturals

CONSTANTS
  Media,        \* ids of files the account may upload
  Reqs,         \* PUT /profile requests handled at the same time
  MaxFailures,  \* bound: calls that fail
  NoMedia

ASSUME ProfileAssumption ==
  /\ MaxFailures \in Nat
  /\ NoMedia \notin Media

VARIABLES
  avatar,    \* users.avatar_media_id, NoMedia for NULL
  stored,    \* the account's files media-service has
  uploaded,  \* files uploaded so far
  worn,      \* history: files that have been the avatar
  req,       \* the requests in progress
  failures,  \* failed calls so far
  overlap,   \* history: requests overlap "now", did in the "past" or never ("none")
  calm       \* history: nothing overlapped, failed or was cut short since the
             \* last change of the avatar that was completed alone

vars == <<avatar, stored, uploaded, worn, req, failures, overlap, calm>>

Ids  == Media \cup {NoMedia}
Idle == [pc |-> "idle", old |-> NoMedia, new |-> NoMedia]

Init ==
  /\ avatar = NoMedia
  /\ stored = {} /\ uploaded = {} /\ worn = {}
  /\ req = [p \in Reqs |-> Idle]
  /\ failures = 0 /\ overlap = "none" /\ calm = TRUE

At(p, l)   == req[p].pc = l
Goto(p, l) == req' = [req EXCEPT ![p].pc = l]
Return(p)  == req' = [req EXCEPT ![p] = Idle]
Quiet == \A p \in Reqs : At(p, "idle")

Load(p, l, new) ==
  /\ At(p, "idle")
  /\ req' = [req EXCEPT ![p] = [pc |-> l, old |-> avatar, new |-> new]]
  /\ overlap' = IF ~Quiet THEN "now" ELSE IF overlap = "none" THEN "none" ELSE "past"
  /\ calm' = (calm /\ Quiet)
  /\ UNCHANGED <<avatar, stored, uploaded, worn, failures>>

-----------------------------------------------------------------------------
(* The read of the row, by what the request says of the avatar: nothing, an *)
(* empty string, or a media id.                                             *)
KeepAvatar(p) == Load(p, "update", avatar)

(* Fault: an empty string is taken for a media id.                          *)
RemoveTakenForId(p) == Load(p, "verify", "")

RemoveAvatar(p) == Load(p, IF avatar = NoMedia THEN "update" ELSE "delete", NoMedia)

ReplaceAvatar(p, m) == Load(p, "verify", m)

(* Fault: the ownership of the new avatar is not checked.                   *)
VerifyNothing(p) ==
  LET r == req[p] IN
  /\ At(p, "verify")
  /\ IF r.old \in {NoMedia, r.new} THEN Goto(p, "update") ELSE Goto(p, "delete")
  /\ UNCHANGED <<avatar, stored, uploaded, worn, failures, overlap, calm>>

(* media-service leaves out of its answer a file it does not have.          *)
VerifyOwnership(p) ==
  LET r == req[p] IN
  /\ At(p, "verify")
  /\ \/ r.new \notin stored /\ Return(p)
     \/ r.new \in stored /\ r.old \in {NoMedia, r.new} /\ Goto(p, "update")
     \/ r.new \in stored /\ r.old \notin {NoMedia, r.new} /\ Goto(p, "delete")
  /\ UNCHANGED <<avatar, stored, uploaded, worn, failures, overlap, calm>>

(* Fault: the new file is deleted instead of the old one.                   *)
DeleteNew(p) ==
  /\ At(p, "delete")
  /\ stored' = stored \ {req[p].new}
  /\ Goto(p, "update")
  /\ UNCHANGED <<avatar, uploaded, worn, failures, overlap, calm>>

DeleteByIDs(p) ==
  /\ At(p, "delete")
  /\ stored' = stored \ {req[p].old}
  /\ Goto(p, "update")
  /\ UNCHANGED <<avatar, uploaded, worn, failures, overlap, calm>>

(* Fault: the row is updated although the old file was not deleted.         *)
DeleteFailsIgnored(p) ==
  /\ At(p, "delete")
  /\ failures < MaxFailures
  /\ failures' = failures + 1 /\ calm' = FALSE
  /\ stored' \in {stored, stored \ {req[p].old}}
  /\ Goto(p, "update")
  /\ UNCHANGED <<avatar, uploaded, worn, overlap>>

(* The call fails or times out; the file may be gone all the same.          *)
DeleteFails(p) ==
  /\ At(p, "delete")
  /\ failures < MaxFailures
  /\ failures' = failures + 1 /\ calm' = FALSE
  /\ stored' \in {stored, stored \ {req[p].old}}
  /\ Return(p)
  /\ UNCHANGED <<avatar, uploaded, worn, overlap>>

(* users.Update.  A request that changed the avatar with no other one at    *)
(* work starts a new calm.                                                  *)
UpdateUser(p) ==
  /\ At(p, "update")
  /\ avatar' = req[p].new
  /\ worn' = worn \cup ({req[p].new} \ {NoMedia})
  /\ calm' = (calm \/ (overlap # "now" /\ req[p].new # req[p].old))
  /\ Return(p)
  /\ UNCHANGED <<stored, uploaded, failures, overlap>>

(* Any other call fails or the server stops; nothing was changed before the *)
(* ownership is verified.                                                   *)
Fail(p) ==
  /\ At(p, "verify") \/ At(p, "update")
  /\ failures < MaxFailures
  /\ failures' = failures + 1 /\ calm' = (calm /\ At(p, "verify"))
  /\ Return(p)
  /\ UNCHANGED <<avatar, stored, uploaded, worn, overlap>>

(* media-service: the client uploads a file.                                *)
Upload(m) ==
  /\ m \notin uploaded
  /\ uploaded' = uploaded \cup {m}
  /\ stored' = stored \cup {m}
  /\ UNCHANGED <<avatar, worn, req, failures, overlap, calm>>

Next ==
  \/ \E m \in Media : Upload(m) \/ \E p \in Reqs : ReplaceAvatar(p, m)
  \/ \E p \in Reqs : \/ KeepAvatar(p) \/ RemoveAvatar(p) \/ VerifyOwnership(p)
                     \/ DeleteByIDs(p) \/ DeleteFails(p) \/ UpdateUser(p) \/ Fail(p)

Spec == Init /\ [][Next]_vars

-----------------------------------------------------------------------------
(* The shape of the state.                                                  *)
TypeOK ==
  /\ avatar \in Ids
  /\ stored \subseteq Media /\ uploaded \subseteq Media /\ worn \subseteq Media
  /\ req \in [Reqs -> [pc : {"idle", "verify", "delete", "update"}, old : Ids, new : Ids]]
  /\ failures \in 0..MaxFailures
  /\ overlap \in {"none", "past", "now"} /\ calm \in BOOLEAN

(* UpdateProfile fails so that "the operation can be retried without        *)
(* leaving the database in an inconsistent state": whatever overlapping,    *)
(* failing and interrupted requests left behind, once a request that        *)
(* changes the avatar has run alone to its end, the avatar shown between    *)
(* requests is a file that media-service has, until requests overlap again  *)
(* or one is lost between the deletion and the update.                      *)
AvatarIsStored == calm /\ Quiet => avatar \in stored \cup {NoMedia}

(* "downstream media cleanup is performed before updating the local user    *)
(* row": as long as requests do not overlap, and wherever they fail or are  *)
(* cut short, no file that was the avatar is left behind by a replacement,  *)
(* a removal or their retry.                                                *)
NoOrphanedAvatar == overlap = "none" => worn \cap stored \subseteq {avatar}

(* However requests overlap and fail, UpdateProfile destroys no file that   *)
(* was not the avatar at some time, and shows none the account never had.   *)
OnlyAvatarsAreDeleted ==
  uploaded \ stored \subseteq worn /\ worn \subseteq uploaded
=============================================================================
