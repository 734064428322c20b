--------------------------- MODULE ProfileProofs ---------------------------
(***************************************************************************)
(* Proofs about Profile for any number of files, overlapping requests and  *)
(* failed calls.                                                           *)
(***************************************************************************)
EXTENDS Profile, TLAPS

(* A file that a request read as the old avatar was an avatar, and one it   *)
(* is about to store was checked or read: that is why neither a stale copy  *)
(* nor a deletion that comes late touches any other file.                   *)
RequestsSound ==
  \A p \in Reqs :
    /\ req[p].old \in worn \cup {NoMedia}
    /\ At(p, "delete") \/ At(p, "update") => req[p].new \in uploaded \cup {NoMedia}

RowSound ==
  avatar \in worn \cup {NoMedia} /\ stored \subseteq uploaded

IInv == TypeOK /\ RowSound /\ RequestsSound /\ OnlyAvatarsAreDeleted

(* The three ways a request begins.                                         *)
LEMMA LoadStep ==
  ASSUME IInv, NEW p \in Reqs, NEW l \in {"verify", "delete", "update"},
         NEW new \in Ids, Load(p, l, new),
         l = "verify" \/ new \in uploaded \cup {NoMedia}
  PROVE  IInv'
<1> USE DEF IInv, Ids
<1>0. overlap' \in {"none", "past", "now"} /\ calm' \in BOOLEAN
  BY DEF TypeOK, Load
<1>1. TypeOK'
  BY <1>0 DEF TypeOK, Load
<1>2. RowSound' /\ OnlyAvatarsAreDeleted'
  BY DEF Load, RowSound, OnlyAvatarsAreDeleted
<1>3. RequestsSound'
  BY DEF Load, RowSound, RequestsSound, TypeOK, At
<1> QED BY <1>1, <1>2, <1>3

(* The steps of a request after its read, and the uploads.                  *)
LEMMA OtherSteps ==
  ASSUME IInv, NEW p \in Reqs,
         \/ \E m \in Media : Upload(m)
         \/ VerifyOwnership(p) \/ DeleteByIDs(p) \/ DeleteFails(p)
         \/ UpdateUser(p) \/ Fail(p)
  PROVE  IInv'
<1> USE DEF IInv, Ids, At
<1>1. CASE \E m \in Media : Upload(m)
  BY <1>1 DEF Upload, TypeOK, RowSound, RequestsSound, OnlyAvatarsAreDeleted
<1>2. CASE VerifyOwnership(p)
  BY <1>2 DEF VerifyOwnership, Goto, Return, Idle,
              TypeOK, RowSound, RequestsSound, OnlyAvatarsAreDeleted
<1>3. CASE DeleteByIDs(p)
  BY <1>3, ProfileAssumption
     DEF DeleteByIDs, Goto, TypeOK, RowSound, RequestsSound, OnlyAvatarsAreDeleted
<1>4. CASE DeleteFails(p)
  <2>0. calm' \in BOOLEAN
    BY <1>4, Zenon DEF DeleteFails
  <2>1. failures' \in 0..MaxFailures
    <3>1. failures \in 0..MaxFailures /\ failures < MaxFailures /\ failures' = failures + 1
      BY <1>4, Zenon DEF DeleteFails, TypeOK
    <3> QED BY ONLY <3>1, ProfileAssumption
  <2>2. req' \in [Reqs -> [pc : {"idle", "verify", "delete", "update"}, old : Ids, new : Ids]]
    BY <1>4 DEF DeleteFails, Return, Idle, TypeOK
  <2>3. RowSound' /\ RequestsSound' /\ OnlyAvatarsAreDeleted'
    BY <1>4, ProfileAssumption
       DEF DeleteFails, Return, Idle, TypeOK, RowSound, RequestsSound, OnlyAvatarsAreDeleted
  <2> QED BY <1>4, <2>0, <2>1, <2>2, <2>3 DEF DeleteFails, TypeOK
<1>5. CASE UpdateUser(p)
  <2>1. calm' \in BOOLEAN
    BY <1>5, Zenon DEF UpdateUser
  <2>2. req' \in [Reqs -> [pc : {"idle", "verify", "delete", "update"}, old : Ids, new : Ids]]
    BY <1>5 DEF UpdateUser, Return, Idle, TypeOK
  <2>3. avatar' \in Ids /\ worn' \subseteq Media
    BY <1>5 DEF UpdateUser, TypeOK, RequestsSound
  <2>4. RowSound' /\ RequestsSound' /\ OnlyAvatarsAreDeleted'
    BY <1>5 DEF UpdateUser, Return, Idle, TypeOK, RowSound, RequestsSound, OnlyAvatarsAreDeleted
  <2> QED BY <1>5, <2>1, <2>2, <2>3, <2>4 DEF UpdateUser, TypeOK
<1>6. CASE Fail(p)
  <2>0. calm' \in BOOLEAN
    BY <1>6, Zenon DEF Fail
  <2>1. failures' \in 0..MaxFailures
    <3>1. failures \in 0..MaxFailures /\ failures < MaxFailures /\ failures' = failures + 1
      BY <1>6, Zenon DEF Fail, TypeOK
    <3> QED BY ONLY <3>1, ProfileAssumption
  <2>2. req' \in [Reqs -> [pc : {"idle", "verify", "delete", "update"}, old : Ids, new : Ids]]
    BY <1>6 DEF Fail, Return, Idle, TypeOK
  <2>3. RowSound' /\ RequestsSound' /\ OnlyAvatarsAreDeleted'
    BY <1>6, ProfileAssumption
       DEF Fail, Return, Idle, TypeOK, RowSound, RequestsSound, OnlyAvatarsAreDeleted
  <2> QED BY <1>6, <2>0, <2>1, <2>2, <2>3 DEF Fail, TypeOK
<1> QED BY <1>1, <1>2, <1>3, <1>4, <1>5, <1>6

(* At first the account has neither files nor an avatar.                    *)
LEMMA InvInit == Init => IInv
BY ProfileAssumption
   DEF Init, Idle, Ids, IInv, TypeOK, RowSound, RequestsSound, OnlyAvatarsAreDeleted, At

(* Every step keeps the invariant.                                          *)
LEMMA InvStep == IInv /\ [Next]_vars => IInv'
<1> SUFFICES ASSUME IInv, [Next]_vars PROVE IInv'
  OBVIOUS
<1>1. CASE UNCHANGED vars
  BY <1>1 DEF vars, IInv, TypeOK, RowSound, RequestsSound, OnlyAvatarsAreDeleted, At
<1>2. ASSUME NEW m \in Media, Upload(m) PROVE IInv'
  <2>1. CASE Reqs = {}
    BY <1>2, <2>1 DEF IInv, Upload, TypeOK, RowSound, RequestsSound, OnlyAvatarsAreDeleted
  <2>2. CASE Reqs # {}
    BY <1>2, <2>2, OtherSteps
  <2> QED BY <2>1, <2>2
<1>3. ASSUME NEW p \in Reqs, NEW m \in Media, ReplaceAvatar(p, m) PROVE IInv'
  BY <1>3, LoadStep DEF ReplaceAvatar, Ids
<1>4. ASSUME NEW p \in Reqs, KeepAvatar(p) PROVE IInv'
  BY <1>4, LoadStep DEF KeepAvatar, IInv, TypeOK, RowSound, OnlyAvatarsAreDeleted
<1>5. ASSUME NEW p \in Reqs, RemoveAvatar(p) PROVE IInv'
  BY <1>5, LoadStep DEF RemoveAvatar, Ids
<1> QED
  BY <1>1, <1>2, <1>3, <1>4, <1>5, OtherSteps DEF Next

(* No interleaving of requests leaves the inductive invariant.              *)
LEMMA Invariance == Spec => []IInv
BY InvInit, InvStep, PTL DEF Spec

(* UpdateProfile keeps the shape of its state, for any number of overlapping *)
(* requests and failed calls.                                               *)
THEOREM TypeCorrect == Spec => []TypeOK
<1>1. IInv => TypeOK
  BY DEF IInv
<1> QED BY <1>1, Invariance, PTL

(* However many PUT /profile requests overlap and fail, UpdateProfile has   *)
(* only files deleted that were an avatar, and makes no file the avatar     *)
(* that the account never uploaded.                                         *)
THEOREM NoForeignFileLost == Spec => []OnlyAvatarsAreDeleted
<1>1. IInv => OnlyAvatarsAreDeleted
  BY DEF IInv
<1> QED BY <1>1, Invariance, PTL

-----------------------------------------------------------------------------
(***************************************************************************)
(* The avatar and its file.  AvatarIsStored is about the moments between   *)
(* requests; in the middle of one the old file may be gone while the row   *)
(* still names it.  What holds throughout, after whatever overlaps and     *)
(* failures, is that a request at work alone has read the present avatar   *)
(* and will write one that is stored if it differs from it.  If all was    *)
(* calm when it began, the avatar it read, or from the deletion on the one *)
(* it will write, is stored.  And as long as requests never overlapped, no *)
(* former avatar is stored, nor will be once the request has written.      *)
(***************************************************************************)
Has(m)  == m \in stored \cup {NoMedia}
Only(m) == worn \cap stored \subseteq {m}

Alone(p) ==
  /\ \A q \in Reqs : q # p => At(q, "idle")
  /\ req[p].old = avatar
  /\ At(p, "delete") => req[p].new # avatar /\ Has(req[p].new)
  /\ At(p, "update") /\ req[p].new # avatar => Has(req[p].new)
  /\ calm /\ ~At(p, "update") => Has(avatar)
  /\ calm /\ At(p, "update") => Has(req[p].new)
  /\ overlap = "none" /\ At(p, "update") => Only(req[p].new)

CalmSound ==
  /\ calm => overlap # "now"
  /\ calm /\ Quiet => Has(avatar)
  /\ overlap = "none" => Only(avatar)
  /\ \A p \in Reqs : overlap # "now" /\ ~At(p, "idle") => Alone(p)

(* A request that starts alone finds what the last one left; one that does  *)
(* not ends the calm.                                                       *)
LEMMA CalmLoad ==
  ASSUME TypeOK, CalmSound, NEW p \in Reqs,
         NEW l \in {"verify", "delete", "update"}, NEW new, Load(p, l, new),
         l = "delete" => new = NoMedia /\ avatar # NoMedia,
         l = "update" => new = avatar
  PROVE  CalmSound'
<1>0. UNCHANGED <<avatar, stored, worn>> /\ (calm' => calm /\ Quiet)
  BY DEF Load
<1>1. CASE ~Quiet
  <2>1. overlap' = "now" /\ ~calm'
    BY <1>1 DEF Load
  <2> QED BY <2>1 DEF CalmSound
<1>2. CASE Quiet
  <2>1. overlap' # "now" /\ (overlap' = "none" => overlap = "none")
    BY <1>2 DEF Load
  <2>2. /\ req'[p].pc = l /\ req'[p].old = avatar /\ req'[p].new = new
        /\ \A q \in Reqs : q # p => req'[q].pc = "idle"
    BY <1>2 DEF Load, TypeOK, Quiet, At
  <2>3. ~Quiet'
    BY <2>2 DEF Quiet, At
  <2>4. Alone(p)'
    BY <1>0, <1>2, <2>1, <2>2 DEF CalmSound, Alone, Has, Only, At
  <2> QED BY <1>0, <2>1, <2>2, <2>3, <2>4 DEF CalmSound, Only, At
<1> QED BY <1>1, <1>2

(* A step of a request ends it with avatar and files in agreement, or takes *)
(* it further alone.                                                        *)
LEMMA CalmRequest ==
  ASSUME TypeOK, NEW p \in Reqs, overlap # "now", UNCHANGED overlap,
         \A q \in Reqs : q # p => At(q, "idle") /\ req'[q] = req[q],
         overlap = "none" => Only(avatar)',
         \/ Return(p) /\ (calm' => Has(avatar)')
         \/ ~At(p, "idle")' /\ Alone(p)'
  PROVE  CalmSound'
<1>1. \A q \in Reqs : q # p => req'[q].pc = "idle"
  BY DEF At
<1>2. CASE Return(p) /\ (calm' => Has(avatar)')
  <2>1. req'[p].pc = "idle"
    BY <1>2 DEF Return, Idle, TypeOK
  <2> QED BY <1>1, <1>2, <2>1 DEF CalmSound, At
<1>3. CASE ~At(p, "idle")' /\ Alone(p)'
  BY <1>1, <1>3 DEF CalmSound, Quiet, At
<1> QED BY <1>2, <1>3

(* Where requests overlap there is nothing to keep.                         *)
LEMMA CalmOverlap ==
  ASSUME CalmSound, overlap = "now", UNCHANGED overlap, calm' => calm
  PROVE  CalmSound'
BY DEF CalmSound

(* The steps of a request after its read.                                   *)
LEMMA CalmSteps ==
  ASSUME IInv, CalmSound, NEW p \in Reqs,
         \/ VerifyOwnership(p) \/ DeleteByIDs(p) \/ DeleteFails(p)
         \/ UpdateUser(p) \/ Fail(p)
  PROVE  CalmSound'
<1> USE ProfileAssumption DEF IInv
<1>0. ~At(p, "idle") /\ UNCHANGED overlap
  BY DEF VerifyOwnership, DeleteByIDs, DeleteFails, UpdateUser, Fail, At
<1>1. CASE overlap = "now"
  <2>1. calm' => calm
    BY <1>1 DEF VerifyOwnership, DeleteByIDs, DeleteFails, UpdateUser, Fail
  <2> QED BY <1>0, <1>1, <2>1, CalmOverlap
<1>2. CASE overlap # "now"
  <2>0. Alone(p) /\ (overlap = "none" => Only(avatar)) /\ NoMedia \notin stored
    BY <1>0, <1>2 DEF CalmSound, TypeOK
  <2>1. \A q \in Reqs : q # p => At(q, "idle") /\ req'[q] = req[q]
    BY <2>0 DEF VerifyOwnership, DeleteByIDs, DeleteFails, UpdateUser, Fail,
                Goto, Return, Alone, TypeOK
  <2>2. CASE VerifyOwnership(p)
    <3>1. UNCHANGED <<avatar, stored, worn, calm>> /\ At(p, "verify")
          /\ (overlap = "none" => Only(avatar)')
      BY <2>0, <2>2 DEF VerifyOwnership, Only
    <3>2. CASE Return(p)
      BY <1>0, <1>2, <2>0, <2>1, <3>1, <3>2, CalmRequest DEF Alone, Has, At
    <3>3. CASE Goto(p, "update") /\ req[p].new \in stored /\ req[p].old \in {NoMedia, req[p].new}
      <4>1. req'[p].pc = "update" /\ req'[p].old = req[p].old /\ req'[p].new = req[p].new
        BY <3>3 DEF Goto, TypeOK
      <4>2. overlap = "none" => Only(req[p].new)
        BY <2>0, <3>3 DEF Alone, Only
      <4>3. Alone(p)'
        BY <1>0, <2>0, <2>1, <3>1, <3>3, <4>1, <4>2 DEF Alone, Has, Only, At
      <4> QED BY <1>0, <1>2, <2>1, <3>1, <4>1, <4>3, CalmRequest DEF At
    <3>4. CASE Goto(p, "delete") /\ req[p].new \in stored /\ req[p].old \notin {NoMedia, req[p].new}
      <4>1. req'[p].pc = "delete" /\ req'[p].old = req[p].old /\ req'[p].new = req[p].new
        BY <3>4 DEF Goto, TypeOK
      <4>2. Alone(p)'
        BY <1>0, <2>0, <2>1, <3>1, <3>4, <4>1 DEF Alone, Has, Only, At
      <4> QED BY <1>0, <1>2, <2>1, <3>1, <4>1, <4>2, CalmRequest DEF At
    <3> QED BY <2>2, <3>2, <3>3, <3>4 DEF VerifyOwnership
  <2>3. CASE DeleteByIDs(p)
    <3>1. /\ UNCHANGED <<avatar, worn, calm>> /\ At(p, "delete")
          /\ stored' = stored \ {avatar} /\ (overlap = "none" => Only(avatar)')
      BY <2>0, <2>3 DEF DeleteByIDs, Alone, Only
    <3>2. req'[p].pc = "update" /\ req'[p].old = req[p].old /\ req'[p].new = req[p].new
      BY <2>3 DEF DeleteByIDs, Goto, TypeOK
    <3>3. Alone(p)'
      BY <1>0, <2>0, <2>1, <3>1, <3>2 DEF Alone, Has, Only, At
    <3> QED BY <1>0, <1>2, <2>1, <3>1, <3>2, <3>3, CalmRequest DEF At
  <2>4. CASE DeleteFails(p)
    BY <1>0, <1>2, <2>0, <2>1, <2>4, CalmRequest DEF DeleteFails, Only
  <2>5. CASE UpdateUser(p)
    <3>1. /\ At(p, "update") /\ Return(p) /\ UNCHANGED stored /\ avatar' = req[p].new
          /\ worn' = worn \cup ({req[p].new} \ {NoMedia})
          /\ calm' => calm \/ req[p].new # req[p].old
      BY <2>5 DEF UpdateUser
    <3>2. calm' => Has(avatar)'
      BY <2>0, <3>1 DEF Alone, Has, At
    <3>3. overlap = "none" => Only(avatar)'
      BY <2>0, <3>1 DEF Alone, Only, At
    <3> QED BY <1>0, <1>2, <2>1, <3>1, <3>2, <3>3, CalmRequest
  <2>6. CASE Fail(p)
    <3>1. /\ UNCHANGED <<avatar, stored, worn>> /\ Return(p)
          /\ calm' => calm /\ At(p, "verify")
      BY <2>6 DEF Fail
    <3>2. (calm' => Has(avatar)') /\ (overlap = "none" => Only(avatar)')
      BY <2>0, <3>1 DEF Alone, Has, Only, At
    <3> QED BY <1>0, <1>2, <2>1, <3>1, <3>2, CalmRequest
  <2> QED BY <2>2, <2>3, <2>4, <2>5, <2>6
<1> QED BY <1>1, <1>2

(* Every step keeps CalmSound; a new file was never an avatar.              *)
LEMMA CalmStep == IInv /\ CalmSound /\ [Next]_vars => CalmSound'
<1> SUFFICES ASSUME IInv, CalmSound, [Next]_vars PROVE CalmSound'
  OBVIOUS
<1>1. CASE UNCHANGED vars
  BY <1>1 DEF vars, CalmSound, Quiet, Alone, Has, Only, At
<1>2. ASSUME NEW m \in Media, Upload(m) PROVE CalmSound'
  <2>1. m \notin worn /\ stored' = stored \cup {m}
        /\ UNCHANGED <<avatar, worn, req, overlap, calm>>
    BY <1>2 DEF Upload, IInv, OnlyAvatarsAreDeleted
  <2>2. \A n : (Has(n) => Has(n)') /\ (Only(n) => Only(n)')
    BY <2>1 DEF Has, Only
  <2>3. \A p \in Reqs : Alone(p) => Alone(p)'
    BY <2>1, <2>2 DEF Alone, At
  <2> QED BY <2>1, <2>2, <2>3 DEF CalmSound, Quiet, At
<1>3. ASSUME NEW p \in Reqs, NEW m \in Media, ReplaceAvatar(p, m) PROVE CalmSound'
  BY <1>3, CalmLoad DEF ReplaceAvatar, IInv
<1>4. ASSUME NEW p \in Reqs, KeepAvatar(p) PROVE CalmSound'
  BY <1>4, CalmLoad DEF KeepAvatar, IInv
<1>5. ASSUME NEW p \in Reqs, RemoveAvatar(p) PROVE CalmSound'
  BY <1>5, CalmLoad DEF RemoveAvatar, IInv
<1> QED BY <1>1, <1>2, <1>3, <1>4, <1>5, CalmSteps DEF Next

(* A request that is alone repairs what overlaps and failures left.         *)
LEMMA CalmInvariance == Spec => []CalmSound
<1>1. Init => CalmSound
  BY DEF Init, Idle, CalmSound, Quiet, Has, Only, At
<1> QED BY <1>1, CalmStep, Invariance, PTL DEF Spec

(* Between requests the avatar UpdateProfile left is a file media-service   *)
(* has: until requests overlap or one fails on its way to the row, and      *)
(* again as soon as a change of the avatar was completed alone.             *)
THEOREM AvatarStored == Spec => []AvatarIsStored
<1>1. CalmSound => AvatarIsStored
  BY DEF CalmSound, Has, AvatarIsStored
<1> QED BY <1>1, CalmInvariance, PTL

(* And of all the files that were ever the avatar, media-service has at     *)
(* most the present one left, wherever requests failed, as long as none     *)
(* overlapped another.                                                      *)
THEOREM NoOrphan == Spec => []NoOrphanedAvatar
<1>1. CalmSound => NoOrphanedAvatar
  BY DEF CalmSound, Only, NoOrphanedAvatar
<1> QED BY <1>1, CalmInvariance, PTL
=============================================================================
