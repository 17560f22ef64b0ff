------------------------------- MODULE Photos -------------------------------
(***************************************************************************)
(* Profile photos, team photos and team logos: a row in the database says  *)
(* that its owner has an image, an object store outside it keeps the bytes *)
(* under a key that is fixed per owner.  No transaction spans the two, so  *)
(* every handler is a sequence of round trips with other handlers between  *)
(* them.  auth/service.go, teams/service.go, members/service.go, storage/. *)
(***************************************************************************)
EXTENDS Naturals, FiniteSets, Functions

CONSTANTS PhotoUsers,    \* accounts that may upload a profile photo
          PhotoTeams,    \* teams that may have a photo and a logo
          PhotoSlots,    \* requests in flight at the same time
          Pictures,      \* uploads: [size, mime, w, h]
          MaxDim,        \* longest edge kept
          MaxPixels,     \* maxDecodePixels
          MaxBytes,      \* upload limit
          NoImage

VARIABLES rows,       \* keys named by photo_object_key / logo_object_key
          erased,     \* users with deleted_at set
          objects,    \* the object store: key -> image
          photoReqs,  \* requests in flight
          entangled,  \* history: keys two requests were writing at the same time
          undone      \* history: keys a row named when a failed upload took the
                      \* object back, and to which none was put since

photoVars == <<rows, erased, objects, photoReqs, entangled, undone>>

-----------------------------------------------------------------------------
(* ImageKeys and images *)

userPhotoKey(u) == <<"users", u, "photo">>
teamPhotoKey(t) == <<"teams", t, "photo">>
teamLogoKey(t)  == <<"teams", t, "logo">>

UserKeys  == {userPhotoKey(u) : u \in PhotoUsers}
PhotoKeys == {teamPhotoKey(t) : t \in PhotoTeams}
LogoKeys  == {teamLogoKey(t) : t \in PhotoTeams}
ImageKeys == UserKeys \union PhotoKeys \union LogoKeys

AtLeastOne(n) == IF n < 1 THEN 1 ELSE n

\* What the teams' copy of resizeImage returns for a picture it accepts.
ResizeTeamImage(p) ==
    IF p.w <= MaxDim /\ p.h <= MaxDim THEN [w |-> p.w, h |-> p.h]
    ELSE IF p.w > p.h
         THEN [w |-> MaxDim, h |-> AtLeastOne((p.h * MaxDim) \div p.w)]
         ELSE [w |-> AtLeastOne((p.w * MaxDim) \div p.h), h |-> MaxDim]

\* What the accounts' copy returns: the same arithmetic on its own constants.
ResizeUserImage(p) == ResizeTeamImage(p)

\* http.DetectContentType, the size limit, then the pixel limit of resizeImage.
Decodable(p) == p.w * p.h <= MaxPixels

ReadMultipartImage(p) ==
    /\ p.size <= MaxBytes
    /\ p.mime \in {"image/jpeg", "image/png"}

Images == [w : 1 .. MaxDim, h : 1 .. MaxDim]

-----------------------------------------------------------------------------
(* The calls the handlers pass on, and where each begins *)

PhotoCall(op, key, pc, pic) ==
    [op |-> op, key |-> key, pc |-> pc, pic |-> pic, found |-> FALSE,
     late |-> FALSE, answer |-> NoImage]

NoPhotoCall == PhotoCall("none", NoImage, "free", NoImage)

UploadMyPhotoCalls ==
    {PhotoCall("upload", k, "put", p) :
        k \in UserKeys, p \in {q \in Pictures : ReadMultipartImage(q) /\ Decodable(q)}}
UploadTeamPhotoCalls ==
    {PhotoCall("upload", k, "put", p) :
        k \in PhotoKeys, p \in {q \in Pictures : ReadMultipartImage(q) /\ Decodable(q)}}
UploadTeamLogoCalls ==
    {PhotoCall("upload", k, "put", p) :
        k \in LogoKeys, p \in {q \in Pictures : ReadMultipartImage(q) /\ Decodable(q)}}
DeleteTeamPhotoCalls == {PhotoCall("delete", k, "find", NoImage) : k \in PhotoKeys}
DeleteTeamLogoCalls  == {PhotoCall("delete", k, "find", NoImage) : k \in LogoKeys}
DeleteCurrentUserCalls == {PhotoCall("delete", k, "find", NoImage) : k \in UserKeys}
GetMyPhotoCalls     == {PhotoCall("mine", k, "key", NoImage) : k \in UserKeys}
GetMemberPhotoCalls == {PhotoCall("mate", k, "key", NoImage) : k \in UserKeys}
GetTeamPhotoCalls   == {PhotoCall("team", k, "key", NoImage) : k \in PhotoKeys}
GetTeamLogoCalls    == {PhotoCall("team", k, "key", NoImage) : k \in LogoKeys}

PhotoCalls ==
    UploadMyPhotoCalls \union UploadTeamPhotoCalls \union UploadTeamLogoCalls
    \union DeleteTeamPhotoCalls \union DeleteTeamLogoCalls
    \union DeleteCurrentUserCalls \union GetMyPhotoCalls \union GetMemberPhotoCalls
    \union GetTeamPhotoCalls \union GetTeamLogoCalls

WritesImage(r) == r.op \in {"upload", "delete"}

OwnerOf(k) == {u \in PhotoUsers : userPhotoKey(u) = k}

\* A request passes the session check; an erased account has no session left.
SubmitPhoto(s, r) ==
    /\ photoReqs[s].pc = "free"
    /\ r.op \in {"upload", "delete", "mine"} => OwnerOf(r.key) \cap erased = {}
    /\ photoReqs' = [photoReqs EXCEPT ![s] =
                        [r EXCEPT !.late = OwnerOf(r.key) \cap erased # {}]]
    /\ entangled' = entangled \union
          {k \in {r.key} : /\ WritesImage(r)
                           /\ \E o \in PhotoSlots : /\ photoReqs[o].key = k
                                                    /\ WritesImage(photoReqs[o])}
    /\ UNCHANGED <<rows, erased, objects, undone>>

PhotoAt(s, pc) == photoReqs[s].pc = pc
PhotoGoTo(s, pc) == photoReqs' = [photoReqs EXCEPT ![s].pc = pc]
EndPhoto(s) == photoReqs' = [photoReqs EXCEPT ![s] = NoPhotoCall]

-----------------------------------------------------------------------------
(* The object store: a call that fails is a request abandoned before it *)

PutObject(k, image) == objects' = [x \in DOMAIN objects \union {k} |->
                                IF x = k THEN image ELSE objects[x]]

RemoveObject(k) == objects' = Restrict(objects, DOMAIN objects \ {k})

PutImage(s, resize(_)) ==
    /\ PhotoAt(s, "put")
    /\ PutObject(photoReqs[s].key, resize(photoReqs[s].pic))
    /\ undone' = undone \ {photoReqs[s].key}
    /\ PhotoGoTo(s, "write")
    /\ UNCHANGED <<rows, erased, entangled>>

\* The best-effort deletes that end a failed upload, a removal and an erasure.
DropObject(s, pc) ==
    /\ PhotoAt(s, pc)
    /\ RemoveObject(photoReqs[s].key)
    /\ undone' = undone \union {k \in rows : pc = "undo" /\ k = photoReqs[s].key}
    /\ EndPhoto(s)
    /\ UNCHANGED <<rows, erased, entangled>>

\* S3Store.Get streams what the key holds; PresignGet first makes sure that it
\* holds something.  Either way the owner's image is what the caller gets.
GetObject(k) == IF k \in DOMAIN objects THEN objects[k] ELSE NoImage

-----------------------------------------------------------------------------
(* Rows *)

\* Each is one statement; a statement may also fail and then the service
\* deletes what its key holds, an image the row named before included.
WriteKey(s, guard) ==
    /\ PhotoAt(s, "write")
    /\ \/ /\ guard
          /\ rows' = rows \union {photoReqs[s].key}
          /\ EndPhoto(s)
       \/ PhotoGoTo(s, "undo") /\ UNCHANGED rows
    /\ UNCHANGED <<erased, objects, entangled, undone>>

UpdateUserPhoto(s) ==
    /\ photoReqs[s].key \in UserKeys
    /\ WriteKey(s, OwnerOf(photoReqs[s].key) \cap erased = {})

UpdateTeamPhoto(s) == photoReqs[s].key \in PhotoKeys /\ WriteKey(s, TRUE)
UpdateTeamLogo(s)  == photoReqs[s].key \in LogoKeys /\ WriteKey(s, TRUE)

\* Which object, if any, the request will delete once the row is cleared: none when
\* this query fails, and the row is cleared all the same.
FindKey(s) ==
    /\ PhotoAt(s, "find")
    /\ \E found \in {FALSE, photoReqs[s].key \in rows} :
         photoReqs' = [photoReqs EXCEPT ![s].pc = "clear", ![s].found = found]
    /\ UNCHANGED <<rows, erased, objects, entangled, undone>>

\* Mutant: the object goes first and the row is cleared in the next round trip.
ClearKey_ObjectFirst(s) ==
    /\ PhotoAt(s, "clear")
    /\ IF photoReqs[s].found
       THEN /\ photoReqs' = [photoReqs EXCEPT ![s].found = FALSE]
            /\ RemoveObject(photoReqs[s].key)
            /\ UNCHANGED rows
       ELSE rows' = rows \ {photoReqs[s].key} /\ EndPhoto(s) /\ UNCHANGED objects
    /\ UNCHANGED <<entangled, undone>>

ClearKey(s) ==
    /\ PhotoAt(s, "clear")
    /\ rows' = rows \ {photoReqs[s].key}
    /\ IF photoReqs[s].found THEN PhotoGoTo(s, "drop") ELSE EndPhoto(s)
    /\ UNCHANGED <<objects, entangled, undone>>

DeleteTeamPhoto(s) ==
    photoReqs[s].key \in PhotoKeys /\ ClearKey(s) /\ UNCHANGED erased
DeleteTeamLogo(s) ==
    photoReqs[s].key \in LogoKeys /\ ClearKey(s) /\ UNCHANGED erased

\* The transaction that empties the row of an account and marks it deleted.
EraseUserRow(s) ==
    /\ photoReqs[s].key \in UserKeys
    /\ ClearKey(s)
    /\ erased' = erased \union OwnerOf(photoReqs[s].key)

KeyOf(s, visible) ==
    /\ PhotoAt(s, "key")
    /\ IF photoReqs[s].key \in rows /\ visible
       THEN PhotoGoTo(s, "fetch") ELSE EndPhoto(s)
    /\ UNCHANGED <<rows, erased, objects, entangled, undone>>

FindUserPhotoKeyByID(s) ==
    photoReqs[s].op = "mine" /\ KeyOf(s, OwnerOf(photoReqs[s].key) \cap erased = {})
GetMemberPhotoKey(s) == photoReqs[s].op = "mate" /\ KeyOf(s, TRUE)
GetTeamPhotoKey(s) == photoReqs[s].key \in PhotoKeys /\ KeyOf(s, TRUE)
GetTeamLogoKey(s)  == photoReqs[s].key \in LogoKeys /\ KeyOf(s, TRUE)

-----------------------------------------------------------------------------
(* The services: each operation with the steps it takes *)

FetchImage(s) ==
    /\ PhotoAt(s, "fetch")
    /\ photoReqs' = [photoReqs EXCEPT ![s].pc = "answered",
                                      ![s].answer = GetObject(photoReqs[s].key)]
    /\ UNCHANGED <<rows, erased, objects, entangled, undone>>

UpdateMyPhoto(s) ==
    \/ photoReqs[s].key \in UserKeys /\ PutImage(s, ResizeUserImage)
    \/ UpdateUserPhoto(s)
    \/ photoReqs[s].key \in UserKeys /\ DropObject(s, "undo")

UpdatePhoto(s) ==
    \/ photoReqs[s].key \in PhotoKeys /\ PutImage(s, ResizeTeamImage)
    \/ UpdateTeamPhoto(s)
    \/ photoReqs[s].key \in PhotoKeys /\ DropObject(s, "undo")

UpdateLogo(s) ==
    \/ photoReqs[s].key \in LogoKeys /\ PutImage(s, ResizeTeamImage)
    \/ UpdateTeamLogo(s)
    \/ photoReqs[s].key \in LogoKeys /\ DropObject(s, "undo")

DeletePhoto(s) ==
    \/ photoReqs[s].key \in PhotoKeys /\ (FindKey(s) \/ DropObject(s, "drop"))
    \/ DeleteTeamPhoto(s)

DeleteLogo(s) ==
    \/ photoReqs[s].key \in LogoKeys /\ (FindKey(s) \/ DropObject(s, "drop"))
    \/ DeleteTeamLogo(s)

EraseAccount(s) ==
    \/ photoReqs[s].key \in UserKeys /\ (FindKey(s) \/ DropObject(s, "drop"))
    \/ EraseUserRow(s)

GetMyPhoto(s) ==
    FindUserPhotoKeyByID(s) \/ (photoReqs[s].op = "mine" /\ FetchImage(s))
GetMemberPhoto(s) ==
    GetMemberPhotoKey(s) \/ (photoReqs[s].op = "mate" /\ FetchImage(s))
GetTeamPhoto(s) ==
    GetTeamPhotoKey(s) \/ (photoReqs[s].key \in PhotoKeys /\ FetchImage(s))
GetTeamLogo(s) ==
    GetTeamLogoKey(s) \/ (photoReqs[s].key \in LogoKeys /\ FetchImage(s))

AnswerPhoto(s) ==
    /\ PhotoAt(s, "answered")
    /\ EndPhoto(s)
    /\ UNCHANGED <<rows, erased, objects, entangled, undone>>

\* The process dies, the client's context ends or the next call fails.
AbandonPhoto(s) ==
    /\ photoReqs[s].pc \in {"put", "write", "undo", "clear", "drop", "fetch"}
    /\ EndPhoto(s)
    /\ UNCHANGED <<rows, erased, objects, entangled, undone>>

PhotosInit ==
    /\ rows = {}
    /\ erased = {}
    /\ objects = << >>
    /\ photoReqs = [s \in PhotoSlots |-> NoPhotoCall]
    /\ entangled = {}
    /\ undone = {}

PhotoStep(s) ==
    \/ UpdateMyPhoto(s) \/ UpdatePhoto(s) \/ UpdateLogo(s)
    \/ DeletePhoto(s) \/ DeleteLogo(s) \/ EraseAccount(s)
    \/ GetMyPhoto(s) \/ GetMemberPhoto(s) \/ GetTeamPhoto(s) \/ GetTeamLogo(s)
    \/ AnswerPhoto(s)

PhotosNext(C) ==
    \E s \in PhotoSlots :
        (\E r \in C : SubmitPhoto(s, r)) \/ PhotoStep(s) \/ AbandonPhoto(s)

PhotosSpec == PhotosInit /\ [][PhotosNext(PhotoCalls)]_photoVars

-----------------------------------------------------------------------------
(* Properties *)

\* What a row names is in the store, also when a request dies half way, with two
\* exceptions the code allows: two requests were writing that image at the same time
\* (entangled), or an upload whose row write failed took the object back from under
\* the row (undone: OnlyOrphansTakenBack shows it).  And a request that begins after
\* an account was erased never gets its photo, although team mates still ask for it
\* by membership and an upload was in flight at the erasure.
PhotosRight ==
    /\ rows \ (entangled \union undone) \subseteq DOMAIN objects
    /\ \A s \in PhotoSlots : photoReqs[s].late => photoReqs[s].answer = NoImage

\* As its comment has it, an upload whose row write fails deletes an object nobody
\* needs: no row names it, unless another request was writing the image as well.
\* (UpdatePhoto in auth/service.go and teams/service.go: "so it doesn't linger
\* orphaned".)
OnlyOrphansTakenBack ==
    [][\A s \in PhotoSlots :
         /\ DropObject(s, "undo")
         /\ photoReqs[s].key \notin entangled
         => photoReqs[s].key \notin rows]_photoVars

=============================================================================
