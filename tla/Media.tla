-------------------------------- MODULE Media --------------------------------
(***************************************************************************)
(* The media of one user (src/modules/media): objects in the bucket, rows  *)
(* that name them in Postgres, albums, tracks (audios and videos), and the *)
(* key of the avatar in users.  No transaction spans the bucket and        *)
(* Postgres: uploads put the object first and insert its row after it,     *)
(* deletions remove the object first and its row after it, and a request   *)
(* may fail or be dropped between any two of its calls.                    *)
(*                                                                         *)
(* A key stands for the object, for the row of media_objects that names    *)
(* it, and for the audio or video made of it.                              *)
(***************************************************************************)
EXTENDS Integers, FiniteSets

CONSTANTS
  MaxKeys,    \* bound: uploads
  MaxAlbums,  \* bound: albums
  Task,       \* bound: requests of the user that run at once
  Ops,        \* the requests the user sends
  MaxDoubts,  \* bound: keys in doubt after which nothing fails any more
  Nil

Key == 1 .. MaxKeys
Album == 1 .. MaxAlbums
Uploads == {"photo", "audio", "video", "avatar", "assign"}
AvatarOps == {"avatar", "assign", "convert"}
Deletions == {"deletePhoto", "deleteTrack", "deleteAlbum", "deleteAccount"}

ASSUME MediaAssumption ==
  /\ MaxKeys \in Nat \ {0} /\ MaxAlbums \in Nat /\ MaxDoubts \in Nat
  /\ Nil \notin Nat
  /\ Ops \subseteq Uploads \cup AvatarOps \cup Deletions

VARIABLES
  account,   \* the user has a row
  avatar,    \* users.avatar_key
  objects,   \* the keys in the bucket
  born,      \* born[k]: orders the rows by age, 0: k has no row
  kind,      \* kind[k]: media_objects.kind; "svg" is an avatar whose key ends
             \* so, as an older release stored it
  made,      \* albums made so far, numbered by age
  albums,    \* rows of albums
  links,     \* rows of album_photos
  tracks,    \* rows of audios and videos
  used,      \* the keys drawn so far
  stage, job,   \* the next call of a request, and what it works on
  cut,       \* history: keys of requests that were dropped, of deletions from
             \* the bucket that failed unnoticed, and of an SVG that a
             \* conversion removed and whose row it left
  late,      \* history: keys that came while their album or account went
  byHand,    \* history: avatars the user deleted
  rivals     \* history: two requests set the avatar at once

rows == <<born, kind, links, tracks>>
folders == <<made, albums>>
doubts == <<cut, late, byHand, rivals>>
mediaVars == <<account, avatar, objects, born, kind, made, albums, links, tracks,
          used, stage, job, cut, late, byHand, rivals>>

Rows == {k \in Key : born[k] > 0}
NoJob == [op |-> Nil, key |-> Nil, album |-> Nil, prev |-> Nil, keys |-> {}]
Doing(set) == {t \in Task : stage[t] # "idle" /\ job[t].op \in set}

(***************************************************************************)
(* A user without any media, or with the SVG of an older release.          *)
(***************************************************************************)
MediaInit ==
  /\ account = TRUE
  /\ \E old \in {{}} \cup IF "convert" \in Ops THEN {{1}} ELSE {} :
       /\ avatar = IF old = {} THEN Nil ELSE 1
       /\ objects = old /\ used = old
       /\ born = [k \in Key |-> IF k \in old THEN 1 ELSE 0]
       /\ kind = [k \in Key |-> IF k \in old THEN "svg" ELSE Nil]
  /\ made = 0 /\ albums = {} /\ links = {} /\ tracks = {}
  /\ stage = [t \in Task |-> "idle"] /\ job = [t \in Task |-> NoJob]
  /\ cut = {} /\ late = {} /\ byHand = {} /\ rivals = FALSE

MayFail == Cardinality(cut) < MaxDoubts

Proceed(t, label) == stage' = [stage EXCEPT ![t] = label]
End(t) == Proceed(t, "idle") /\ job' = [job EXCEPT ![t] = NoJob]
Continue(t, label) == Proceed(t, label) /\ UNCHANGED job

(***************************************************************************)
(* A deletion of album a, or of the account, that has read the keys of its *)
(* objects and not yet deleted their rows.                                 *)
(***************************************************************************)
AlbumGoing(a) ==
  \E t \in Doing({"deleteAlbum"}) :
    job[t].album = a /\ stage[t] \in {"deleteObjects", "links", "deleteAlbum"}
AccountGoing ==
  \E t \in Doing({"deleteAccount"}) : stage[t] \in {"deleteObjects", "deleteAccount"}

-----------------------------------------------------------------------------
(***************************************************************************)
(* Uploads.  assign stores the default avatar of a user without one.       *)
(***************************************************************************)
BeginUpload(t, op, a) ==
  /\ stage[t] = "idle" /\ account
  /\ op \in Ops \cap Uploads
  /\ a # Nil => op = "photo" /\ a \in albums
  /\ op = "assign" => avatar = Nil
  /\ job' = [job EXCEPT ![t] = [NoJob EXCEPT !.op = op, !.album = a]]
  /\ Proceed(t, IF op \in AvatarOps THEN "previous" ELSE "put")
  /\ rivals' = (rivals \/ (op \in AvatarOps /\ Doing(AvatarOps) # {}))
  /\ UNCHANGED <<account, avatar, objects, rows, folders, used, cut, late, byHand>>

(***************************************************************************)
(* A start converts SVG avatars: it lists their keys, and reads each one,  *)
(* which fails when the object is gone meanwhile.                          *)
(***************************************************************************)
BeginConvert(t) ==
  /\ stage[t] = "idle" /\ "convert" \in Ops
  /\ avatar # Nil /\ kind[avatar] = "svg"
  /\ job' = [job EXCEPT ![t] = [NoJob EXCEPT !.op = "convert", !.keys = {avatar}]]
  /\ Proceed(t, "read")
  /\ rivals' = (rivals \/ Doing(AvatarOps) # {})
  /\ UNCHANGED <<account, avatar, objects, rows, folders, used, cut, late, byHand>>

ReadSvg(t) ==
  /\ stage[t] = "read"
  /\ IF job[t].keys \subseteq objects THEN Continue(t, "previous") ELSE End(t)
  /\ UNCHANGED <<account, avatar, objects, rows, folders, used, doubts>>

(***************************************************************************)
(* The newest row of kind avatar.                                          *)
(***************************************************************************)
FindAvatar(t) ==
  LET avatars == {k \in Rows : kind[k] \in {"avatar", "svg"}}
  IN /\ stage[t] = "previous"
     /\ Proceed(t, "put")
     /\ \/ avatars = {} /\ UNCHANGED job
        \/ \E k \in avatars : /\ \A j \in avatars : born[j] <= born[k]
                              /\ job' = [job EXCEPT ![t].prev = k]
     /\ UNCHANGED <<account, avatar, objects, rows, folders, used, doubts>>

(* Mistake: the previous avatar is looked up after the new one is stored. *)
PutThenFind(t) ==
  /\ stage[t] = "put"
  /\ \E k \in Key \ used :
       /\ \A j \in Key \ used : k <= j
       /\ used' = used \cup {k}
       /\ objects' = objects \cup {k}
       /\ job' = [job EXCEPT ![t].key = k, ![t].prev = k]
  /\ Proceed(t, "row")
  /\ UNCHANGED <<account, avatar, rows, folders, doubts>>

(***************************************************************************)
(* persist_object puts the object under a key never drawn before ...       *)
(***************************************************************************)
Put(t) ==
  /\ stage[t] = "put"
  /\ \E k \in Key \ used :
       /\ \A j \in Key \ used : k <= j
       /\ used' = used \cup {k}
       /\ objects' = objects \cup {k}
       /\ job' = [job EXCEPT ![t].key = k]
  /\ Proceed(t, "row")
  /\ UNCHANGED <<account, avatar, rows, folders, doubts>>

NewRow(k, op) ==
  /\ born' = [born EXCEPT ![k] = 1 + CHOOSE n \in {born[j] : j \in Key} :
                                       \A j \in Key : born[j] <= n]
  /\ kind' = [kind EXCEPT ![k] = IF op \in AvatarOps THEN "avatar" ELSE op]
  /\ late' = IF AccountGoing THEN late \cup {k} ELSE late

AfterRow(op) ==
  CASE op \in AvatarOps -> "setKey"
    [] op = "photo" -> "album"
    [] op \in {"audio", "video"} -> "track"

(* Mistake: a failed insert leaves the object in the bucket. *)
InsertRowOrLeave(t) ==
  /\ stage[t] = "row"
  /\ \/ account /\ NewRow(job[t].key, job[t].op) /\ Continue(t, AfterRow(job[t].op))
     \/ ~account /\ End(t) /\ UNCHANGED <<born, kind, late>>
  /\ UNCHANGED <<account, avatar, objects, folders, links, tracks, used,
                 cut, byHand, rivals>>

(***************************************************************************)
(* ... and inserts its row, which fails when the account is gone; the      *)
(* object is then removed again.                                           *)
(***************************************************************************)
InsertRow(t) ==
  /\ stage[t] = "row"
  /\ \/ account /\ NewRow(job[t].key, job[t].op) /\ Continue(t, AfterRow(job[t].op))
     \/ ~account /\ Continue(t, "cleanup") /\ UNCHANGED <<born, kind, late>>
  /\ UNCHANGED <<account, avatar, objects, folders, links, tracks, used,
                 cut, byHand, rivals>>

Cleanup(t) ==
  /\ stage[t] = "cleanup"
  /\ objects' = objects \ {job[t].key}
  /\ End(t)
  /\ UNCHANGED <<account, avatar, rows, folders, used, doubts>>

SetAvatarKey(t) ==
  /\ stage[t] = "setKey"
  /\ \/ /\ account /\ avatar' = job[t].key
        /\ Continue(t, IF job[t].op = "avatar" THEN "album" ELSE "dropPrevious")
     \/ ~account /\ End(t) /\ UNCHANGED avatar
  /\ UNCHANGED <<account, objects, rows, folders, used, doubts>>

(***************************************************************************)
(* The album asked for, or the user's oldest, or a new one; two requests   *)
(* may both find none and make one each.                                   *)
(***************************************************************************)
DefaultAlbum(t) ==
  /\ stage[t] = "album"
  /\ \/ job[t].album # Nil /\ Continue(t, "attach")
     \/ /\ job[t].album = Nil
        /\ \E a \in albums : /\ \A b \in albums : a <= b
                             /\ job' = [job EXCEPT ![t].album = a]
        /\ Proceed(t, "attach")
     \/ job[t].album = Nil /\ albums = {} /\ Continue(t, "newAlbum")
  /\ UNCHANGED <<account, avatar, objects, rows, folders, used, doubts>>

MakeAlbum ==
  /\ account /\ made < MaxAlbums
  /\ made' = made + 1 /\ albums' = albums \cup {made + 1}

NewAlbum(t) ==
  /\ stage[t] = "newAlbum"
  /\ \/ MakeAlbum /\ Proceed(t, "attach") /\ job' = [job EXCEPT ![t].album = made + 1]
     \/ ~account /\ End(t) /\ UNCHANGED folders
  /\ UNCHANGED <<account, avatar, objects, rows, used, doubts>>

CreateAlbum ==
  /\ MakeAlbum
  /\ UNCHANGED <<account, avatar, objects, rows, used, stage, job, doubts>>

(***************************************************************************)
(* INSERT INTO album_photos: both rows must be there.                      *)
(***************************************************************************)
AttachPhoto(t) ==
  LET k == job[t].key
      a == job[t].album
      possible == a \in albums /\ k \in Rows
  IN /\ stage[t] = "attach"
     /\ links' = IF possible THEN links \cup {<<a, k>>} ELSE links
     /\ late' = IF possible /\ AlbumGoing(a) THEN late \cup {k} ELSE late
     /\ IF possible /\ job[t].op = "avatar" THEN Continue(t, "dropPrevious") ELSE End(t)
     /\ UNCHANGED <<account, avatar, objects, born, kind, folders, tracks, used,
                    cut, byHand, rivals>>

InsertTrack(t) ==
  /\ stage[t] = "track"
  /\ tracks' = IF job[t].key \in Rows THEN tracks \cup {job[t].key} ELSE tracks
  /\ End(t)
  /\ UNCHANGED <<account, avatar, objects, born, kind, folders, links, used, doubts>>

Replaced(t) == IF job[t].op = "convert" THEN Continue(t, "sweep") ELSE End(t)

(***************************************************************************)
(* The avatar that was replaced goes, the object before the row; only an   *)
(* upload takes notice when the bucket refuses.                            *)
(***************************************************************************)
DropPrevious(t) ==
  /\ stage[t] = "dropPrevious"
  /\ \/ job[t].prev = Nil /\ Replaced(t) /\ UNCHANGED <<objects, cut>>
     \/ /\ job[t].prev # Nil
        /\ Continue(t, "dropRow")
        /\ \/ objects' = objects \ {job[t].prev} /\ UNCHANGED cut
           \/ /\ job[t].op # "avatar" /\ MayFail
              /\ cut' = cut \cup {job[t].prev}
              /\ UNCHANGED objects
  /\ UNCHANGED <<account, avatar, rows, folders, used, late, byHand, rivals>>

(***************************************************************************)
(* Rows of media_objects go with their album_photos and audios; a video    *)
(* outlives its media.                                                     *)
(***************************************************************************)
DeleteRows(set) ==
  /\ born' = [k \in Key |-> IF k \in set THEN 0 ELSE born[k]]
  /\ links' = {l \in links : l[2] \notin set}
  /\ tracks' = {k \in tracks : k \notin set \/ kind[k] = "video"}

DropRow(t) ==
  /\ stage[t] = "dropRow"
  /\ DeleteRows({job[t].prev})
  /\ Replaced(t)
  /\ UNCHANGED <<account, avatar, objects, kind, folders, used, doubts>>

(***************************************************************************)
(* A conversion removes the SVG if it is still there: a newer row may have *)
(* been taken for the previous avatar.  Its row stays then.                *)
(***************************************************************************)
SweepSvg(t) ==
  /\ stage[t] = "sweep"
  /\ \/ /\ objects' = objects \ job[t].keys
        /\ cut' = cut \cup (job[t].keys \cap objects)
     \/ MayFail /\ UNCHANGED <<objects, cut>>
  /\ End(t)
  /\ UNCHANGED <<account, avatar, rows, folders, used, late, byHand, rivals>>

-----------------------------------------------------------------------------
(***************************************************************************)
(* Deletions.  delete_photo takes any of the user's media, whatever its    *)
(* kind and whether or not it is in the album named.                       *)
(***************************************************************************)
BeginDelete(t, op, k, a) ==
  /\ stage[t] = "idle" /\ account
  /\ op \in Ops
  /\ \/ op = "deletePhoto" /\ albums # {} /\ k \in Rows /\ a = Nil
     \/ op = "deleteTrack" /\ k \in tracks /\ a = Nil
     \/ op = "deleteAlbum" /\ k = Nil /\ a \in albums
     \/ op = "deleteAccount" /\ k = Nil /\ a = Nil
  /\ job' = [job EXCEPT ![t] = [NoJob EXCEPT !.op = op, !.album = a, !.key = k,
                                             !.keys = {k} \cap Rows]]
  /\ Proceed(t, IF k = Nil THEN "keys" ELSE "deleteObjects")
  /\ UNCHANGED <<account, avatar, objects, rows, folders, used, doubts>>

AttachedTo(a) == {l[2] : l \in {m \in links : m[1] = a}}

StorageKeys(t) ==
  /\ stage[t] = "keys"
  /\ job' = [job EXCEPT ![t].keys =
               IF job[t].op = "deleteAlbum" THEN AttachedTo(job[t].album) ELSE Rows]
  /\ Proceed(t, "deleteObjects")
  /\ UNCHANGED <<account, avatar, objects, rows, folders, used, doubts>>

(***************************************************************************)
(* delete_keys, in no particular order; an object that is gone already is  *)
(* no error.                                                               *)
(***************************************************************************)
DeleteObject(t, k) ==
  /\ stage[t] = "deleteObjects"
  /\ k \in job[t].keys \cap objects
  /\ objects' = objects \ {k}
  /\ byHand' = byHand \cup {j \in {k} : kind[j] \in {"avatar", "svg"}}
  /\ UNCHANGED <<account, avatar, rows, folders, used, stage, job, cut, late, rivals>>

ObjectsDeleted(t) ==
  /\ stage[t] = "deleteObjects"
  /\ job[t].keys \cap objects = {}
  /\ Continue(t, CASE job[t].op = "deletePhoto" -> "deleteRow"
                   [] job[t].op = "deleteTrack" -> "deleteTrack"
                   [] job[t].op = "deleteAlbum" -> "links"
                   [] job[t].op = "deleteAccount" -> "deleteAccount")
  /\ UNCHANGED <<account, avatar, objects, rows, folders, used, doubts>>

DeleteRow(t) ==
  /\ stage[t] = "deleteRow"
  /\ DeleteRows({job[t].key})
  /\ End(t)
  /\ UNCHANGED <<account, avatar, objects, kind, folders, used, doubts>>

(* Mistake: delete_audio and delete_video leave the row of the media. *)
DeleteTrackOnly(t) ==
  /\ stage[t] = "deleteTrack"
  /\ tracks' = tracks \ {job[t].key}
  /\ End(t)
  /\ UNCHANGED <<account, avatar, objects, born, kind, folders, links, used, doubts>>

(***************************************************************************)
(* delete_audio_row and delete_video_row look for the track again, delete  *)
(* it, and then delete its media.                                          *)
(***************************************************************************)
DeleteTrack(t) ==
  /\ stage[t] = "deleteTrack"
  /\ tracks' = tracks \ {job[t].key}
  /\ IF job[t].key \in tracks THEN Continue(t, "deleteRow") ELSE End(t)
  /\ UNCHANGED <<account, avatar, objects, born, kind, folders, links, used, doubts>>

(***************************************************************************)
(* delete_album_row reads the links again, then deletes the album and the  *)
(* media it read in one transaction.                                       *)
(***************************************************************************)
AlbumLinks(t) ==
  /\ stage[t] = "links"
  /\ job' = [job EXCEPT ![t].keys = AttachedTo(job[t].album)]
  /\ Proceed(t, "deleteAlbum")
  /\ UNCHANGED <<account, avatar, objects, rows, folders, used, doubts>>

DeleteAlbum(t) ==
  /\ stage[t] = "deleteAlbum"
  /\ albums' = albums \ {job[t].album}
  /\ born' = [k \in Key |-> IF k \in job[t].keys THEN 0 ELSE born[k]]
  /\ links' = {l \in links : l[2] \notin job[t].keys /\ l[1] # job[t].album}
  /\ End(t)
  /\ UNCHANGED <<account, avatar, objects, kind, made, tracks, used, doubts>>

(***************************************************************************)
(* DELETE FROM users takes every row of the user with it.                  *)
(***************************************************************************)
DeleteAccount(t) ==
  /\ stage[t] = "deleteAccount"
  /\ account' = FALSE /\ avatar' = Nil
  /\ born' = [k \in Key |-> 0]
  /\ albums' = {} /\ links' = {} /\ tracks' = {}
  /\ End(t)
  /\ UNCHANGED <<objects, kind, made, used, doubts>>

-----------------------------------------------------------------------------
(***************************************************************************)
(* The request fails or its task is dropped; a call to the bucket that     *)
(* fails may have had its effect or not.                                   *)
(***************************************************************************)
KeysOf(t) == ({job[t].key, job[t].prev} \cup job[t].keys) \ {Nil}

CutOff(t) ==
  /\ stage[t] # "idle" /\ MayFail
  /\ cut' = cut \cup KeysOf(t)
  /\ End(t)
  /\ UNCHANGED <<account, avatar, objects, rows, folders, used, late, byHand, rivals>>

MediaStep(t) ==
  \/ FindAvatar(t) \/ Put(t) \/ InsertRow(t) \/ Cleanup(t) \/ SetAvatarKey(t)
  \/ DefaultAlbum(t) \/ NewAlbum(t) \/ AttachPhoto(t) \/ InsertTrack(t)
  \/ DropPrevious(t) \/ DropRow(t)
  \/ BeginConvert(t) \/ ReadSvg(t) \/ SweepSvg(t)
  \/ StorageKeys(t) \/ ObjectsDeleted(t) \/ DeleteRow(t) \/ DeleteTrack(t)
  \/ AlbumLinks(t) \/ DeleteAlbum(t) \/ DeleteAccount(t) \/ CutOff(t)

MediaNext ==
  \/ \E t \in Task, op \in Ops, a \in Album \cup {Nil} : BeginUpload(t, op, a)
  \/ \E t \in Task, op \in Ops, k \in Key \cup {Nil}, a \in Album \cup {Nil} :
       BeginDelete(t, op, k, a)
  \/ \E t \in Task, k \in Key : DeleteObject(t, k)
  \/ \E t \in Task : MediaStep(t)
  \/ CreateAlbum

MediaSpec == MediaInit /\ [][MediaNext]_mediaVars

-----------------------------------------------------------------------------
Label ==
  {"idle", "previous", "put", "row", "cleanup", "setKey", "album", "newAlbum",
   "attach", "track", "dropPrevious", "dropRow", "read", "sweep", "keys", "deleteObjects",
   "deleteRow", "deleteTrack", "links", "deleteAlbum", "deleteAccount"}

Job == [op : Ops \cup {Nil}, key : Key \cup {Nil}, album : Album \cup {Nil},
        prev : Key \cup {Nil}, keys : SUBSET Key]

(***************************************************************************)
(* The types, and what the foreign keys say.                               *)
(***************************************************************************)
MediaTypeOK ==
  /\ account \in BOOLEAN /\ avatar \in Key \cup {Nil}
  /\ objects \in SUBSET Key /\ used \in SUBSET Key
  /\ born \in [Key -> Nat]
  /\ kind \in [Key -> {"avatar", "svg", "photo", "audio", "video", Nil}]
  /\ made \in 0 .. MaxAlbums /\ albums \in SUBSET (1 .. made)
  /\ links \in SUBSET (albums \X Rows)
  /\ tracks \in SUBSET Key /\ \A k \in tracks : kind[k] = "audio" => k \in Rows
  /\ stage \in [Task -> Label] /\ job \in [Task -> Job]
  /\ cut \in SUBSET Key /\ late \in SUBSET Key /\ byHand \in SUBSET Key
  /\ rivals \in BOOLEAN

InHand == UNION {KeysOf(t) : t \in Task}

(***************************************************************************)
(* What Postgres lists the bucket has: a row that no request is working on *)
(* names an object that is there, unless a request was cut off in between, *)
(* or the photo was attached while its album was going.                    *)
(***************************************************************************)
RowsHaveObjects == Rows \ (InHand \cup cut \cup late) \subseteq objects

(***************************************************************************)
(* No object is left in the bucket that no row names and no deletion will  *)
(* ever find, but for the two races the code does not close: a row that is *)
(* inserted, or a photo that is attached, while the account or the album   *)
(* is on its way out, and a request that is cut off.                       *)
(***************************************************************************)
OrphansOnlyFromRaces == objects \subseteq Rows \cup InHand \cup cut \cup late

(***************************************************************************)
(* The avatar on a profile is an object the bucket has: neither replacing  *)
(* it nor a cut in the middle of that leaves the profile with a key that   *)
(* is gone.  Two requests at once do, and so does the user who deletes the *)
(* avatar among the photos.                                                *)
(***************************************************************************)
AvatarServed ==
  avatar # Nil /\ ~rivals /\ avatar \notin byHand => avatar \in objects
=============================================================================
