------------------------------- MODULE Media -------------------------------
(***************************************************************************)
(* Uploaded media and what uses them: apps/mediafiles/views.py, the        *)
(* attachments of messages (apps/messaging/serializers.py) and the stories *)
(* (apps/stories).                                                         *)
(*                                                                         *)
(* A request is a few statements without a transaction; between them it    *)
(* writes files or calls the object store, and it goes on with the row it  *)
(* read first.  A deployment keeps files either on its disk or in a bucket *)
(* to which the client uploads with a signed URL.  All requests are those  *)
(* of the owner; a refused one writes nothing and is no step.  One that    *)
(* fails between two statements leaves what the first ones did.            *)
(***************************************************************************)
EXTENDS Naturals

CONSTANTS Media,        \* the media that may be uploaded
          Stories,      \* the stories that may be created
          NoMedia,
          Uploaders,    \* the threads that serve requests
          MaxCalls      \* bound: requests started

ASSUME MediaAssumption == NoMedia \notin Media

VARIABLES useS3,        \* the setting USE_S3
          media,        \* uploaded_media
          objects,      \* the files on the disk or in the bucket
          urls,         \* the media with a valid signed URL for the upload
          attached,     \* the media that are attachments of a message
          story,        \* stories
          call,         \* the request each thread serves
          calls,        \* how many requests started
          mishaps       \* what has gone wrong with media, see Mishaps

mediaVars == <<useS3, media, objects, urls, attached, story, call, calls, mishaps>>

Status == {"none", "pending", "uploaded", "failed"}
MediaRow == [status : Status, key : BOOLEAN, thumb : BOOLEAN]
NoRowYet == [status |-> "none", key |-> FALSE, thumb |-> FALSE]

Story == [media : Media \cup {NoMedia}, active : BOOLEAN, expired : BOOLEAN]
NoStory == [media |-> NoMedia, active |-> FALSE, expired |-> FALSE]

MediaKinds == {"image", "video", "other"}
Uses == {"attach", "story"}
Call == [op : MediaKinds \cup Uses \cup {"complete", "delete"},
         pc : {"picture", "row", "thumbnail", "store", "save",
               "head", "uploaded", "failed", "files", "thumbs"},
         media : Media, seen : MediaRow]
Free == [op |-> "none", pc |-> "done", media |-> NoMedia, seen |-> NoRowYet]

\* "used", "filmed": a deletion and a request that uses the media, or the
\* upload of a video, were in progress together.  "revived": a completion saved
\* its status after a deletion had emptied the key.  "halfDeleted": a deletion
\* failed after it had deleted the file.  "unsaved": an upload failed after it
\* had stored a file and before a row named it.
Mishaps == {"used", "filmed", "revived", "halfDeleted", "unsaved"}

MediaInit == /\ useS3 \in BOOLEAN
             /\ media = [m \in Media |-> NoRowYet]
             /\ objects = {}
             /\ urls = {}
             /\ attached = {}
             /\ story = [s \in Stories |-> NoStory]
             /\ call = [u \in Uploaders |-> Free]
             /\ calls = 0
             /\ mishaps = {}

-----------------------------------------------------------------------------

File(m) == <<m, "file">>
Thumb(m) == <<m, "thumb">>

\* media.message_attachments.exists() or an active story: the attachments of
\* deleted messages count, and stories until they are deactivated.
InUse(m) == \/ m \in attached
            \/ \E s \in Stories : story[s].active /\ story[s].media = m

On(m) == {u \in Uploaders : call[u].media = m}

\* One of the requests for m and the new one delete it, the other is one of ops.
Meets(op, m, ops) == \E v \in On(m) : \/ op = "delete" /\ call[v].op \in ops
                                      \/ call[v].op = "delete" /\ op \in ops

Begin(u, op, pc, m) ==
  /\ call[u] = Free
  /\ calls < MaxCalls
  /\ calls' = calls + 1
  /\ call' = [call EXCEPT ![u] = [op |-> op, pc |-> pc, media |-> m, seen |-> media[m]]]
  /\ mishaps' = mishaps \cup (IF Meets(op, m, Uses) THEN {<<m, "used">>} ELSE {})
                         \cup (IF Meets(op, m, {"video"}) THEN {<<m, "filmed">>} ELSE {})

At(u, op, pc) == call[u].op = op /\ call[u].pc = pc
Proceed(u, pc) == call' = [call EXCEPT ![u].pc = pc]
Finish(u) == call' = [call EXCEPT ![u] = Free]

-----------------------------------------------------------------------------
(* Uploads *)

\* LocalMediaUploadAPIView: the file under a key of its own ...
BeginLocalUpload(u, m, kind) ==
  /\ ~useS3
  /\ media[m].status = "none" /\ On(m) = {} /\ File(m) \notin objects
  /\ Begin(u, kind, IF kind = "image" THEN "picture" ELSE "row", m)
  /\ objects' = objects \cup {File(m)}
  /\ UNCHANGED <<useS3, media, urls, attached, story>>

\* ... with the thumbnail, if it is an image, ...
StorePicture(u) ==
  /\ At(u, "image", "picture")
  /\ objects' = objects \cup {Thumb(call[u].media)}
  /\ Proceed(u, "row")
  /\ UNCHANGED <<useS3, media, urls, attached, story, calls, mishaps>>

\* ... and then the row.
CreateUploaded(u) ==
  LET m == call[u].media
  IN  /\ call[u].op \in MediaKinds /\ call[u].pc = "row"
      /\ media' = [media EXCEPT ![m] = [status |-> "uploaded", key |-> TRUE,
                                        thumb |-> call[u].op = "image"]]
      /\ IF call[u].op = "video" THEN Proceed(u, "thumbnail") ELSE Finish(u)
      /\ UNCHANGED <<useS3, objects, urls, attached, story, calls, mishaps>>

\* create_video_thumbnail: ffmpeg reads the file, unless it is gone; ...
ReadVideo(u) ==
  /\ At(u, "video", "thumbnail")
  /\ \/ File(call[u].media) \in objects /\ Proceed(u, "store")
     \/ Finish(u)
  /\ UNCHANGED <<useS3, media, objects, urls, attached, story, calls, mishaps>>

\* ... its picture is stored ...
StoreThumbnail(u) ==
  /\ At(u, "video", "store")
  /\ objects' = objects \cup {Thumb(call[u].media)}
  /\ Proceed(u, "save")
  /\ UNCHANGED <<useS3, media, urls, attached, story, calls, mishaps>>

\* ... and saved with the row that was created.
SaveThumbnail(u) ==
  /\ At(u, "video", "save")
  /\ media' = [media EXCEPT ![call[u].media].thumb = TRUE]
  /\ Finish(u)
  /\ UNCHANGED <<useS3, objects, urls, attached, story, calls, mishaps>>

\* MediaPresignAPIView: a row and a URL to upload with.
Presign(m) ==
  /\ useS3
  /\ media[m].status = "none"
  /\ calls < MaxCalls
  /\ calls' = calls + 1
  /\ media' = [media EXCEPT ![m] = [status |-> "pending", key |-> TRUE, thumb |-> FALSE]]
  /\ urls' = urls \cup {m}
  /\ UNCHANGED <<useS3, objects, attached, story, call, mishaps>>

PutObject(m) ==
  /\ m \in urls
  /\ objects' = objects \cup {File(m)}
  /\ UNCHANGED <<useS3, media, urls, attached, story, call, calls, mishaps>>

UrlExpires(m) ==
  /\ m \in urls
  /\ urls' = urls \ {m}
  /\ UNCHANGED <<useS3, media, objects, attached, story, call, calls, mishaps>>

\* MediaCompleteAPIView: the row, whatever its status (the object store
\* rejects an empty key with another exception).
BeginCompleteUpload(u, m) ==
  /\ useS3
  /\ media[m].key
  /\ Begin(u, "complete", "head", m)
  /\ UNCHANGED <<useS3, media, objects, urls, attached, story>>

\* Mutant of HeadObject: an answer of the store is taken for the object.
HeadObjectAnyway(u) ==
  /\ At(u, "complete", "head")
  /\ Proceed(u, "uploaded")
  /\ UNCHANGED <<useS3, media, objects, urls, attached, story, calls, mishaps>>

\* The store says that the object is there, or fails for whatever reason.
HeadObject(u) ==
  /\ At(u, "complete", "head")
  /\ \/ File(call[u].media) \in objects /\ Proceed(u, "uploaded")
     \/ Proceed(u, "failed")
  /\ UNCHANGED <<useS3, media, objects, urls, attached, story, calls, mishaps>>

\* The status is saved and nothing else.
SaveComplete(u) ==
  /\ call[u].op = "complete" /\ call[u].pc \in {"uploaded", "failed"}
  /\ media' = [media EXCEPT ![call[u].media].status = call[u].pc]
  /\ mishaps' = IF call[u].pc = "uploaded" /\ ~media[call[u].media].key
                THEN mishaps \cup {<<call[u].media, "revived">>} ELSE mishaps
  /\ Finish(u)
  /\ UNCHANGED <<useS3, objects, urls, attached, story, calls>>

-----------------------------------------------------------------------------
(* Deletion *)

\* Mutant of BeginDelete: only the attachments are looked at.
BeginDeleteUnattached(u, m) ==
  /\ media[m].status # "none"
  /\ m \notin attached
  /\ Begin(u, "delete", "files", m)
  /\ UNCHANGED <<useS3, media, objects, urls, attached, story>>

\* MediaDetailAPIView.delete: the row and whether anything uses it.
BeginDelete(u, m) ==
  /\ media[m].status # "none"
  /\ ~InUse(m)
  /\ Begin(u, "delete", "files", m)
  /\ UNCHANGED <<useS3, media, objects, urls, attached, story>>

\* Mutant of FilesOf: the thumbnail is forgotten.
FileOnly(m, row) == IF row.key THEN {File(m)} ELSE {}

\* The files the row names.
FilesOf(m, row) == {f \in {File(m), Thumb(m)} : \/ f = File(m) /\ row.key
                                                \/ f = Thumb(m) /\ row.thumb}

\* Files are deleted from the disk, never from the bucket: first the file, ...
DeleteFile(u) ==
  LET m == call[u].media
  IN  /\ At(u, "delete", "files")
      /\ objects' = IF useS3 THEN objects ELSE objects \ ({File(m)} \cap FilesOf(m, call[u].seen))
      /\ Proceed(u, "thumbs")
      /\ UNCHANGED <<useS3, media, urls, attached, story, calls, mishaps>>

\* ... then the thumbnail.
DeleteThumbnail(u) ==
  LET m == call[u].media
  IN  /\ At(u, "delete", "thumbs")
      /\ objects' = IF useS3 THEN objects ELSE objects \ ({Thumb(m)} \cap FilesOf(m, call[u].seen))
      /\ Proceed(u, "row")
      /\ UNCHANGED <<useS3, media, urls, attached, story, calls, mishaps>>

SaveDeleted(u) ==
  /\ At(u, "delete", "row")
  /\ media' = [media EXCEPT ![call[u].media] =
                 [status |-> "failed", key |-> FALSE, thumb |-> FALSE]]
  /\ Finish(u)
  /\ UNCHANGED <<useS3, objects, urls, attached, story, calls, mishaps>>

-----------------------------------------------------------------------------
(* Use: messages with attachments, stories *)

\* _resolve_uploaded_media, StoryCreateSerializer.validate: uploaded media.
BeginUseMedia(u, op, m) ==
  /\ op \in Uses
  /\ media[m].status = "uploaded"
  /\ Begin(u, op, "save", m)
  /\ UNCHANGED <<useS3, media, objects, urls, attached, story>>

\* MessageCreateSerializer.create: the attachment of the message.
Attach(u) ==
  /\ At(u, "attach", "save")
  /\ attached' = attached \cup {call[u].media}
  /\ Finish(u)
  /\ UNCHANGED <<useS3, media, objects, urls, story, calls, mishaps>>

CreateStory(u, s) ==
  /\ At(u, "story", "save")
  /\ story[s] = NoStory
  /\ story' = [story EXCEPT ![s] = [media |-> call[u].media, active |-> TRUE,
                                    expired |-> FALSE]]
  /\ Finish(u)
  /\ UNCHANGED <<useS3, media, objects, urls, attached, calls, mishaps>>

\* StoryDetailAPIView.delete
DeleteStory(s) ==
  /\ story[s].active
  /\ story' = [story EXCEPT ![s].active = FALSE]
  /\ UNCHANGED <<useS3, media, objects, urls, attached, call, calls, mishaps>>

StoryExpires(s) ==
  /\ story[s].media # NoMedia /\ ~story[s].expired
  /\ story' = [story EXCEPT ![s].expired = TRUE]
  /\ UNCHANGED <<useS3, media, objects, urls, attached, call, calls, mishaps>>

\* The command delete_expired_stories.
DeleteExpiredStories ==
  /\ \E s \in Stories : story[s].active /\ story[s].expired
  /\ story' = [s \in Stories |-> IF story[s].expired
                                 THEN [story[s] EXCEPT !.active = FALSE] ELSE story[s]]
  /\ UNCHANGED <<useS3, media, objects, urls, attached, call, calls, mishaps>>

\* A statement or the disk fails, which the upload and create_video_thumbnail
\* catch without deleting what they have stored, or the thread dies.
Fails(u) ==
  /\ call[u] # Free
  /\ mishaps' = mishaps \cup
       {<<call[u].media, x>> : x \in
          {y \in {"unsaved", "halfDeleted"} :
             \/ y = "unsaved" /\ call[u].op \in MediaKinds
                              /\ call[u].pc \in {"picture", "row", "save"}
             \/ y = "halfDeleted" /\ call[u].op = "delete" /\ call[u].pc # "files" /\ ~useS3}}
  /\ Finish(u)
  /\ UNCHANGED <<useS3, media, objects, urls, attached, story, calls>>

MediaStep(u) ==
  \/ \E m \in Media : \/ \E k \in MediaKinds : BeginLocalUpload(u, m, k)
                      \/ BeginCompleteUpload(u, m)
                      \/ BeginDelete(u, m)
                      \/ \E op \in Uses : BeginUseMedia(u, op, m)
  \/ StorePicture(u)
  \/ CreateUploaded(u)
  \/ ReadVideo(u)
  \/ StoreThumbnail(u)
  \/ SaveThumbnail(u)
  \/ HeadObject(u)
  \/ SaveComplete(u)
  \/ DeleteFile(u)
  \/ DeleteThumbnail(u)
  \/ SaveDeleted(u)
  \/ Attach(u)
  \/ \E s \in Stories : CreateStory(u, s)
  \/ Fails(u)

MediaNext ==
  \/ \E u \in Uploaders : MediaStep(u)
  \/ \E m \in Media : Presign(m) \/ PutObject(m) \/ UrlExpires(m)
  \/ \E s \in Stories : DeleteStory(s) \/ StoryExpires(s)
  \/ DeleteExpiredStories

-----------------------------------------------------------------------------
(* Properties *)

\* The tables, the files and the requests have their types.
MediaTypeOK ==
  /\ useS3 \in BOOLEAN
  /\ media \in [Media -> MediaRow]
  /\ objects \subseteq Media \X {"file", "thumb"}
  /\ urls \subseteq Media
  /\ attached \subseteq Media
  /\ story \in [Stories -> Story]
  /\ call \in [Uploaders -> Call \cup {Free}]
  /\ calls \in Nat
  /\ mishaps \subseteq Media \X Mishaps

\* MediaDownloadAPIView: uploaded media is served from its file or its key.
Served(m) == media[m].status = "uploaded"

Deleting(m) == \E u \in On(m) : call[u].op = "delete"

\* Nothing of what happened to m is in this list.
Spared(m, list) == \A x \in list : <<m, x>> \notin mishaps

\* What a message or an active story shows is not deleted: the row keeps its
\* key and the object exists.  Only a deletion that was in progress together
\* with the request that used the media, one that failed half-way, or a
\* completion that overtook a deletion before can take it away.
InUseIsKept ==
  \A m \in Media : InUse(m) /\ Spared(m, {"used", "revived", "halfDeleted"}) =>
                     media[m].key /\ File(m) \in objects

\* Media that is uploaded can be downloaded: its object exists.  Exceptions are
\* a deletion that is under way or failed half-way, and a completion that
\* saved its status after a deletion; a completion or a use that met a deletion
\* in any other order, and two deletions at once, change nothing.
UploadedHasObject ==
  \A m \in Media : Served(m) /\ ~Deleting(m) /\ Spared(m, {"revived", "halfDeleted"}) =>
                     media[m].key /\ File(m) \in objects

\* The disk keeps no file that no row names, once the requests are done: the
\* deletion of media removes its file and its thumbnail.  Exceptions are a
\* deletion that was in progress together with the upload of the video, whose
\* thumbnail it may not see, and an upload that failed after it had stored
\* a file and before the row named it.
NoOrphan ==
  ~useS3 => \A m \in Media : On(m) = {} /\ Spared(m, {"filmed", "unsaved"}) =>
              \A f \in {File(m), Thumb(m)} \cap objects : f \in FilesOf(m, media[m])

\* Media attached to a message is protected from deletion (mobile_api.md).
AttachedIsProtected == \A m \in attached : media[m].key

MediaSpec == MediaInit /\ [][MediaNext]_mediaVars
=============================================================================
