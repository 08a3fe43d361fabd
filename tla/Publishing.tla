---------------------------- MODULE Publishing ----------------------------
(***************************************************************************)
(* Publishing an activity from the web client: ActivityComposer.tsx, the   *)
(* optimistic post of optimisticActivity.ts, publishActivity in            *)
(* useProductStore.ts and the uploads of apiClient.ts.                     *)
(*                                                                         *)
(* The composer closes when the optimistic post is in the store; a task    *)
(* uploads its files, all at once, and creates it on the server.  The task *)
(* ends with the page, the persisted store does not.                       *)
(***************************************************************************)
EXTENDS Naturals, FiniteSets

CONSTANTS
    Files,          \* the files a user may choose, a recording among them
    Recording,      \* the file a recorder makes
    MaxMedia,       \* MAX_MEDIA_FILES
    Attempts,       \* the attempts of an upload: three
    Posts           \* Bound: the posts of a behaviour

ASSUME PublishingAssumption ==
    Recording \in Files /\ MaxMedia \in Nat /\ Attempts \in Nat \ {0}

ASSUME NoPostAssumption == "no post" \notin Files

VARIABLES
    composing,      \* the composer is open
    hasText,        \* its text is not blank
    mediaItems,     \* its selected files
    recorder,       \* what its recorder does
    recorderSaw,    \* the selected files when the recording was asked for
    previews,       \* the files whose preview URL is not revoked
    posts,          \* the store's activities that come from here, with their files
    delivery,       \* their deliveryStatus; "none" for one that is not in the store
    uploads,        \* of the task of a post: the attempts left of each file
    backingOff,     \* the uploads that wait for their next attempt, by post and file
    tasked,         \* the posts whose task runs
    created         \* the activities the server has, with their files

publishingVars == <<composing, hasText, mediaItems, recorder, recorderSaw, previews, posts,
    delivery, uploads, backingOff, tasked, created>>
composerVars == <<composing, hasText, mediaItems, recorder, recorderSaw, previews>>
taskVars == <<posts, delivery, uploads, backingOff, tasked, created>>

NoPost == {"no post"}
Rejected == 0
Accepted == Attempts + 1
Deliveries == {"none", "uploading", "published", "failed"}

PublishingTypeOK ==
    /\ composing \in BOOLEAN /\ hasText \in BOOLEAN
    /\ mediaItems \subseteq Files /\ Cardinality(mediaItems) <= MaxMedia
    /\ recorder \in {"idle", "asking", "recording"} /\ recorderSaw \subseteq Files
    /\ previews \subseteq Files
    /\ DOMAIN posts = Posts /\ \A p \in Posts : posts[p] = NoPost \/ posts[p] \subseteq Files
    /\ delivery \in [Posts -> Deliveries]
    /\ DOMAIN uploads = Posts
    /\ \A p \in Posts : DOMAIN uploads[p] \subseteq Files
                        /\ \A f \in DOMAIN uploads[p] : uploads[p][f] \in Rejected..Accepted
    /\ backingOff \subseteq Posts \X Files /\ tasked \subseteq Posts
    /\ DOMAIN created \subseteq Posts /\ \A p \in DOMAIN created : created[p] \subseteq Files

NoUploads == [f \in {} |-> 0]

PublishingInit ==
    /\ composing = FALSE /\ hasText = FALSE /\ mediaItems = {}
    /\ recorder = "idle" /\ recorderSaw = {} /\ previews = {}
    /\ posts = [p \in Posts |-> NoPost] /\ delivery = [p \in Posts |-> "none"]
    /\ uploads = [p \in Posts |-> NoUploads] /\ backingOff = {} /\ tasked = {}
    /\ created = [p \in {} |-> {}]

(***************************************************************************)
(* The composer.                                                           *)
(***************************************************************************)
OpenComposer ==
    /\ ~composing /\ composing' = TRUE
    /\ hasText' = FALSE /\ mediaItems' = {}
    /\ UNCHANGED <<recorder, recorderSaw, previews, taskVars>>

\* The form and its button: it waits for content and for a recording to end.
HasContent == hasText \/ mediaItems # {}
CanPublish == composing /\ recorder # "recording" /\ HasContent

WriteText(written) ==
    /\ composing /\ hasText # written /\ hasText' = written
    /\ UNCHANGED <<composing, mediaItems, recorder, recorderSaw, previews, taskVars>>

\* selectMedia adds to the files its caller saw, which are not always those there are;
\* without a composer the preview is made all the same.
SelectMedia(file, saw) ==
    LET accepted == Cardinality(saw) < MaxMedia
    IN  /\ mediaItems' = IF accepted /\ composing THEN saw \union {file} ELSE mediaItems
        /\ previews' = IF accepted THEN previews \union {file} ELSE previews

ChooseFile(file) ==
    /\ composing /\ file \in Files \ ({Recording} \union mediaItems)
    /\ SelectMedia(file, mediaItems)
    /\ UNCHANGED <<composing, hasText, recorder, recorderSaw, taskVars>>

RemoveMedia(file) ==
    /\ composing /\ file \in mediaItems
    /\ mediaItems' = mediaItems \ {file} /\ previews' = previews \ {file}
    /\ UNCHANGED <<composing, hasText, recorder, recorderSaw, taskVars>>

\* toggleRecording, and the answer of the microphone.
AskRecording ==
    /\ composing /\ recorder = "idle" /\ Recording \notin mediaItems
    /\ recorder' = "asking" /\ recorderSaw' = mediaItems
    /\ UNCHANGED <<composing, hasText, mediaItems, previews, taskVars>>

MicrophoneAnswer(allowed) ==
    /\ recorder = "asking"
    /\ recorder' = IF allowed THEN "recording" ELSE "idle"
    /\ UNCHANGED <<composing, hasText, mediaItems, recorderSaw, previews, taskVars>>

\* The button, or the tracks that the closing composer stopped.
RecorderStops ==
    /\ recorder = "recording" /\ recorder' = "idle"
    /\ SelectMedia(Recording, recorderSaw)
    /\ UNCHANGED <<composing, hasText, recorderSaw, taskVars>>

\* Closing revokes the previews of what is selected.
Closes == composing' = FALSE /\ hasText' = FALSE /\ mediaItems' = {} /\ previews' = previews \ mediaItems

CloseComposer ==
    composing /\ Closes /\ UNCHANGED <<recorder, recorderSaw, taskVars>>

(***************************************************************************)
(* The optimistic post and its task.                                       *)
(***************************************************************************)
\* createOptimisticActivity, publishActivity up to its task, onPublished.
Publish(p) ==
    /\ CanPublish /\ posts[p] = NoPost
    /\ posts' = [posts EXCEPT ![p] = mediaItems]
    /\ delivery' = [delivery EXCEPT ![p] = "uploading"]
    /\ uploads' = [uploads EXCEPT ![p] = [f \in mediaItems |-> Attempts]]
    /\ tasked' = tasked \union {p}
    /\ Closes
    /\ UNCHANGED <<recorder, recorderSaw, backingOff, created>>

Uploading(p, f) ==
    /\ p \in tasked /\ f \in DOMAIN uploads[p] /\ <<p, f>> \notin backingOff
    /\ uploads[p][f] \notin {Rejected, Accepted}

UploadAnswered(p, f, result) ==
    /\ uploads' = [uploads EXCEPT ![p][f] = result]
    /\ UNCHANGED <<composerVars, posts, delivery, tasked, created>>

BackoffEnds(p, f) ==
    /\ <<p, f>> \in backingOff /\ backingOff' = backingOff \ {<<p, f>>}
    /\ UNCHANGED <<composerVars, posts, delivery, uploads, tasked, created>>

Uploaded(p, f) ==
    Uploading(p, f) /\ UploadAnswered(p, f, Accepted) /\ UNCHANGED backingOff

\* Faulty: the attempts are not counted.
AttemptLeftAlways(left) == left

\* What is left after an attempt that the server or the network failed.
AttemptLeft(left) == left - 1

UploadRetried(p, f) ==
    LET left == AttemptLeft(uploads[p][f])
    IN  /\ Uploading(p, f) /\ UploadAnswered(p, f, left)
        /\ backingOff' = IF left = Rejected THEN backingOff ELSE backingOff \union {<<p, f>>}

\* An answer under 500 is not tried again.
UploadRefused(p, f) ==
    Uploading(p, f) /\ UploadAnswered(p, f, Rejected) /\ UNCHANGED backingOff

Delivered(p, status) ==
    /\ delivery' = [delivery EXCEPT ![p] = IF delivery[p] = "none" THEN "none" ELSE status]
    /\ tasked' = tasked \ {p} /\ uploads' = [uploads EXCEPT ![p] = NoUploads]
    /\ backingOff' = {b \in backingOff : b[1] # p}
    /\ UNCHANGED <<composerVars, posts>>

\* Faulty: the activity is created when every upload has ended.
MediaReadySettled(p) == \A f \in DOMAIN uploads[p] : uploads[p][f] \in {Rejected, Accepted}

\* Promise.all of the uploads.
MediaReady(p) == \A f \in DOMAIN uploads[p] : uploads[p][f] = Accepted
UploadedOf(p) == {f \in DOMAIN uploads[p] : uploads[p][f] = Accepted}
Created(p) == created' = [q \in DOMAIN created \union {p} |-> IF q = p THEN UploadedOf(p) ELSE created[q]]

CreateActivity(p) ==
    p \in tasked /\ MediaReady(p) /\ Created(p) /\ Delivered(p, "published")

\* The first file that is rejected ends the task's wait.
DeliveryFails(p) ==
    /\ p \in tasked /\ \E f \in DOMAIN uploads[p] : uploads[p][f] = Rejected
    /\ Delivered(p, "failed") /\ UNCHANGED created

\* createActivity fails; the server may have created it.
CreationFails(p) ==
    /\ p \in tasked /\ MediaReady(p)
    /\ Created(p) \/ UNCHANGED created
    /\ Delivered(p, "failed")

\* A whole cosmos from the server takes the place of the store's activities.
CosmosReplaces ==
    /\ \E p \in Posts : delivery[p] # "none"
    /\ delivery' = [p \in Posts |-> "none"]
    /\ UNCHANGED <<composerVars, posts, uploads, backingOff, tasked, created>>

\* Faulty: every activity is persisted.
PersistedAlways(p) == TRUE

\* partialize leaves out what was on its way, and what failed.
Persisted(p) == delivery[p] = "published"

\* The page is loaded again.
ReloadPage ==
    /\ composing \/ tasked # {} \/ recorder # "idle"
    /\ delivery' = [p \in Posts |-> IF Persisted(p) THEN delivery[p] ELSE "none"]
    /\ tasked' = {} /\ uploads' = [p \in Posts |-> NoUploads] /\ backingOff' = {}
    /\ composing' = FALSE /\ hasText' = FALSE /\ mediaItems' = {} /\ previews' = {}
    /\ recorder' = "idle" /\ recorderSaw' = {}
    /\ UNCHANGED <<posts, created>>

TaskStep(p) ==
    \/ \E f \in DOMAIN uploads[p] : Uploaded(p, f) \/ UploadRetried(p, f) \/ UploadRefused(p, f)
                                \/ BackoffEnds(p, f)
    \/ CreateActivity(p) \/ DeliveryFails(p) \/ CreationFails(p)

PublishingNext ==
    \/ OpenComposer \/ CloseComposer \/ RecorderStops \/ AskRecording
    \/ \E flag \in BOOLEAN : WriteText(flag) \/ MicrophoneAnswer(flag)
    \/ \E f \in Files : ChooseFile(f) \/ RemoveMedia(f)
    \/ \E p \in Posts : Publish(p) \/ TaskStep(p)
    \/ CosmosReplaces \/ ReloadPage

\* Requests are answered or fail, one attempt after the other.
PublishingFairness == \A p \in Posts : WF_publishingVars(TaskStep(p))

PublishingSpec == PublishingInit /\ [][PublishingNext]_publishingVars /\ PublishingFairness

(***************************************************************************)
(* Properties.                                                             *)
(***************************************************************************)

\* A post that the store shows as uploading is being uploaded: a page that was loaded
\* again, or a cosmos that came meanwhile, leaves none that waits for ever.
UploadingIsTasked == \A p \in Posts : delivery[p] = "uploading" => p \in tasked

\* What the server has of a post has every file that was chosen for it, and a post
\* that is shown as published is on the server.
CreatedComplete ==
    /\ \A p \in DOMAIN created : created[p] = posts[p]
    /\ \A p \in Posts : delivery[p] = "published" => p \in DOMAIN created

\* Every upload ends.
DeliverySettles == \A p \in Posts : delivery[p] = "uploading" ~> delivery[p] # "uploading"
=============================================================================
