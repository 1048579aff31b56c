------------------------------- MODULE Media -------------------------------
(***************************************************************************)
(* The media routes: uploads, direct (POST /api/media) or presigned and    *)
(* confirmed, PATCH and DELETE of an asset and the folder operations, over *)
(* three stores that share no transaction: the asset rows, the blobs in    *)
(* the storage and the presign sessions in memory.                         *)
(*                                                                         *)
(* A request is a sequence of steps, one from each await to the next; in   *)
(* between, other requests run.  A step that throws, or the process when   *)
(* it dies, ends the request where it is (Fail), and nothing is undone.    *)
(* A row is named after the request that created it, the key of a direct   *)
(* upload after its request, the key of a presigned one after its session. *)
(* A session past its expiresAt is the same as none.                       *)
(***************************************************************************)
EXTENDS MediaFolders, Integers

CONSTANTS
    Requests,   \* upload, confirm, patch and delete requests
    Presigns,   \* the ids of presigned uploads
    NoMedia,    \* no asset, no key
    Quotas      \* which folders are made, requests sent and records edited

\* The collections with a media field, in the order in which DELETE looks for
\* references; each has one record, so that its list is one page.  (Beyond the first page
\* of an SQL adapter the walk leaves records out: WalkIsComplete of Paging.)
CONSTANT Collections

Docs == 1..Collections

Keys == Requests \cup Presigns

ASSUME MediaAssumption == /\ Requests \cap Presigns = {}
                          /\ NoMedia \notin Keys
                          /\ Collections \in Nat
                          /\ \A q \in Quotas : /\ q.folders \subseteq Folders
                                             /\ q.requests \subseteq Requests
                                             /\ q.records \subseteq Docs

VARIABLES
    media,          \* the asset rows: id -> [key, folder]
    blobs,          \* the keys in the storage
    sessions,       \* the presign sessions in memory
    presigned,      \* how far each presigned upload is
    refs,           \* the media field of each record
    req,            \* what each request is doing
    freshRequests,  \* the requests not sent yet
    edited          \* the records an editor works on, never changed

tree == <<folder, freshFolders>>
vars == <<tree, media, blobs, sessions, presigned, refs, req, freshRequests, edited>>

Request(kind, pc, f, k, m, kept) ==
    [kind |-> kind, pc |-> pc, folder |-> f, key |-> k, target |-> m,
     at |-> 1, found |-> {}, kept |-> kept]

Idle == Request("none", "idle", Null, NoMedia, NoMedia, {})

Go(r, pc) == req' = [req EXCEPT ![r].pc = pc]

Starts(r, how) == /\ r \in freshRequests
                  /\ freshRequests' = freshRequests \ {r}
                  /\ req' = [req EXCEPT ![r] = how]

-----------------------------------------------------------------------------
(* Presigned uploads, up to the confirmation. *)

Presign(k) == /\ presigned[k] = "none"
              /\ presigned' = [presigned EXCEPT ![k] = "issued"]
              /\ sessions' = sessions \cup {k}
              /\ UNCHANGED <<tree, media, blobs, refs, req, freshRequests, edited>>

\* The client sends the bytes to the storage, once, in its own time.
ClientPuts(k) == /\ presigned[k] = "issued"
                 /\ presigned' = [presigned EXCEPT ![k] = "sent"]
                 /\ blobs' = blobs \cup {k}
                 /\ UNCHANGED <<tree, media, sessions, refs, req, freshRequests, edited>>

\* The session has expired, or the process has been restarted.
Expire(k) == /\ k \in sessions
             /\ sessions' = sessions \ {k}
             /\ UNCHANGED <<tree, media, blobs, presigned, refs, req, freshRequests, edited>>

-----------------------------------------------------------------------------
(* POST /api/media, POST /api/media/confirm and PATCH, which begin alike:   *)
(* they look the folder up, if there is one.                                *)

AfterFolder(kind) == IF kind = "upload" THEN "put"
                     ELSE IF kind = "confirm" THEN "head" ELSE "update"

Upload(r, f) ==
    /\ Starts(r, Request("upload", IF f = Null THEN "put" ELSE "folder", f, r, NoMedia, {}))
    /\ UNCHANGED <<tree, media, blobs, sessions, presigned, refs, edited>>

Confirm(r, k, f) ==
    /\ k \in sessions
    /\ Starts(r, Request("confirm", IF f \in Roots THEN "head" ELSE "folder", f, k, NoMedia, {}))
    /\ UNCHANGED <<tree, media, blobs, sessions, presigned, refs, edited>>

Patch(r, m, f) ==
    /\ Starts(r, Request("patch", IF f = Null THEN "update" ELSE "folder", f, NoMedia, m, {}))
    /\ UNCHANGED <<tree, media, blobs, sessions, presigned, refs, edited>>

CheckFolder(r) ==
    /\ req[r].pc = "folder"
    /\ Go(r, IF Exists(req[r].folder) THEN AfterFolder(req[r].kind) ELSE "refused")
    /\ UNCHANGED <<tree, media, blobs, sessions, presigned, refs, freshRequests, edited>>

Put(r) == /\ req[r].pc = "put"
          /\ blobs' = blobs \cup {r}
          /\ Go(r, "create")
          /\ UNCHANGED <<tree, media, sessions, presigned, refs, freshRequests, edited>>

\* Mutant of ReadObject: the object is not looked for.
ReadObjectUnchecked(r) == /\ req[r].pc = "head"
                 /\ Go(r, "create")
                 /\ UNCHANGED <<tree, media, blobs, sessions, presigned, refs, freshRequests, edited>>

ReadObject(r) == /\ req[r].pc = "head"
           /\ Go(r, IF req[r].key \in blobs THEN "create" ELSE "refused")
           /\ UNCHANGED <<tree, media, blobs, sessions, presigned, refs, freshRequests, edited>>

CreateRow(r) ==
    /\ req[r].pc = "create"
    /\ media' = [m \in DOMAIN media \cup {r} |->
                   IF m = r THEN [key |-> req[r].key, folder |-> req[r].folder] ELSE media[m]]
    /\ Go(r, IF req[r].kind = "confirm" THEN "close" ELSE "emit")
    /\ UNCHANGED <<tree, blobs, sessions, presigned, refs, freshRequests, edited>>

CloseSession(r) == /\ req[r].pc = "close"
                   /\ sessions' = sessions \ {req[r].key}
                   /\ Go(r, "emit")
                   /\ UNCHANGED <<tree, media, blobs, presigned, refs, freshRequests, edited>>

Update(r) ==
    LET m == req[r].target IN
    /\ req[r].pc = "update"
    /\ Go(r, IF m \in DOMAIN media THEN "done" ELSE "refused")
    /\ media' = [n \in DOMAIN media |->
                   IF n = m THEN [media[n] EXCEPT !.folder = req[r].folder] ELSE media[n]]
    /\ UNCHANGED <<tree, blobs, sessions, presigned, refs, freshRequests, edited>>

-----------------------------------------------------------------------------
(* DELETE: the references first, then the row, then the blob. *)

\* `kept` is a history variable: the records that refer to the asset now and
\* have done so since the request began.
Delete(r, m) ==
    /\ Starts(r, Request("delete", "scan", Null, NoMedia, m, {d \in Docs : refs[d] = m}))
    /\ UNCHANGED <<tree, media, blobs, sessions, presigned, refs, edited>>

\* Mutant of Scan: what an earlier collection gave is forgotten.
ScanForgets(r) ==
    LET d == req[r].at IN
    /\ req[r].pc = "scan" /\ d \in Docs
    /\ req' = [req EXCEPT ![r].found = {e \in {d} : refs[e] = req[r].target},
                          ![r].at = d + 1]
    /\ UNCHANGED <<tree, media, blobs, sessions, presigned, refs, freshRequests, edited>>

Scan(r) ==
    LET d == req[r].at IN
    /\ req[r].pc = "scan" /\ d \in Docs
    /\ req' = [req EXCEPT ![r].found = @ \cup {e \in {d} : refs[e] = req[r].target},
                          ![r].at = d + 1]
    /\ UNCHANGED <<tree, media, blobs, sessions, presigned, refs, freshRequests, edited>>

EndScan(r) == /\ req[r].pc = "scan" /\ req[r].at \notin Docs
              /\ Go(r, IF req[r].found = {} THEN "remove" ELSE "refused")
              /\ UNCHANGED <<tree, media, blobs, sessions, presigned, refs, freshRequests, edited>>

RemoveRow(r) ==
    LET m == req[r].target IN
    /\ req[r].pc = "remove"
    /\ media' = [n \in DOMAIN media \ {m} |-> media[n]]
    /\ req' = [req EXCEPT ![r].pc = IF m \in DOMAIN media THEN "blob" ELSE "done",
                          ![r].key = IF m \in DOMAIN media THEN media[m].key ELSE NoMedia]
    /\ UNCHANGED <<tree, blobs, sessions, presigned, refs, freshRequests, edited>>

DeleteBlob(r) == /\ req[r].pc = "blob"
                 /\ blobs' = blobs \ {req[r].key}
                 /\ Go(r, "emit")
                 /\ UNCHANGED <<tree, media, sessions, presigned, refs, freshRequests, edited>>

-----------------------------------------------------------------------------
\* The subscribers have run.
Emitted(r) == /\ req[r].pc = "emit"
              /\ Go(r, "done")
              /\ UNCHANGED <<tree, media, blobs, sessions, presigned, refs, freshRequests, edited>>

Busy(r) == req[r].pc \notin {"idle", "done", "refused", "failed"}

\* A store, the storage or a subscriber throws; or the process dies, where the
\* stores outlive it.
Fail(r) == /\ Busy(r)
           /\ Go(r, "failed")
           /\ UNCHANGED <<tree, media, blobs, sessions, presigned, refs, freshRequests, edited>>

\* The ids a client may have seen: an asset's, also when it is gone by now.
Seen == {m \in Requests : /\ req[m].kind \in {"upload", "confirm"}
                          /\ req[m].pc \in {"close", "emit", "done", "failed"}}

\* The content routes store any media id they are given.
WriteRef(d, m) ==
    /\ d \in edited
    /\ m \in Seen \cup {NoMedia}
    /\ refs' = [refs EXCEPT ![d] = m]
    /\ req' = [r \in Requests |->
                 IF req[r].pc \in {"scan", "remove"} /\ req[r].target # m
                 THEN [req[r] EXCEPT !.kept = @ \ {d}] ELSE req[r]]
    /\ UNCHANGED <<tree, media, blobs, sessions, presigned, freshRequests, edited>>

-----------------------------------------------------------------------------
(* The folder routes. *)

MakeFolder(f, n, p) == /\ CreateFolder(f, n, p)
                       /\ UNCHANGED <<media, blobs, sessions, presigned, refs, req, freshRequests, edited>>

EditFolder(f, n, p) == /\ UpdateFolder(f, n, p)
                       /\ UNCHANGED <<media, blobs, sessions, presigned, refs, req, freshRequests, edited>>

Within(f) == {f} \cup Descendants(f)

FiledIn(S) == {m \in DOMAIN media : media[m].folder \in S}

DeleteEmptyFolder(f) ==
    /\ Exists(f)
    /\ Descendants(f) = {} /\ FiledIn({f}) = {}
    /\ RemoveFolders({f})
    /\ UNCHANGED <<media, blobs, sessions, presigned, refs, req, freshRequests, edited>>

\* Mutant of ForceDeleteFolder: only the assets of f itself are detached.
ForceDeleteDetachesTop(f) ==
    /\ Exists(f)
    /\ RemoveFolders(Within(f))
    /\ media' = [m \in DOMAIN media |->
                   IF m \in FiledIn({f}) THEN [media[m] EXCEPT !.folder = Null] ELSE media[m]]
    /\ UNCHANGED <<blobs, sessions, presigned, refs, req, freshRequests, edited>>

\* ?force=true: the assets below f move to the root.
ForceDeleteFolder(f) ==
    /\ Exists(f)
    /\ RemoveFolders(Within(f))
    /\ media' = [m \in DOMAIN media |->
                   IF m \in FiledIn(Within(f)) THEN [media[m] EXCEPT !.folder = Null] ELSE media[m]]
    /\ UNCHANGED <<blobs, sessions, presigned, refs, req, freshRequests, edited>>

-----------------------------------------------------------------------------
Init == /\ folder = << >> /\ media = << >>
        /\ blobs = {} /\ sessions = {} /\ presigned = [k \in Presigns |-> "none"]
        /\ refs = [d \in Docs |-> NoMedia]
        /\ req = [r \in Requests |-> Idle]
        /\ \E q \in Quotas : /\ freshFolders = q.folders
                            /\ freshRequests = q.requests
                            /\ edited = q.records

FolderStep == \E f \in Folders :
                \/ \E n \in Names, p \in Folders \cup Roots : MakeFolder(f, n, p) \/ EditFolder(f, n, p)
                \/ DeleteEmptyFolder(f) \/ ForceDeleteFolder(f)

UploadStep(r) == \/ \E f \in Folders \cup {Null} : Upload(r, f)
                 \/ \E k \in Presigns, f \in Folders \cup Roots : Confirm(r, k, f)
                 \/ Put(r) \/ ReadObject(r) \/ CreateRow(r) \/ CloseSession(r)

EditStep(r) == \E m \in Seen :
                 \/ \E f \in Folders \cup {Null} : Patch(r, m, f)
                 \/ Delete(r, m)

Next == \/ FolderStep
        \/ \E k \in Presigns : Presign(k) \/ ClientPuts(k) \/ Expire(k)
        \/ \E r \in Requests :
             \/ UploadStep(r) \/ EditStep(r)
             \/ CheckFolder(r) \/ Update(r)
             \/ Scan(r) \/ EndScan(r) \/ RemoveRow(r) \/ DeleteBlob(r)
             \/ Emitted(r) \/ Fail(r)
        \/ \E d \in Docs, m \in Requests \cup {NoMedia} : WriteRef(d, m)

Spec == Init /\ [][Next]_vars

-----------------------------------------------------------------------------
(* Properties. *)

\* The variables keep their types.
RequestType == [kind : {"none", "upload", "confirm", "patch", "delete"},
                pc : {"idle", "folder", "put", "head", "create", "close", "update", "scan",
                      "remove", "blob", "emit", "done", "refused", "failed"},
                folder : Folders \cup Roots,
                key : Keys \cup {NoMedia},
                target : Requests \cup {NoMedia},
                at : 1..(Collections + 1),
                found : SUBSET Docs,
                kept : SUBSET Docs]

TypeOK == /\ FoldersTypeOK
          /\ DOMAIN media \subseteq Requests
          /\ \A m \in DOMAIN media : media[m] \in [key : Keys, folder : Folders \cup Roots]
          /\ blobs \subseteq Keys
          /\ sessions \subseteq Presigns
          /\ presigned \in [Presigns -> {"none", "issued", "sent"}]
          /\ refs \in [Docs -> Requests \cup {NoMedia}]
          /\ req \in [Requests -> RequestType]
          /\ freshRequests \subseteq Requests
          /\ edited \subseteq Docs

\* An asset whose blob is gone was confirmed twice: another request confirmed
\* the same upload, and deleting that one's row took the blob with it.
SharedWithDeleted(m) ==
    \E q, r \in Requests :
      /\ q # m /\ q \notin DOMAIN media
      /\ req[q].kind = "confirm" /\ req[q].key = media[m].key
      /\ req[r].kind = "delete" /\ req[r].target = q /\ req[r].key = media[m].key

BlobLostOnlyToTwin == \A m \in DOMAIN media : media[m].key \in blobs \/ SharedWithDeleted(m)

\* A blob without a row is a presigned upload nobody has confirmed, or that of
\* a request between its two stores, or of one that failed there.
OrphanBlobsAreExplained ==
    \A k \in blobs \ {media[m].key : m \in DOMAIN media} :
      \/ k \in Presigns /\ ~\E r \in Requests : req[r].key = k /\ req[r].pc = "done"
      \/ \E r \in Requests : req[r].key = k /\ req[r].pc \in {"create", "blob", "failed"}

\* Rows and blobs lose one another only in the ways the two stores, written one
\* after the other, explain: a second row of one blob, or an unfinished request.
BlobsAreExplained == BlobLostOnlyToTwin /\ OrphanBlobsAreExplained

\* No row is deleted while a record refers to it that did so all along, since
\* before the request: only a reference written meanwhile can be missed.
InUseIsKept ==
    \A r \in Requests :
      req[r].kind = "delete" /\ req[r].key # NoMedia => req[r].kept = {}

\* A folder that goes leaves no asset behind in it, however deep it was.
NothingLeftInDeletedFolder ==
    [][\A f \in DOMAIN folder \ DOMAIN folder' : \A m \in DOMAIN media' : media'[m].folder # f]_vars
=============================================================================
