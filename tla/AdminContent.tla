---------------------------- MODULE AdminContent ----------------------------
(***************************************************************************)
(* The admin's content workspace: the cached list with its optimistic bulk *)
(* actions, and the record editor with its debounced autosave.             *)
(*                                                                         *)
(* The editor saves half a second after the last keystroke and on Save.    *)
(* Saves are not queued: one begins while another is under way, the server *)
(* takes them in any order, and an answer of any of them clears the dirty  *)
(* mark of the record.  A bulk action sends one request per record at once *)
(* and fails with the first that fails, while the others go on.            *)
(***************************************************************************)
EXTENDS Integers, FiniteSets

CONSTANTS
    Records,   \* the records
    NoRecord,  \* the editor is closed
    MaxEdits,  \* bound on what is typed
    MaxSent    \* bound on the requests sent

ASSUME AdminContentAssumption == /\ NoRecord \notin Records
                                 /\ IsFiniteSet(Records)
                                 /\ MaxEdits \in Nat
                                 /\ MaxSent \in Nat

VARIABLES
    server,   \* the stored records
    shown,    \* the list in the query cache
    reading,  \* the fetch of the list: idle, asked, or the answer on its way
    editor,   \* the open record, what the form holds, what the debouncer holds
    dirty,    \* dirtyFieldsAtom
    mutations, \* requests under way
    sent,     \* how many were sent
    bulk,     \* the bulk action under way, and the list before it
    edits,    \* texts typed
    latest,   \* the last text typed, or saved without typing (history)
    tangled,  \* saves overlapped, or an answer cleared the mark of a newer text (history)
    unseen    \* the server changed with no fetch of the list to come (history)

adminVars == <<server, shown, reading, editor, dirty, mutations, sent, bulk, edits,
               latest, tangled, unseen>>

Gone == [text |-> 0, status |-> "gone"]
Closed == [id |-> NoRecord, touched |-> FALSE, typed |-> 0, timer |-> 0, save |-> 0, publish |-> 0]
NoBulk == [action |-> "none", ids |-> {}, left |-> {}, before |-> <<>>]
NotReading == [at |-> "idle", rows |-> <<>>]
Asked == [at |-> "asked", rows |-> <<>>]

AdminContentInit ==
    /\ server = [i \in Records |-> [text |-> 0, status |-> "draft"]]
    /\ shown = server
    /\ reading = NotReading
    /\ editor = Closed
    /\ dirty = [i \in Records |-> FALSE]
    /\ mutations = {} /\ sent = 0
    /\ bulk = NoBulk
    /\ edits = 0
    /\ latest = [i \in Records |-> 0]
    /\ tangled = [i \in Records |-> FALSE]
    /\ unseen = FALSE

Exists(list, i) == list[i].status # "gone"
Saves(i) == {r \in mutations : r.kind = "save" /\ r.id = i}
Mutation(n, kind, i, text) == [n |-> n, kind |-> kind, id |-> i, text |-> text, at |-> "out",
                              alone |-> Saves(i) = {}]
InFlight(n) == \E r \in mutations : r.n = n

-----------------------------------------------------------------------------
(* The editor. *)

OpenRecord(i) == /\ editor.id = NoRecord
                 /\ Exists(shown, i)
                 /\ editor' = [Closed EXCEPT !.id = i, !.typed = shown[i].text]
                 /\ UNCHANGED <<server, shown, reading, dirty, mutations, sent, bulk,
                                edits, latest, tangled, unseen>>

\* A keystroke marks the record and starts the debouncer anew.
Type == LET text == edits + 1
        IN /\ editor.id # NoRecord
           /\ text <= MaxEdits
           /\ edits' = text
           /\ editor' = [editor EXCEPT !.touched = TRUE, !.typed = text, !.timer = text]
           /\ dirty' = [dirty EXCEPT ![editor.id] = TRUE]
           /\ latest' = [latest EXCEPT ![editor.id] = text]
           /\ UNCHANGED <<server, shown, reading, mutations, sent, bulk, tangled, unseen>>

Send(kind, i, text) == /\ sent < MaxSent
                       /\ sent' = sent + 1
                       /\ mutations' = {Mutation(sent + 1, kind, i, text)} \cup
                            {IF r \in Saves(i) THEN [r EXCEPT !.alone = FALSE] ELSE r : r \in mutations}

\* Of two saves under way the server may take the older one last.
Overlaps(i) == tangled' = [tangled EXCEPT ![i] = @ \/ Saves(i) # {}]

Autosave == /\ editor.timer # 0
            /\ Send("save", editor.id, editor.timer)
            /\ editor' = [editor EXCEPT !.timer = 0, !.save = sent + 1]
            /\ Overlaps(editor.id)
            /\ UNCHANGED <<server, shown, reading, dirty, bulk, edits, latest, unseen>>

\* The buttons are disabled while the editor's last save or publish is pending.
EditorBusy == InFlight(editor.save) \/ InFlight(editor.publish)

Save == /\ editor.id # NoRecord /\ ~EditorBusy
        /\ Send("save", editor.id, editor.typed)
        /\ editor' = [editor EXCEPT !.save = sent + 1]
        /\ Overlaps(editor.id)
        /\ UNCHANGED <<server, shown, reading, dirty, bulk, edits, latest, unseen>>

Publish == /\ editor.id # NoRecord /\ ~EditorBusy
           /\ Exists(shown, editor.id) /\ shown[editor.id].status # "published"
           /\ Send("publish", editor.id, 0)
           /\ editor' = [editor EXCEPT !.publish = sent + 1]
           /\ UNCHANGED <<server, shown, reading, dirty, bulk, edits, latest, tangled, unseen>>

\* The debouncer is cancelled with the editor; the mark stays.
Back == /\ editor.id # NoRecord
        /\ editor' = Closed
        /\ UNCHANGED <<server, shown, reading, dirty, mutations, sent, bulk, edits, latest,
                       tangled, unseen>>

-----------------------------------------------------------------------------
(* The server. *)

Effect(r) == CASE r.kind = "save" -> [server[r.id] EXCEPT !.text = r.text]
                [] r.kind = "publish" -> [server[r.id] EXCEPT !.status = "published"]
                [] r.kind = "delete" -> Gone

\* A request of a bulk action that has failed already is nobody's.
Abandoned(r) == r.text = -1 /\ r.n \notin bulk.left

Lands(r) == /\ r.at = "out"
            /\ Exists(server, r.id) \/ r.kind = "delete"
            /\ server' = [server EXCEPT ![r.id] = Effect(r)]
            /\ IF Abandoned(r)
               THEN /\ mutations' = mutations \ {r}
                    /\ unseen' = (unseen \/ reading.at # "asked")
               ELSE /\ mutations' = (mutations \ {r}) \cup {[r EXCEPT !.at = "done"]}
                    /\ UNCHANGED unseen
            /\ latest' = IF r.kind = "save" /\ ~dirty[r.id] /\ ~tangled[r.id]
                         THEN [latest EXCEPT ![r.id] = r.text] ELSE latest
            /\ UNCHANGED <<shown, reading, editor, dirty, sent, bulk, edits, tangled>>

\* A request nobody waits for is refused or lost.
Vanishes(r) == /\ r.at = "out" /\ Abandoned(r)
               /\ mutations' = mutations \ {r}
               /\ UNCHANGED <<server, shown, reading, editor, dirty, sent, bulk, edits, latest,
                              tangled, unseen>>

ServerLists == /\ reading = Asked
               /\ reading' = [at |-> "answered", rows |-> server]
               /\ UNCHANGED <<server, shown, editor, dirty, mutations, sent, bulk, edits, latest,
                              tangled, unseen>>

\* The form of a list: gone with its record, and, if nobody has touched it, filled
\* from the record.
FormOf(list) == IF editor.id = NoRecord THEN editor
                ELSE IF ~Exists(list, editor.id) THEN Closed
                ELSE IF editor.touched THEN editor
                ELSE [editor EXCEPT !.typed = list[editor.id].text]

ListArrives == /\ reading.at = "answered"
               /\ shown' = reading.rows
               /\ reading' = NotReading
               /\ editor' = FormOf(reading.rows)
               /\ UNCHANGED <<server, dirty, mutations, sent, bulk, edits, latest, tangled,
                              unseen>>

-----------------------------------------------------------------------------
(* Answers. *)

OfEditor(r) == r.kind \in {"save", "publish"} /\ r.text >= 0

\* What the answer vouches for is all there was to save.
Covers(r) == /\ Saves(r.id) \ {r} = {}
             /\ IF r.kind = "save" THEN r.alone /\ r.text = latest[r.id]
                                   ELSE server[r.id].text = latest[r.id]

\* onSuccess: the mark is cleared and the list fetched again.
Succeeds(r) == /\ OfEditor(r) /\ r.at = "done"
               /\ mutations' = mutations \ {r}
               /\ dirty' = [dirty EXCEPT ![r.id] = FALSE]
               /\ tangled' = [tangled EXCEPT ![r.id] = ~Covers(r)]
               /\ reading' = Asked
               /\ UNCHANGED <<server, shown, editor, sent, bulk, edits, latest, unseen>>

\* Mutant: the mark is cleared in onSettled.
ClearsAnyway(i) == dirty' = [dirty EXCEPT ![i] = FALSE]

\* onError shows a message; nothing else happens.
OnError(i) == UNCHANGED dirty

\* Refused (the record is gone, the input does not validate) or lost on the way,
\* or done and the answer lost.
FailsInEditor(r) ==
    /\ OfEditor(r)
    /\ mutations' = mutations \ {r}
    /\ OnError(r.id)
    /\ unseen' = (unseen \/ (r.at = "done" /\ reading.at # "asked"))
    /\ UNCHANGED <<server, shown, reading, editor, sent, bulk, edits, latest, tangled>>

-----------------------------------------------------------------------------
(* Bulk actions. *)

\* updateContentListRecords
Optimistic(list, ids, action) ==
    [i \in Records |-> IF i \notin ids THEN list[i]
                   ELSE IF action = "delete" THEN Gone
                   ELSE IF Exists(list, i) THEN [list[i] EXCEPT !.status = "published"]
                   ELSE list[i]]

\* One request per record, numbered as they are sent; -1 marks them as the bulk's.
BulkStart(action, ids) ==
    LET k == Cardinality(ids)
        f == CHOOSE g \in [ids -> sent + 1 .. sent + k] :
                \A i, j \in ids : g[i] = g[j] => i = j
    IN /\ editor.id = NoRecord /\ bulk = NoBulk
       /\ ids # {} /\ \A i \in ids : Exists(shown, i)
       /\ sent + k <= MaxSent
       /\ sent' = sent + k
       /\ mutations' = mutations \cup {Mutation(f[i], action, i, -1) : i \in ids}
       /\ bulk' = [action |-> action, ids |-> ids, left |-> {f[i] : i \in ids}, before |-> shown]
       /\ shown' = Optimistic(shown, ids, action)
       /\ reading' = NotReading
       /\ UNCHANGED <<server, editor, dirty, edits, latest, tangled, unseen>>

\* The last answer of the bulk action: the list is fetched again.
BulkAnswered(r) ==
    /\ r.n \in bulk.left /\ r.at = "done"
    /\ mutations' = mutations \ {r}
    /\ IF bulk.left = {r.n}
       THEN bulk' = NoBulk /\ reading' = Asked
       ELSE bulk' = [bulk EXCEPT !.left = @ \ {r.n}] /\ UNCHANGED reading
    /\ UNCHANGED <<server, shown, editor, dirty, sent, edits, latest, tangled, unseen>>

\* onSettled
SettlesWithFetch == reading' = Asked

\* Promise.all fails with the first failure: the list is restored and fetched, and
\* what the others answer is of no interest.
BulkFails(r) ==
    /\ r.n \in bulk.left
    /\ mutations' = {s \in mutations : s.n \notin bulk.left \/ (s # r /\ s.at = "out")}
    /\ shown' = bulk.before
    /\ editor' = FormOf(bulk.before)
    /\ bulk' = NoBulk
    /\ SettlesWithFetch
    /\ UNCHANGED <<server, dirty, sent, edits, latest, tangled, unseen>>

AdminContentNext ==
    \/ \E i \in Records : OpenRecord(i)
    \/ Type \/ Autosave \/ Save \/ Publish \/ Back
    \/ ServerLists \/ ListArrives
    \/ \E r \in mutations : \/ Lands(r) \/ Vanishes(r)
                           \/ Succeeds(r) \/ FailsInEditor(r)
                           \/ BulkAnswered(r) \/ BulkFails(r)
    \/ \E ids \in SUBSET Records, action \in {"delete", "publish"} : BulkStart(action, ids)

AdminContentSpec == AdminContentInit /\ [][AdminContentNext]_adminVars

-----------------------------------------------------------------------------

\* A record that is not marked has been saved as it was last typed; except where saves
\* overlapped, or the answer to an older save or to a publish cleared the mark.
DirtyUntilSaved ==
    \A i \in Records : ~dirty[i] /\ ~tangled[i] /\ Exists(server, i)
                      => server[i].text = latest[i]

\* When nothing is under way the list is what the server has, whatever failed and
\* was restored; except after a change whose answer was lost or that nobody awaited.
ListCatchesUp ==
    mutations = {} /\ reading = NotReading /\ ~unseen => shown = server

\* What the workspace says is saved is saved, and what it lists is there
\* (ContentWorkspace).
WorkspaceIsHonest == DirtyUntilSaved /\ ListCatchesUp
=============================================================================
