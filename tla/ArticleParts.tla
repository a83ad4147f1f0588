----------------------------- MODULE ArticleParts -----------------------------
(***************************************************************************)
(* The rows of article_tags and article_media of one article, which        *)
(* replaceTags and attachMedia of src/src/articles/articles.service.ts     *)
(* rewrite in transactions that lock the article only when they also       *)
(* change its columns.                                                     *)
(*                                                                         *)
(* A statement of PostgreSQL works on the rows that were committed when it *)
(* began, waits for those another transaction has changed, and then takes  *)
(* them as they are.  Events, revisions, audit rows and display_order are  *)
(* left out; ArticlePublishing has the columns.                            *)
(***************************************************************************)
EXTENDS Naturals, FiniteSets, Sequences

CONSTANTS
  Tags, Media, NoMedia,
  FirstMedia,         \* is_cover of the rows earlier requests have left
  TagLists,           \* dto.tagIds of the requests
  Editors, NoEditor,  \* slots of requests
  MaxEdits

ASSUME PartsAssumption ==
  /\ IsFiniteSet(Media) /\ NoMedia \notin Media
  /\ FirstMedia \in [Media -> {"none", "plain", "cover"}]
  /\ Cardinality({m \in Media : FirstMedia[m] = "cover"}) <= 1
  /\ TagLists \subseteq Seq(Tags)
  /\ NoEditor \notin Editors
  /\ MaxEdits \in Nat

VARIABLES
  articleTags,   \* committed rows of article_tags
  articleMedia,  \* "none" or is_cover of the committed rows of article_media
  articleLock,   \* transaction that has updated the row of articles
  edit,          \* the requests
  edits,
  \* --- history
  asked,         \* tags of the last request that committed some
  loose,         \* a request without columns replaced the tags beside another
  fresh          \* two covers at the same time, one not attached to the other's eyes

rows == <<articleTags, articleMedia>>
partHistory == <<asked, loose, fresh>>
partVars == <<rows, articleLock, edit, edits, partHistory>>

-----------------------------------------------------------------------------
NoEdit == [pc |-> "idle", kind |-> "none", tagIds |-> <<>>, left |-> <<>>,
           sees |-> {}, deleted |-> {}, inserted |-> {},
           medium |-> NoMedia, cover |-> FALSE]

PartsInit ==
  /\ articleTags = {}
  /\ articleMedia = FirstMedia
  /\ articleLock = NoEditor
  /\ edit = [e \in Editors |-> NoEdit]
  /\ edits = 0
  /\ asked = {} /\ loose = FALSE /\ fresh = FALSE

Elements(s) == {s[i] : i \in DOMAIN s}

Others(e, kind) == {o \in Editors \ {e} : edit[o].kind = kind}

-----------------------------------------------------------------------------
(* Who waits for whom.                                                     *)

\* Rows of article_media that a transaction has changed and not committed.
HeldMedia(e) ==
  (IF edit[e].pc \in {"upsert", "commit"} THEN edit[e].sees ELSE {})
    \cup (IF edit[e].pc = "commit" THEN {edit[e].medium} ELSE {})

BlockedBy(e, o) ==
  /\ e # o
  /\ \/ edit[e].pc = "update" /\ articleLock = o
     \/ /\ edit[e].pc = "deleting"
        /\ edit[e].sees \cap articleTags \cap edit[o].deleted # {}
     \/ /\ edit[e].pc = "insert" /\ edit[e].left # <<>>
        /\ Head(edit[e].left) \in edit[o].deleted \cup edit[o].inserted
     \/ edit[o].kind = "media" /\ edit[e].pc = "clearing"
          /\ edit[e].sees \cap HeldMedia(o) # {}
     \/ edit[o].kind = "media" /\ edit[e].pc = "upsert"
          /\ edit[e].medium \in HeldMedia(o)

Blocked(e) == \E o \in Editors : BlockedBy(e, o)

\* Transactions that wait in a circle.
InCircle(e) ==
  \E S \in SUBSET Editors :
    /\ e \in S
    /\ \A x \in S : /\ \E o \in S : BlockedBy(x, o)
                    /\ \E o \in S : BlockedBy(o, x)

-----------------------------------------------------------------------------
(* update and create, with tagIds.                                         *)

Start(e, request) ==
  /\ edit[e].pc = "idle"
  /\ edits < MaxEdits
  /\ edits' = edits + 1
  /\ edit' = [edit EXCEPT ![e] = request]
  /\ UNCHANGED <<rows, articleLock, asked>>

\* update with columns and tags, or with tags only.
BeginUpdateTags(e, columns, tagIds) ==
  /\ Start(e, [NoEdit EXCEPT !.kind = "tags", !.tagIds = tagIds, !.left = tagIds,
                             !.pc = IF columns THEN "update" ELSE "delete"])
  /\ loose' = (loose \/ \E o \in Others(e, "tags") :
                          ~ columns \/ (edit[o].pc # "update" /\ articleLock # o))
  /\ UNCHANGED fresh

Continue(e, request) ==
  /\ edit' = [edit EXCEPT ![e] = request]
  /\ UNCHANGED <<rows, edits, partHistory>>

\* Mutant: the columns are written after the tags.
UpdateAtTheEnd(e) ==
  /\ edit[e].pc = "update"
  /\ UNCHANGED articleLock
  /\ Continue(e, [edit[e] EXCEPT !.pc = "delete"])

UpdateColumns(e) ==
  /\ edit[e].pc = "update"
  /\ articleLock = NoEditor
  /\ articleLock' = e
  /\ Continue(e, [edit[e] EXCEPT !.pc = "delete"])

\* replaceTags: the DELETE begins.
DeleteTags(e) ==
  /\ edit[e].pc = "delete"
  /\ Continue(e, [edit[e] EXCEPT !.pc = "deleting", !.sees = articleTags])
  /\ UNCHANGED articleLock

DeletedTags(e) ==
  /\ edit[e].pc = "deleting" /\ ~ Blocked(e)
  /\ Continue(e, [edit[e] EXCEPT !.pc = "insert",
                                 !.deleted = edit[e].sees \cap articleTags])
  /\ UNCHANGED articleLock

\* INSERT ... ON CONFLICT DO NOTHING of the next tag.
InsertTag(e) ==
  LET t == Head(edit[e].left) IN
  /\ edit[e].pc = "insert" /\ edit[e].left # <<>> /\ ~ Blocked(e)
  /\ Continue(e, [edit[e] EXCEPT
       !.left = Tail(@),
       !.inserted = IF t \in articleTags \ edit[e].deleted THEN @ ELSE @ \cup {t}])
  /\ UNCHANGED articleLock

TagsInserted(e) ==
  /\ edit[e].pc = "insert" /\ edit[e].left = <<>>
  /\ Continue(e, [edit[e] EXCEPT !.pc = "commit"])
  /\ UNCHANGED articleLock

-----------------------------------------------------------------------------
(* attachMedia.                                                            *)

BeginAttach(e, m, cover) ==
  /\ Start(e, [NoEdit EXCEPT !.kind = "media", !.medium = m,
                             !.pc = IF cover THEN "clear" ELSE "upsert",
                             !.cover = cover])
  /\ fresh' = (fresh \/ \E o \in Others(e, "media") :
                          /\ cover /\ edit[o].cover
                          /\ \/ articleMedia[m] = "none"
                             \/ articleMedia[edit[o].medium] = "none"
                             \/ edit[o].pc # "clear" /\ m \notin edit[o].sees)
  /\ UNCHANGED loose

\* Mutant: only the row that is the cover loses it.
AttachedCover == {m \in Media : articleMedia[m] = "cover"}

Attached == {m \in Media : articleMedia[m] # "none"}

\* UPDATE article_media SET is_cover = false, begun and done.
ClearCovers(e) ==
  /\ edit[e].pc = "clear"
  /\ Continue(e, [edit[e] EXCEPT !.pc = "clearing", !.sees = Attached])
  /\ UNCHANGED articleLock

ClearedCovers(e) ==
  /\ edit[e].pc = "clearing" /\ ~ Blocked(e)
  /\ Continue(e, [edit[e] EXCEPT !.pc = "upsert"])
  /\ UNCHANGED articleLock

\* INSERT ... ON CONFLICT DO UPDATE.
UpsertMedia(e) ==
  /\ edit[e].pc = "upsert" /\ ~ Blocked(e)
  /\ Continue(e, [edit[e] EXCEPT !.pc = "commit"])
  /\ UNCHANGED articleLock

-----------------------------------------------------------------------------
\* A tag that was deleted and inserted again is a new row, which a DELETE that began
\* before does not see.
LosesSight(p, gone) ==
  IF p.pc = "deleting" THEN [p EXCEPT !.sees = @ \ gone] ELSE p

EndEdit(e, gone) ==
  /\ edit' = [o \in Editors |-> IF o = e THEN NoEdit ELSE LosesSight(edit[o], gone)]
  /\ articleLock' = IF articleLock = e THEN NoEditor ELSE articleLock

CommitEdit(e) ==
  /\ edit[e].pc = "commit"
  /\ \/ /\ edit[e].kind = "tags"
        /\ articleTags' = (articleTags \ edit[e].deleted) \cup edit[e].inserted
        /\ asked' = Elements(edit[e].tagIds)
        /\ EndEdit(e, edit[e].deleted)
        /\ UNCHANGED articleMedia
     \/ /\ edit[e].kind = "media"
        /\ articleMedia' = [m \in Media |->
             IF m = edit[e].medium THEN (IF edit[e].cover THEN "cover" ELSE "plain")
             ELSE IF m \in edit[e].sees THEN "plain" ELSE articleMedia[m]]
        /\ EndEdit(e, {})
        /\ UNCHANGED <<articleTags, asked>>
  /\ UNCHANGED <<edits, loose, fresh>>

\* PostgreSQL ends one of the transactions that wait in a circle.
DeadlockVictim(e) ==
  /\ InCircle(e)
  /\ EndEdit(e, {})
  /\ UNCHANGED <<rows, edits, partHistory>>

ServeEdit(e) ==
  \/ UpdateColumns(e) \/ DeleteTags(e) \/ DeletedTags(e) \/ InsertTag(e)
  \/ TagsInserted(e) \/ ClearCovers(e) \/ ClearedCovers(e) \/ UpsertMedia(e)
  \/ CommitEdit(e)

PartsNext ==
  \E e \in Editors :
    \/ \E columns \in BOOLEAN, tagIds \in TagLists : BeginUpdateTags(e, columns, tagIds)
    \/ \E m \in Media, cover \in BOOLEAN : BeginAttach(e, m, cover)
    \/ ServeEdit(e) \/ DeadlockVictim(e)

-----------------------------------------------------------------------------
(* Properties.                                                             *)

\* The article has the tags of the last update that gave some, unless an update
\* without columns, which locks nothing, replaced them beside another: two DELETEs
\* then miss each other's INSERTs (replaceTags).
TagsOfLastUpdate == loose \/ articleTags = asked

\* An article has two covers only after two requests for a cover at the same time,
\* one of them for a medium the other did not find attached: the UPDATE of every
\* attached row is what keeps the others apart (attachMedia).
OneCover == fresh \/ Cardinality({m \in Media : articleMedia[m] = "cover"}) <= 1
=============================================================================
