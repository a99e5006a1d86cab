--------------------------- MODULE AuditedRecords ---------------------------
(***************************************************************************)
(* The writes outside the stock services: master data and products         *)
(* (AuditedModelViewSet, apps/core/viewsets.py) and uploaded files         *)
(* (apps/attachments).  No transaction holds such a request together: the  *)
(* load, the file, the row and the audit row are committed one by one,     *)
(* other requests run in between, and the process may die anywhere.        *)
(*                                                                         *)
(* Permissions, validation and the record a file is attached to are left   *)
(* out; a request that fails them changes nothing.                         *)
(***************************************************************************)
EXTENDS Integers, FiniteSets, TLC

CONSTANTS Requests,      \* the requests
          Ids,           \* primary keys of master data, and of attachments
          Fields,        \* the fields of a row
          Values,        \* what a field may hold
          None           \* no row

Row == [Fields -> Values]

Stored == {None} \union Row \union Requests

Changes ==
    [kind : {"create", "update", "destroy", "upload", "remove"},
     id : Ids, before : Stored, after : Stored]

\* None is no row, no file and no change.
ASSUME NoneAssumption == None \notin Requests /\ None \notin Row /\ None \notin Changes

VARIABLES rows,          \* [Ids -> a master-data row, or None]
          attachments,   \* [Ids -> the name of its file, or None]
          uploads,       \* the files in the storage, named by who uploaded them
          keys, used,    \* the keys of rows, and of attachments, given out
          request,       \* what each request is doing
          made,          \* what each request changed when it committed, or None
          overtaken,     \* the requests that loaded a record somebody wrote before them
          logged         \* AuditLog: what each request wrote there, or None

recordVars == <<rows, attachments, uploads, keys, used, request, made, overtaken, logged>>

\* A request that has not come, and one that came to its end.
Waiting == [at |-> "new"]
Done == [at |-> "done"]
Dead(state) == [at |-> "died", last |-> state]

RecordsInit ==
    /\ rows \in [Ids -> {None} \union Row]
    /\ attachments = [i \in Ids |-> None]
    /\ uploads = {}
    /\ keys = {i \in Ids : rows[i] # None}
    /\ used = {}
    /\ request = [r \in Requests |-> Waiting]
    /\ made = [r \in Requests |-> None]
    /\ overtaken = {}
    /\ logged = [r \in Requests |-> None]

AtStep(r, place) == request[r].at = place

Go(r, state) == request' = [request EXCEPT ![r] = state]

\* Attachments and master data are tables of their own.
OfFiles(kind) == kind \in {"upload", "remove"}

TableOf(kind) == IF OfFiles(kind) THEN attachments ELSE rows

SameRecord(change, other) ==
    change.id = other.id /\ (OfFiles(change.kind) <=> OfFiles(other.kind))

\* The request loaded a record and has not written it yet.
HoldsCopy(r) == request[r].at \in {"loaded", "fileGone"}

\* The statement that writes record i commits.  It replaces what is there now,
\* whatever the request loaded, and a delete of what is gone changes nothing.  What
\* is left is the audit row, from the snapshots the request holds.
Write(r, kind, i, before, after) ==
    LET told     == [kind |-> kind, id |-> i, before |-> before, after |-> after]
        replaced == TableOf(kind)[i]
    IN  /\ made' = [made EXCEPT ![r] = IF replaced = None /\ after = None THEN None
                                       ELSE [told EXCEPT !.before = replaced]]
        /\ overtaken' = overtaken \union
              {q \in Requests \ {r} : HoldsCopy(q) /\ SameRecord(request[q], told)}
        /\ Go(r, [at |-> "written", change |-> told])

-----------------------------------------------------------------------------
(* Master data: AuditedModelViewSet *)

\* perform_create: the row gets a fresh key; it is validated and inserted.
CreateRow(r, i, fields) ==
    /\ AtStep(r, "new")
    /\ i \notin keys
    /\ keys' = keys \union {i}
    /\ rows' = [rows EXCEPT ![i] = fields]
    /\ Write(r, "create", i, None, fields)
    /\ UNCHANGED <<attachments, uploads, used, logged>>

\* get_object of a PATCH of one field: the row is loaded and validated.
LoadUpdate(r, i, field, value) ==
    /\ AtStep(r, "new")
    /\ rows[i] # None
    /\ Go(r, [at |-> "loaded", kind |-> "update", id |-> i, before |-> rows[i],
              row |-> [rows[i] EXCEPT ![field] = value]])
    /\ UNCHANGED <<rows, attachments, uploads, keys, used, made, overtaken, logged>>

\* perform_update: every field of the copy is saved, and the row is inserted
\* again if somebody deleted it in between (Model.save).
Update(r) ==
    /\ AtStep(r, "loaded")
    /\ request[r].kind = "update"
    /\ rows' = [rows EXCEPT ![request[r].id] = request[r].row]
    /\ Write(r, "update", request[r].id, request[r].before, request[r].row)
    /\ UNCHANGED <<attachments, uploads, keys, used, logged>>

LoadDestroy(r, i) ==
    /\ AtStep(r, "new")
    /\ rows[i] # None
    /\ Go(r, [at |-> "loaded", kind |-> "destroy", id |-> i, before |-> rows[i]])
    /\ UNCHANGED <<rows, attachments, uploads, keys, used, made, overtaken, logged>>

\* perform_destroy: no error if it is gone already.
Destroy(r) ==
    /\ AtStep(r, "loaded")
    /\ request[r].kind = "destroy"
    /\ rows' = [rows EXCEPT ![request[r].id] = None]
    /\ Write(r, "destroy", request[r].id, request[r].before, None)
    /\ UNCHANGED <<attachments, uploads, keys, used, logged>>

-----------------------------------------------------------------------------
(* Attachments: FileAttachmentViewSet *)

\* serializer.save(): the storage writes the file before the row is inserted.
Upload(r, i) ==
    /\ AtStep(r, "new")
    /\ i \notin used
    /\ used' = used \union {i}
    /\ uploads' = uploads \union {r}
    /\ Go(r, [at |-> "stored", kind |-> "upload", id |-> i])
    /\ UNCHANGED <<rows, attachments, keys, made, overtaken, logged>>

Attach(r) ==
    /\ AtStep(r, "stored")
    /\ attachments' = [attachments EXCEPT ![request[r].id] = r]
    /\ Write(r, "upload", request[r].id, None, r)
    /\ UNCHANGED <<rows, uploads, keys, used, logged>>

LoadRemove(r, i) ==
    /\ AtStep(r, "new")
    /\ attachments[i] # None
    /\ Go(r, [at |-> "loaded", kind |-> "remove", id |-> i, before |-> attachments[i]])
    /\ UNCHANGED <<rows, attachments, uploads, keys, used, made, overtaken, logged>>

\* Mutant of RemoveFile: Django leaves the file when its row is deleted.
KeepFile(r) ==
    /\ AtStep(r, "loaded")
    /\ request[r].kind = "remove"
    /\ Go(r, [request[r] EXCEPT !.at = "fileGone"])
    /\ UNCHANGED <<rows, attachments, uploads, keys, used, made, overtaken, logged>>

\* instance.file.delete(save=False): no error if it is gone already.
RemoveFile(r) ==
    /\ AtStep(r, "loaded")
    /\ request[r].kind = "remove"
    /\ uploads' = uploads \ {request[r].before}
    /\ Go(r, [request[r] EXCEPT !.at = "fileGone"])
    /\ UNCHANGED <<rows, attachments, keys, used, made, overtaken, logged>>

RemoveRow(r) ==
    /\ AtStep(r, "fileGone")
    /\ attachments' = [attachments EXCEPT ![request[r].id] = None]
    /\ Write(r, "remove", request[r].id, request[r].before, None)
    /\ UNCHANGED <<rows, uploads, keys, used, logged>>

-----------------------------------------------------------------------------

\* Mutant of RecordAudit: the record is read again for its audit row.
AuditReread(r) ==
    LET change == request[r].change
        table  == TableOf(change.kind)
    IN  /\ AtStep(r, "written")
        /\ logged' = [logged EXCEPT ![r] = [change EXCEPT !.after = table[change.id]]]
        /\ Go(r, Done)
        /\ UNCHANGED <<rows, attachments, uploads, keys, used, made, overtaken>>

\* record_audit, at the end of each of them.
RecordAudit(r) ==
    /\ AtStep(r, "written")
    /\ logged' = [logged EXCEPT ![r] = request[r].change]
    /\ Go(r, Done)
    /\ UNCHANGED <<rows, attachments, uploads, keys, used, made, overtaken>>

\* The process is killed, or the next statement fails and the client is told 500:
\* what was committed stays.  (A row other rows point to is such a failure of
\* Destroy.)
Halt(r) ==
    /\ request[r].at \in {"loaded", "stored", "fileGone", "written"}
    /\ Go(r, Dead(request[r]))
    /\ UNCHANGED <<rows, attachments, uploads, keys, used, made, overtaken, logged>>

RecordsNext ==
    \E r \in Requests :
        \/ \E i \in Ids :
            \/ \E fields \in Row : CreateRow(r, i, fields)
            \/ \E field \in Fields, value \in Values : LoadUpdate(r, i, field, value)
            \/ LoadDestroy(r, i)
            \/ Upload(r, i)
            \/ LoadRemove(r, i)
        \/ Update(r) \/ Destroy(r)
        \/ Attach(r) \/ RemoveFile(r) \/ RemoveRow(r)
        \/ RecordAudit(r)
        \/ Halt(r)

RecordsSpec == RecordsInit /\ [][RecordsNext]_recordVars

-----------------------------------------------------------------------------
(* Properties *)

\* The request is in this state, or died in it.
Stopped(r, place) ==
    AtStep(r, place) \/ (AtStep(r, "died") /\ request[r].last.at = place)

\* Rows, files, changes and what the requests hold have their types.
RecordsTypeOK ==
    /\ rows \in [Ids -> {None} \union Row]
    /\ attachments \in [Ids -> {None} \union Requests]
    /\ uploads \subseteq Requests
    /\ keys \subseteq Ids
    /\ used \subseteq Ids
    /\ overtaken \subseteq Requests
    /\ {made, logged} \subseteq [Requests -> {None} \union Changes]
    /\ \A r \in Requests :
        request[r].at \in {"new", "loaded", "stored", "fileGone", "written", "done", "died"}

\* An upload can be downloaded, and nothing is left in the storage that no row
\* names, except where a request stopped between the two: an upload before its
\* row, a removal before the row went (attachments/views.py, perform_create and
\* perform_destroy).
FilesFollowRows ==
    /\ \A i \in Ids :
        attachments[i] \notin uploads \union {None} =>
            \E r \in Requests :
                /\ Stopped(r, "fileGone")
                /\ (IF AtStep(r, "died") THEN request[r].last.id ELSE request[r].id) = i
    /\ \A f \in uploads :
        (\E i \in Ids : attachments[i] = f) \/ Stopped(f, "stored")

\* "Services write audit rows explicitly, in-transaction" (TECHNICAL_ARCHITECTURE,
\* section 7) and the viewset "audits every write" (core/viewsets.py): a request that
\* changed something and came to an end, in whatever way, has left its audit row.
WritesAreLogged ==
    \A r \in Requests : AtStep(r, "done") \/ AtStep(r, "died") =>
        (made[r] # None => logged[r] # None)

\* The audit captures "before/after reliably" (TECHNICAL_ARCHITECTURE, decision 6):
\* the before-image of an audit row is what the change replaced.  Two requests that
\* overlap break this (README, section 5).
LoggedBeforeIsReplaced ==
    \A r \in Requests : logged[r] # None /\ made[r] # None =>
        logged[r].before = made[r].before

\* The before-image is what somebody else's change of the same record replaced.
ReplacedByAnother(r, told) ==
    \E q \in Requests \ {r} :
        made[q] # None /\ SameRecord(made[q], told) /\ made[q].before = told.before

\* What is told is the change that was made, but for the before-image; of no change,
\* a deletion is told.
TellsAfter(told, change) ==
    IF change = None THEN told.after = None
    ELSE told = [change EXCEPT !.before = told.before]

\* What the trail can be relied on for, however requests interleave and die: a change
\* is missing only while its request is at record_audit or died there; an audit row
\* tells exactly the change its request made, unless somebody wrote the record after
\* the request had loaded it; and then it is wrong in nothing but the before-image,
\* which is what one of those others replaced, or tells of a second deletion.
TrailTellsChanges ==
    \A r \in Requests :
        /\ logged[r] = None => made[r] = None \/ Stopped(r, "written")
        /\ logged[r] # None /\ r \notin overtaken => logged[r] = made[r]
        /\ logged[r] # None /\ r \in overtaken =>
              ReplacedByAnother(r, logged[r]) /\ TellsAfter(logged[r], made[r])
=============================================================================
