--------------------------- MODULE MemoryLibrary ---------------------------
(***************************************************************************)
(* The archive of saved memories (MemoryManagerDrawer.tsx): a list that is *)
(* filtered and paged, and the memory that was opened from it, which is    *)
(* edited, saved and deleted.  Another device changes the same memories.   *)
(*                                                                         *)
(* Of a memory's document the model keeps which memory it is of and which  *)
(* version was edited into it.  An effect that was cleaned up ignores its  *)
(* answer, so that only the last request of each effect is kept; the       *)
(* handlers have no such guard.                                            *)
(***************************************************************************)
EXTENDS Naturals

CONSTANTS
    Memories,
    NoMemory,       \* null
    Filters,        \* what the list can be narrowed to; the connection, dates and query
    Matching,       \* Matching[f]: the memories that filter f lets through
    MaxVersion      \* Bound: the revisions of a memory

ASSUME LibraryAssumption ==
    /\ NoMemory \notin Memories /\ Matching \in [Filters -> SUBSET Memories]
    /\ MaxVersion \in Nat \ {0}

VARIABLES
    libraryOpen,
    selectedMemory, \* selectedId
    editor,         \* document, and detail's currentVersion
    detailRequest,  \* what the effect of selectedId awaits: as it was, or will be, read
    change,         \* the save or deletion on its way: busy
    archive,        \* archiveItems, the filter they are listed for, and their next page
    pageRequests,   \* requests of a page on their way
    archiveLoading,
    revised,        \* the server's version of each memory, 0 once it is deleted
    overwritten     \* a revision was stored that was not made from the one it replaced

libraryVars == <<libraryOpen, selectedMemory, editor, detailRequest, change, archive,
    pageRequests, archiveLoading, revised, overwritten>>
listVars == <<archive, pageRequests, archiveLoading>>

Documents == [of : Memories, made : 1..MaxVersion]
NoDocument == [of |-> NoMemory, made |-> 0]
NoEditor == [document |-> NoDocument, version |-> 0]
NoChange == [kind |-> "none", id |-> NoMemory, sent |-> NoEditor, done |-> FALSE]

\* The page of an effect stands for all it was asked for; a page of loadMore is added.
PageRequests == [filter : Filters, more : BOOLEAN]

LibraryTypeOK ==
    /\ libraryOpen \in BOOLEAN /\ selectedMemory \in Memories \union {NoMemory}
    /\ editor \in [document : Documents, version : 1..MaxVersion] \union {NoEditor}
    /\ detailRequest \in Memories \union {NoMemory}
    /\ change \in [kind : {"save", "delete"}, id : Memories,
                   sent : [document : Documents, version : 1..MaxVersion],
                   done : BOOLEAN] \union {NoChange}
    /\ archive \in [items : SUBSET Memories, filter : Filters, next : BOOLEAN]
    /\ pageRequests \subseteq PageRequests /\ archiveLoading \in BOOLEAN
    /\ revised \in [Memories -> 0..MaxVersion] /\ overwritten \in BOOLEAN

LibraryInit ==
    /\ libraryOpen = FALSE /\ selectedMemory = NoMemory /\ editor = NoEditor
    /\ detailRequest = NoMemory /\ change = NoChange
    /\ \E f \in Filters :
           /\ \A g \in Filters : Matching[g] \subseteq Matching[f]
           /\ archive = [items |-> {}, filter |-> f, next |-> FALSE]
    /\ pageRequests = {} /\ archiveLoading = FALSE
    /\ revised = [m \in Memories |-> 1] /\ overwritten = FALSE

(***************************************************************************)
(* What is shown.                                                          *)
(***************************************************************************)
LibraryShown == libraryOpen
BackOffered == LibraryShown /\ selectedMemory # NoMemory
ListShown == LibraryShown /\ selectedMemory = NoMemory
MoreOffered == ListShown /\ archive.next /\ ~archiveLoading
EditorShown ==
    /\ LibraryShown /\ selectedMemory # NoMemory
    /\ detailRequest = NoMemory /\ editor # NoEditor
Busy == change # NoChange

(***************************************************************************)
(* The list.                                                               *)
(***************************************************************************)
\* The effect that lists: it runs when the drawer opens, when a memory is left, and for
\* another filter or change.  What it asked for before is ignored.
ListsFor(filter) ==
    /\ pageRequests' = {r \in pageRequests : r.more} \union {[filter |-> filter, more |-> FALSE]}
    /\ archive' = [archive EXCEPT !.filter = filter]
    /\ archiveLoading' = TRUE

ListingStops ==
    /\ pageRequests' = {r \in pageRequests : r.more}
    /\ UNCHANGED <<archive, archiveLoading>>

OpenLibrary ==
    /\ ~libraryOpen /\ libraryOpen' = TRUE
    /\ ListsFor(archive.filter)
    /\ UNCHANGED <<selectedMemory, editor, detailRequest, change, revised, overwritten>>

\* Closed, the drawer forgets the memory that was open, if there is one.
CloseLibrary ==
    /\ libraryOpen /\ libraryOpen' = FALSE
    /\ selectedMemory' = NoMemory /\ detailRequest' = NoMemory
    /\ editor' = IF selectedMemory = NoMemory THEN editor ELSE NoEditor
    /\ ListingStops
    /\ UNCHANGED <<change, revised, overwritten>>

\* Another filter, a search, or "Refresh".
Narrow(filter) ==
    /\ ListShown /\ ListsFor(filter)
    /\ UNCHANGED <<libraryOpen, selectedMemory, editor, detailRequest, change, revised, overwritten>>

LoadMore ==
    /\ MoreOffered
    /\ pageRequests' = pageRequests \union {[filter |-> archive.filter, more |-> TRUE]}
    /\ archiveLoading' = TRUE
    /\ UNCHANGED <<libraryOpen, selectedMemory, editor, detailRequest, change, archive,
                   revised, overwritten>>

Listed(filter) == {m \in Matching[filter] : revised[m] > 0}

\* The page of a filter that is no longer set is merged into the list all the same.
MergeMemories(r, page) == IF r.more THEN archive.items \union page ELSE page

PageArrives(r) ==
    /\ r \in pageRequests /\ pageRequests' = pageRequests \ {r}
    /\ \E page \in SUBSET Listed(r.filter) :
           archive' = [archive EXCEPT !.items = MergeMemories(r, page),
                                      !.next = page # Listed(r.filter)]
    /\ archiveLoading' = FALSE
    /\ UNCHANGED <<libraryOpen, selectedMemory, editor, detailRequest, change, revised, overwritten>>

PageFails(r) ==
    /\ r \in pageRequests /\ pageRequests' = pageRequests \ {r}
    /\ archiveLoading' = FALSE
    /\ UNCHANGED <<libraryOpen, selectedMemory, editor, detailRequest, change, archive,
                   revised, overwritten>>

(***************************************************************************)
(* The memory that is open.                                                *)
(***************************************************************************)
SelectMemory(m) ==
    /\ ListShown /\ m \in archive.items
    /\ selectedMemory' = m /\ detailRequest' = m
    /\ ListingStops
    /\ UNCHANGED <<libraryOpen, editor, change, revised, overwritten>>

\* "Back" keeps the document, for the next memory whose detail cannot be loaded.
BackToList ==
    /\ BackOffered
    /\ selectedMemory' = NoMemory /\ detailRequest' = NoMemory
    /\ ListsFor(archive.filter)
    /\ UNCHANGED <<libraryOpen, editor, change, revised, overwritten>>

Editing(m, v) == [document |-> [of |-> m, made |-> v], version |-> v]

DetailArrives ==
    /\ detailRequest # NoMemory /\ revised[detailRequest] > 0
    /\ editor' = Editing(detailRequest, revised[detailRequest])
    /\ detailRequest' = NoMemory
    /\ UNCHANGED <<libraryOpen, selectedMemory, change, listVars, revised, overwritten>>

DetailFails ==
    /\ detailRequest # NoMemory /\ detailRequest' = NoMemory
    /\ UNCHANGED <<libraryOpen, selectedMemory, editor, change, listVars, revised, overwritten>>

\* The request names the memory that is selected and carries the document that is shown.
Save ==
    /\ EditorShown /\ ~Busy
    /\ change' = [kind |-> "save", id |-> selectedMemory, sent |-> editor, done |-> FALSE]
    /\ UNCHANGED <<libraryOpen, selectedMemory, editor, detailRequest, listVars, revised, overwritten>>

\* The user confirms the summary that is shown; the request names the memory selected.
RemoveMemory ==
    /\ EditorShown /\ ~Busy
    /\ change' = [kind |-> "delete", id |-> selectedMemory, sent |-> editor, done |-> FALSE]
    /\ UNCHANGED <<libraryOpen, selectedMemory, editor, detailRequest, listVars, revised, overwritten>>

\* Faulty: only the version is compared.
RevisesByVersion(c) == c.sent.version = revised[c.id]

\* revise_confirmed_memory: the document must be of the memory it is sent for, and the
\* expected version the one that is stored.
Revises(c) == c.sent.document.of = c.id /\ c.sent.version = revised[c.id]

SaveStored ==
    /\ change.kind = "save" /\ ~change.done
    /\ Revises(change) /\ revised[change.id] < MaxVersion
    /\ revised' = [revised EXCEPT ![change.id] = @ + 1]
    /\ overwritten' = (\/ overwritten
                       \/ change.sent.document # [of |-> change.id, made |-> revised[change.id]])
    /\ change' = [change EXCEPT !.done = TRUE]
    /\ UNCHANGED <<libraryOpen, selectedMemory, editor, detailRequest, listVars>>

DeletionStored ==
    /\ change.kind = "delete" /\ ~change.done /\ revised[change.id] > 0
    /\ revised' = [revised EXCEPT ![change.id] = 0]
    /\ change' = [change EXCEPT !.done = TRUE]
    /\ UNCHANGED <<libraryOpen, selectedMemory, editor, detailRequest, listVars, overwritten>>

\* notifyMemoryChanged: the list is asked for again where it is shown.
ChangeNotified(selected) ==
    IF libraryOpen /\ selected = NoMemory THEN ListsFor(archive.filter) ELSE UNCHANGED listVars

\* The answer becomes the document that is shown, whichever memory was opened meanwhile,
\* unless there is none.
SaveAnswered ==
    /\ change.kind = "save" /\ change.done
    /\ editor' = IF editor = NoEditor THEN NoEditor
                 ELSE Editing(change.id, change.sent.version + 1)
    /\ change' = NoChange /\ ChangeNotified(selectedMemory)
    /\ UNCHANGED <<libraryOpen, selectedMemory, detailRequest, revised, overwritten>>

\* The memory that is open by then is closed.
DeletionAnswer ==
    /\ change.kind = "delete" /\ change.done
    /\ selectedMemory' = NoMemory /\ detailRequest' = NoMemory /\ editor' = NoEditor
    /\ change' = NoChange
    /\ IF libraryOpen
       THEN /\ pageRequests' = {r \in pageRequests : r.more}
                                   \union {[filter |-> archive.filter, more |-> FALSE]}
            /\ archive' = [archive EXCEPT !.items = @ \ {change.id}]
            /\ archiveLoading' = TRUE
       ELSE archive' = [archive EXCEPT !.items = @ \ {change.id}]
            /\ UNCHANGED <<pageRequests, archiveLoading>>
    /\ UNCHANGED <<libraryOpen, revised, overwritten>>

\* It was refused, or an answer was lost: what was stored is not shown.
ChangeFails ==
    /\ Busy /\ change' = NoChange
    /\ UNCHANGED <<libraryOpen, selectedMemory, editor, detailRequest, listVars, revised, overwritten>>

\* External: another device of the same account.
OtherDeviceRevises(m) ==
    /\ revised[m] \in 1..(MaxVersion - 1)
    /\ revised' = [revised EXCEPT ![m] = @ + 1]
    /\ UNCHANGED <<libraryOpen, selectedMemory, editor, detailRequest, change, listVars, overwritten>>

PageAnswered == \E r \in pageRequests : PageArrives(r) \/ PageFails(r)

LibraryNext ==
    \/ OpenLibrary \/ CloseLibrary \/ (\E f \in Filters : Narrow(f)) \/ LoadMore \/ PageAnswered
    \/ (\E m \in Memories : SelectMemory(m) \/ OtherDeviceRevises(m)) \/ BackToList
    \/ DetailArrives \/ DetailFails
    \/ Save \/ RemoveMemory \/ SaveStored \/ DeletionStored \/ SaveAnswered \/ DeletionAnswer \/ ChangeFails

LibrarySpec == LibraryInit /\ [][LibraryNext]_libraryVars

(***************************************************************************)
(* Properties.                                                             *)
(***************************************************************************)

\* A revision is only stored over the one it was made from, of the same memory, although
\* the drawer shows the document of another memory when a detail cannot be loaded or a save
\* is answered late, and other devices revise what is being edited.
RevisedFromStored == ~overwritten
=============================================================================
