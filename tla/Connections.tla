---------------------------- MODULE Connections ----------------------------
(***************************************************************************)
(* Adding a friend (RelationshipEditor.tsx), whom a search that is         *)
(* repeated while one types proposes, and the data of one's own cosmos     *)
(* (CosmosDataDrawer.tsx), with the form of the profile.                   *)
(***************************************************************************)
EXTENDS Integers

CONSTANTS
    People,
    NoPerson,       \* targetUserId = ''
    MaxQueries,     \* Bound: what is typed into the search
    MaxLoads        \* Bound: loads of the data on their way

ASSUME ConnectionsAssumption ==
    NoPerson \notin People /\ MaxQueries \in Nat /\ MaxLoads \in Nat \ {0}

VARIABLES
    relationshipEditorOpen,
    refining,       \* the editor was given a relationship
    query,          \* how often it was typed: discoveryRequestId
    searchTimer,    \* the query whose timeout runs, 0 for none: each one clears the last
    searches,       \* discoverUsers calls on their way
    people,         \* whom they found, whom one may connect with, and for which query
    candidate,      \* targetUserId
    discovering,
    affinity,       \* requestedAffinityIds, by what affinityRequestStates says
    adding,         \* createRelationship calls on their way
    relationships,  \* the friends the server has
    dataOpen,       \* dataDrawerOpen
    dataLoads,      \* loadData calls on their way
    dataLoading,    \* loading
    profileForm,    \* displayName, bio and tags: as stored, or typed
    profileSaving   \* the step of saveProfile

editorVars == <<relationshipEditorOpen, refining, query, searchTimer, searches, people, candidate,
    discovering, affinity>>
dataVars == <<dataOpen, dataLoads, dataLoading, profileForm, profileSaving>>
connectionVars == <<editorVars, adding, relationships, dataVars>>

Queries == 0..MaxQueries
OrNoPerson == People \union {NoPerson}
NoPeople == [found |-> {}, free |-> {}, query |-> 0]
Unknown == [p \in People |-> "unasked"]

ConnectionsTypeOK ==
    /\ relationshipEditorOpen \in BOOLEAN /\ refining \in BOOLEAN
    /\ query \in Queries /\ searchTimer \in {-1} \union Queries /\ searches \subseteq Queries
    /\ people \in [found : SUBSET People, free : SUBSET People, query : Queries]
    /\ candidate \in OrNoPerson /\ discovering \in BOOLEAN
    /\ affinity \in [People -> {"unasked", "loading", "resolved"}]
    /\ adding \subseteq People /\ relationships \subseteq People
    /\ dataOpen \in BOOLEAN /\ dataLoads \in 0..MaxLoads /\ dataLoading \in BOOLEAN
    /\ profileForm \in {"stored", "typed"}
    /\ profileSaving \in {"no", "patch", "cosmos", "load"}

NoTimer == -1

ConnectionsInit ==
    /\ relationshipEditorOpen = FALSE /\ refining = FALSE
    /\ query = 0 /\ searchTimer = NoTimer /\ searches = {} /\ people = NoPeople
    /\ candidate = NoPerson /\ discovering = FALSE /\ affinity = Unknown
    /\ adding = {} /\ relationships = {}
    /\ dataOpen = FALSE /\ dataLoads = 0 /\ dataLoading = FALSE /\ profileForm = "stored"
    /\ profileSaving = "no"

(***************************************************************************)
(* What is shown.                                                          *)
(***************************************************************************)
SearchOffered == relationshipEditorOpen /\ ~refining
PersonOffered(p) == SearchOffered /\ ~discovering /\ p \in people.free
SelectedPerson == IF candidate \in people.found THEN candidate ELSE NoPerson
AddOffered == relationshipEditorOpen /\ SelectedPerson \in people.free /\ adding = {}
DataShown == dataOpen
SaveOffered == DataShown /\ profileSaving = "no"
RefreshOffered == DataShown /\ ~dataLoading

(***************************************************************************)
(* Adding a friend.                                                        *)
(***************************************************************************)
\* The editor mounts and goes with its state: the answers of an old one find nothing.
EditorMounts(known) ==
    /\ relationshipEditorOpen' = TRUE /\ refining' = known
    /\ query' = 0 /\ searches' = {} /\ people' = NoPeople /\ candidate' = NoPerson
    /\ searchTimer' = IF known THEN NoTimer ELSE 0
    /\ discovering' = ~known /\ affinity' = Unknown

EditorUnmounts ==
    /\ relationshipEditorOpen' = FALSE /\ refining' = FALSE
    /\ query' = 0 /\ searches' = {} /\ people' = NoPeople /\ candidate' = NoPerson
    /\ searchTimer' = NoTimer /\ discovering' = FALSE /\ affinity' = Unknown

\* Given a relationship, nobody is looked for: what is refined there cannot be saved.
OpenRelationshipEditor(known) ==
    /\ ~relationshipEditorOpen /\ (known => relationships # {})
    /\ EditorMounts(known)
    /\ UNCHANGED <<adding, relationships, dataVars>>

CloseRelationshipEditor ==
    /\ relationshipEditorOpen /\ EditorUnmounts
    /\ UNCHANGED <<adding, relationships, dataVars>>

\* What was asked for before is no longer waited for, nor does it end "discovering".
TypeQuery ==
    /\ SearchOffered /\ query < MaxQueries
    /\ query' = query + 1 /\ searchTimer' = query + 1
    /\ UNCHANGED <<relationshipEditorOpen, refining, searches, people, candidate, discovering, affinity,
                   adding, relationships, dataVars>>

SearchStarts ==
    /\ searchTimer # NoTimer /\ searchTimer' = NoTimer
    /\ searches' = searches \union {searchTimer} /\ discovering' = TRUE
    /\ UNCHANGED <<relationshipEditorOpen, refining, query, people, candidate, affinity,
                   adding, relationships, dataVars>>

\* Faulty: every answer is taken.
AnswersQueryAny(q) == TRUE

AnswersQuery(q) == q = query

\* The effect of another target, or of other people: its affinity is asked for once, and
\* the answer of a person that is no longer listed is not asked for again.
AffinityWith(t, free) ==
    affinity' = IF t \in free /\ affinity[t] = "unasked"
                THEN [affinity EXCEPT ![t] = "loading"] ELSE affinity

\* The target stays when it was found again; otherwise somebody is chosen.
SearchArrives(q, found) ==
    /\ q \in searches /\ searches' = searches \ {q}
    /\ LET free == found \ relationships
       IN  IF AnswersQuery(q)
           THEN /\ people' = [found |-> found, free |-> free, query |-> q]
                /\ \/ candidate \in free /\ candidate' = candidate
                   \/ candidate \notin free /\ candidate' \in (IF free = {} THEN {NoPerson} ELSE free)
                /\ discovering' = FALSE
                /\ AffinityWith(candidate', free)
           ELSE UNCHANGED <<people, candidate, discovering, affinity>>
    /\ UNCHANGED <<relationshipEditorOpen, refining, query, searchTimer, adding, relationships,
                   dataVars>>

SearchFails(q) ==
    /\ q \in searches /\ searches' = searches \ {q}
    /\ IF AnswersQuery(q)
       THEN people' = [NoPeople EXCEPT !.query = q] /\ candidate' = NoPerson /\ discovering' = FALSE
       ELSE UNCHANGED <<people, candidate, discovering>>
    /\ UNCHANGED <<relationshipEditorOpen, refining, query, searchTimer, affinity, adding,
                   relationships, dataVars>>

ChoosePerson(p) ==
    /\ PersonOffered(p) /\ candidate' = p /\ AffinityWith(p, people.free)
    /\ UNCHANGED <<relationshipEditorOpen, refining, query, searchTimer, searches, people,
                   discovering, adding, relationships, dataVars>>

\* Answered or not.
AffinityResolved(p) ==
    /\ affinity[p] = "loading" /\ affinity' = [affinity EXCEPT ![p] = "resolved"]
    /\ UNCHANGED <<relationshipEditorOpen, refining, query, searchTimer, searches, people, candidate,
                   discovering, adding, relationships, dataVars>>

AddFriend ==
    /\ AddOffered /\ adding' = adding \union {candidate}
    /\ UNCHANGED <<editorVars, relationships, dataVars>>

\* The cosmos of the answer replaces the store's and the editor closes, the one that was
\* opened meanwhile too.  The profile of another cosmos fills the form again.
ProfileArrives(saving) ==
    IF dataOpen
    THEN /\ dataLoads < MaxLoads /\ dataLoads' = dataLoads + 1 /\ dataLoading' = TRUE
         /\ profileForm' = "stored" /\ profileSaving' = saving /\ UNCHANGED dataOpen
    ELSE profileSaving' = saving /\ UNCHANGED <<dataOpen, dataLoads, dataLoading, profileForm>>

FriendAdded(p) ==
    /\ p \in adding /\ adding' = adding \ {p}
    /\ relationships' = relationships \union {p}
    /\ EditorUnmounts
    /\ ProfileArrives(profileSaving)

AddFails(p) ==
    /\ p \in adding /\ adding' = adding \ {p}
    /\ UNCHANGED <<editorVars, relationships, dataVars>>

(***************************************************************************)
(* The data of the cosmos.                                                 *)
(***************************************************************************)
OpenData ==
    /\ ~dataOpen /\ dataLoads < MaxLoads
    /\ dataOpen' = TRUE /\ dataLoads' = dataLoads + 1 /\ dataLoading' = TRUE
    /\ profileForm' = "stored"
    /\ UNCHANGED <<editorVars, adding, relationships, profileSaving>>

CloseData ==
    /\ dataOpen /\ dataOpen' = FALSE
    /\ UNCHANGED <<editorVars, adding, relationships, dataLoads, dataLoading, profileForm,
                   profileSaving>>

\* The poll of the universe replaces the profile, and with it what is being typed.
PollArrives ==
    /\ dataOpen /\ ProfileArrives(profileSaving)
    /\ UNCHANGED <<editorVars, adding, relationships>>

RefreshData ==
    /\ RefreshOffered /\ dataLoads < MaxLoads
    /\ dataLoads' = dataLoads + 1 /\ dataLoading' = TRUE
    /\ UNCHANGED <<editorVars, adding, relationships, dataOpen, profileForm, profileSaving>>

\* Whichever load ends first ends the loading; a failed half keeps what it had.
DataLoaded ==
    /\ dataLoads > 0 /\ dataLoads' = dataLoads - 1 /\ dataLoading' = FALSE
    /\ profileSaving' \in {profileSaving, IF profileSaving = "load" THEN "no" ELSE profileSaving}
    /\ (dataLoads = 1 => profileSaving' # "load")
    /\ UNCHANGED <<editorVars, adding, relationships, dataOpen, profileForm>>

TypeProfile ==
    /\ DataShown /\ profileForm' = "typed"
    /\ UNCHANGED <<editorVars, adding, relationships, dataOpen, dataLoads, dataLoading, profileSaving>>

SaveProfile ==
    /\ SaveOffered /\ profileSaving' = "patch"
    /\ UNCHANGED <<editorVars, adding, relationships, dataOpen, dataLoads, dataLoading, profileForm>>

ProfilePatched ==
    /\ profileSaving = "patch" /\ ProfileArrives("cosmos")
    /\ UNCHANGED <<editorVars, adding, relationships>>

\* hydrateCosmos, and loadData by the handler itself besides the effect's.
CosmosAnswered ==
    /\ profileSaving = "cosmos" /\ dataLoads + 1 < MaxLoads
    /\ profileSaving' = "load" /\ dataLoading' = TRUE
    /\ dataLoads' = dataLoads + (IF dataOpen THEN 2 ELSE 1)
    /\ profileForm' = IF dataOpen THEN "stored" ELSE profileForm
    /\ UNCHANGED <<editorVars, adding, relationships, dataOpen>>

SaveProfileFails ==
    /\ profileSaving \in {"patch", "cosmos"} /\ profileSaving' = "no"
    /\ UNCHANGED <<editorVars, adding, relationships, dataOpen, dataLoads, dataLoading, profileForm>>

ConnectionsNext ==
    \/ (\E known \in BOOLEAN : OpenRelationshipEditor(known)) \/ CloseRelationshipEditor
    \/ TypeQuery \/ SearchStarts
    \/ \E q \in searches : SearchFails(q) \/ \E found \in SUBSET People : SearchArrives(q, found)
    \/ \E p \in People : ChoosePerson(p) \/ AffinityResolved(p) \/ FriendAdded(p) \/ AddFails(p)
    \/ AddFriend
    \/ OpenData \/ CloseData \/ PollArrives \/ RefreshData \/ DataLoaded \/ TypeProfile
    \/ SaveProfile \/ ProfilePatched \/ CosmosAnswered \/ SaveProfileFails

ConnectionsSpec == ConnectionsInit /\ [][ConnectionsNext]_connectionVars

(***************************************************************************)
(* Properties.                                                             *)
(***************************************************************************)

\* Once the editor is neither waiting to search nor searching, it lists the people of what
\* was typed last, in whatever order the searches were answered.
ListIsOfTheQuery ==
    SearchOffered /\ ~discovering /\ searchTimer = NoTimer => people.query = query
=============================================================================
