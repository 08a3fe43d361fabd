------------------------------ MODULE Session ------------------------------
(***************************************************************************)
(* Signing in and out of the web client: FriendsDemo.tsx, ProductApp.tsx,  *)
(* the session parts of useProductStore.ts and the token of apiClient.ts.  *)
(*                                                                         *)
(* Sign-ins are numbered; a token is the number of the sign-in it came     *)
(* from.  The store is written to localStorage by every change, a request  *)
(* carries the token that is in force when it is sent, and its answer is   *)
(* applied to the store whoever is signed in by then.                      *)
(***************************************************************************)
EXTENDS Naturals, Sequences

CONSTANTS
    Accounts,       \* the people of the entry screen
    NoAccount,
    MaxSignIns,     \* Bound: the sign-ins of a behaviour
    MaxLeaving      \* Bound: the sign-out requests on their way

ASSUME SessionAssumption ==
    NoAccount \notin Accounts /\ MaxSignIns \in Nat /\ MaxLeaving \in Nat

VARIABLES
    entered,        \* App's entered: ProductApp is mounted
    session,        \* the store's session, a sign-in or 0
    activeToken,    \* activeSessionToken, a sign-in or 0
    owner,          \* the accounts of the sign-ins so far
    accepted,       \* the sign-ins whose tokens the server accepts
    cosmosOf,       \* whose cosmos the store holds
    busy,           \* the entry screen's sign-in on its way
    restores,       \* the restoring requests and their effects' active flags
    restoring,      \* ProductApp's restoring
    restoreError,   \* a restoring request failed
    leaving,        \* the sign-out requests on their way, by the token they carry
    updates,        \* the tokens of the other requests that answer with a cosmos
    strayed         \* the store holds the answer to a request of another sign-in

sessionVars == <<entered, session, activeToken, owner, accepted, cosmosOf, busy, restores,
    restoring, restoreError, leaving, updates, strayed>>

SignIns == 1..MaxSignIns

SessionTypeOK ==
    /\ entered \in BOOLEAN /\ session \in {0} \union SignIns /\ activeToken \in {0} \union SignIns
    /\ owner \in Seq(Accounts) /\ Len(owner) <= MaxSignIns
    /\ accepted \subseteq 1..Len(owner) /\ cosmosOf \in Accounts \union {NoAccount}
    /\ busy \in Accounts \union {NoAccount}
    /\ restores \subseteq [of : SignIns, active : BOOLEAN]
    /\ restoring \in BOOLEAN /\ restoreError \in BOOLEAN
    /\ leaving \in Seq({0} \union SignIns) /\ Len(leaving) <= MaxLeaving
    /\ updates \subseteq {0} \union SignIns /\ strayed \in BOOLEAN

SessionInit ==
    /\ entered = FALSE /\ session = 0 /\ activeToken = 0 /\ owner = <<>> /\ accepted = {}
    /\ cosmosOf = NoAccount /\ busy = NoAccount
    /\ restores = {} /\ restoring = FALSE /\ restoreError = FALSE
    /\ leaving = <<>> /\ updates = {} /\ strayed = FALSE

\* token(): what was adopted, or what localStorage has.
Token == IF activeToken # 0 THEN activeToken ELSE session

\* The screens: a blank one while restoring, the retry, the entry, the universe.
EntryShown == ~entered \/ (~restoring /\ ~restoreError /\ session = 0)
RetryShown == entered /\ ~restoring /\ restoreError /\ session # 0
UniverseShown == entered /\ ~restoring /\ ~restoreError /\ session # 0

\* The restoring effect runs for every new session: the cleanup of the one before
\* makes its answer void.
Voided == {[r EXCEPT !.active = FALSE] : r \in restores}

RestoreStarts(s) ==
    /\ restores' = Voided \union {[of |-> s, active |-> TRUE]}
    /\ restoring' = TRUE /\ restoreError' = FALSE

RestoreStops ==
    restores' = Voided /\ restoring' = FALSE /\ restoreError' = FALSE

(***************************************************************************)
(* Entering.                                                               *)
(***************************************************************************)
Enter(account) ==
    /\ EntryShown /\ busy = NoAccount /\ Len(owner) < MaxSignIns
    /\ busy' = account
    /\ UNCHANGED <<entered, session, activeToken, owner, accepted, cosmosOf, restores, restoring,
                   restoreError, leaving, updates, strayed>>

\* adoptSessionToken, authenticate, onEnter.
EnterAnswer ==
    /\ busy # NoAccount
    /\ LET s == Len(owner) + 1
       IN  /\ owner' = Append(owner, busy) /\ accepted' = accepted \union {s}
           /\ session' = s /\ activeToken' = s
           /\ RestoreStarts(s)
    /\ cosmosOf' = busy /\ strayed' = FALSE
    /\ entered' = TRUE /\ busy' = NoAccount
    /\ UNCHANGED <<leaving, updates>>

EnterFails ==
    /\ busy # NoAccount /\ busy' = NoAccount
    /\ UNCHANGED <<entered, session, activeToken, owner, accepted, cosmosOf, restores, restoring,
                   restoreError, leaving, updates, strayed>>

(***************************************************************************)
(* Restoring: the whole cosmos is asked for again after every sign-in.     *)
(***************************************************************************)
\* Faulty: the answer of an effect that was cleaned up is applied.
HydratesAlways(r) == TRUE

Hydrates(r) == r.active

RestoreAnswer(r) ==
    /\ r \in restores /\ r.of \in accepted
    /\ restores' = restores \ {r}
    /\ cosmosOf' = IF Hydrates(r) THEN owner[r.of] ELSE cosmosOf
    /\ strayed' = (strayed /\ ~r.active)
    /\ restoring' = (restoring /\ ~r.active)
    /\ UNCHANGED <<entered, session, activeToken, owner, accepted, busy, restoreError, leaving,
                   updates>>

\* Any other failure than a refused token waits for the user to retry.
RestoreFails(r) ==
    /\ r \in restores
    /\ restores' = restores \ {r}
    /\ restoring' = (restoring /\ ~r.active) /\ restoreError' = (restoreError \/ r.active)
    /\ UNCHANGED <<entered, session, activeToken, owner, accepted, cosmosOf, busy, leaving,
                   updates, strayed>>

RestoreRefused(r) ==
    /\ r \in restores /\ r.of \notin accepted
    /\ restores' = restores \ {r}
    /\ restoring' = (restoring /\ ~r.active)
    /\ IF r.active THEN Len(leaving) < MaxLeaving /\ leaving' = Append(leaving, Token)
       ELSE UNCHANGED leaving
    /\ UNCHANGED <<entered, session, activeToken, owner, accepted, cosmosOf, busy, restoreError,
                   updates, strayed>>

Retry ==
    /\ RetryShown /\ RestoreStarts(session)
    /\ UNCHANGED <<entered, session, activeToken, owner, accepted, cosmosOf, busy, leaving,
                   updates, strayed>>

(***************************************************************************)
(* Leaving.  The button stays enabled, so there may be several requests.   *)
(***************************************************************************)
SignOut ==
    /\ UniverseShown /\ Len(leaving) < MaxLeaving
    /\ leaving' = Append(leaving, Token)
    /\ UNCHANGED <<entered, session, activeToken, owner, accepted, cosmosOf, busy, restores,
                   restoring, restoreError, updates, strayed>>

\* Faulty: the token stays in force when the session is gone.
TokenAfterSignOutKept == activeToken

TokenAfterSignOut == 0

\* The store is emptied whether the server answered or not, and whoever is signed in.
SignOutAnswer(i, ended) ==
    /\ i \in 1..Len(leaving)
    /\ leaving' = SubSeq(leaving, 1, i - 1) \o SubSeq(leaving, i + 1, Len(leaving))
    /\ accepted' = IF ended THEN accepted \ {leaving[i]} ELSE accepted
    /\ activeToken' = TokenAfterSignOut
    /\ session' = 0 /\ cosmosOf' = NoAccount /\ strayed' = FALSE
    /\ IF session # 0 THEN RestoreStops ELSE UNCHANGED <<restores, restoring, restoreError>>
    /\ UNCHANGED <<entered, owner, busy, updates>>

(***************************************************************************)
(* The other requests that bring a whole cosmos: createRelationship,       *)
(* markActivityBroadcastRead, recordPlanetInteraction, saved memories.     *)
(***************************************************************************)
RequestUpdate ==
    /\ UniverseShown /\ Token \notin updates
    /\ updates' = updates \union {Token}
    /\ UNCHANGED <<entered, session, activeToken, owner, accepted, cosmosOf, busy, restores,
                   restoring, restoreError, leaving, strayed>>

UpdateAnswer(s, answered) ==
    /\ s \in updates /\ updates' = updates \ {s}
    /\ answered => s \in accepted
    /\ cosmosOf' = IF answered THEN owner[s] ELSE cosmosOf
    /\ strayed' = IF answered THEN s # session ELSE strayed
    /\ UNCHANGED <<entered, session, activeToken, owner, accepted, busy, restores, restoring,
                   restoreError, leaving>>

\* The server ends a session by itself.
Expire(s) ==
    /\ s \in accepted /\ accepted' = accepted \ {s}
    /\ UNCHANGED <<entered, session, activeToken, owner, cosmosOf, busy, restores, restoring,
                   restoreError, leaving, updates, strayed>>

\* The page is loaded again: the store comes back from localStorage, requests do not.
Reload ==
    /\ entered \/ busy # NoAccount
    /\ entered' = FALSE /\ activeToken' = 0 /\ busy' = NoAccount
    /\ restores' = {} /\ restoring' = FALSE /\ restoreError' = FALSE
    /\ leaving' = <<>> /\ updates' = {}
    /\ UNCHANGED <<session, owner, accepted, cosmosOf, strayed>>

RestoreEnded == \E r \in restores : RestoreAnswer(r) \/ RestoreFails(r) \/ RestoreRefused(r)

SessionNext ==
    \/ \E account \in Accounts : Enter(account)
    \/ EnterAnswer \/ EnterFails
    \/ RestoreEnded \/ Retry
    \/ SignOut \/ \E i \in 1..Len(leaving), ended \in BOOLEAN : SignOutAnswer(i, ended)
    \/ RequestUpdate \/ \E s \in updates, answered \in BOOLEAN : UpdateAnswer(s, answered)
    \/ \E s \in accepted : Expire(s)
    \/ Reload

SessionSpec == SessionInit /\ [][SessionNext]_sessionVars

(***************************************************************************)
(* Properties.                                                             *)
(***************************************************************************)

\* The token a request would carry is the session's: none is left in force by a
\* session that is gone, and a second sign-out that is answered after the next
\* sign-in leaves neither.
TokenIsSessions == Token = session

\* The store holds the cosmos of the account that is signed in, whatever restoring
\* answers are late: unless an answer to another request of another sign-in came.
OwnCosmos == session # 0 /\ ~strayed => cosmosOf = owner[session]
=============================================================================
