----------------------------- MODULE FriendChat -----------------------------
(***************************************************************************)
(* The chat with friends (AgentChatDrawer.tsx): the friends one may talk   *)
(* to, the thread of the one who is selected, and the message that is      *)
(* written to them.  The text in the input is nobody's: it stays where the *)
(* friend is changed, and a send that fails puts its content back into it. *)
(***************************************************************************)
EXTENDS Naturals

CONSTANTS
    ChatFriends,
    Nobody,         \* selected = null
    Texts,          \* what is written
    NoText,
    MaxMessages     \* Bound: the sends of the user

ASSUME ChatAssumption ==
    Nobody \notin ChatFriends /\ NoText \notin Texts /\ MaxMessages \in Nat

VARIABLES
    chatOpen,       \* agentOpen
    friend,         \* selected
    hasThread,      \* the friends listed with a conversation
    opening,        \* createDirectConversation on its way, for this friend
    refreshes,      \* listDirectConversations calls of the drawer's opening
    threadRequest,  \* the messages effect awaits the thread of the selected friend
    earlier,        \* the thread that loadMore awaits a page of
    chatLoading,    \* loading
    bubbles,        \* messages: what is shown in the thread
    cursorOf,       \* messageCursor: whose thread has more pages
    input,          \* messageInput
    sending,        \* the message on its way: 0 when there is none
    acknowledged,   \* it was accepted, and the friends are being listed again
    messages        \* every message sent: its friend, its text, and whether it was stored

chatVars == <<chatOpen, friend, hasThread, opening, refreshes, threadRequest, earlier,
    chatLoading, bubbles, cursorOf, input, sending, acknowledged, messages>>
openingVars == <<hasThread, opening, refreshes>>
sendVars == <<sending, acknowledged, messages>>
threadVars == <<threadRequest, earlier, chatLoading, bubbles, cursorOf>>

Sent == 1..MaxMessages
Unsent == [to |-> Nobody, text |-> NoText, stored |-> FALSE]
OrNobody == ChatFriends \union {Nobody}

\* newClientMessageId: every send has an identifier of its own, a repeated one too.
Fresh(n) == messages[n] = Unsent /\ \A k \in 1..(n - 1) : messages[k] # Unsent

ChatTypeOK ==
    /\ chatOpen \in BOOLEAN /\ friend \in OrNobody
    /\ hasThread \subseteq ChatFriends /\ opening \in OrNobody /\ refreshes \in 0..1
    /\ threadRequest \in BOOLEAN /\ earlier \in OrNobody /\ chatLoading \in BOOLEAN
    /\ bubbles \subseteq [n : Sent, sent : BOOLEAN] /\ cursorOf \in OrNobody
    /\ input \in Texts \union {NoText} /\ sending \in {0} \union Sent /\ acknowledged \in BOOLEAN
    /\ messages \in [Sent -> [to : OrNobody, text : Texts \union {NoText}, stored : BOOLEAN]]

ChatInit ==
    /\ chatOpen = FALSE /\ friend = Nobody /\ hasThread = {} /\ opening = Nobody
    /\ refreshes = 0 /\ threadRequest = FALSE /\ earlier = Nobody /\ chatLoading = FALSE
    /\ bubbles = {} /\ cursorOf = Nobody /\ input = NoText /\ sending = 0
    /\ acknowledged = FALSE
    /\ messages = [n \in Sent |-> Unsent]

ChatBusy == opening # Nobody \/ sending # 0

(***************************************************************************)
(* What is shown.                                                          *)
(***************************************************************************)
\* The connections stand for the friends until a listing was answered.
FriendsOffered == chatOpen /\ friend = Nobody /\ ~ChatBusy
ThreadShown == chatOpen /\ friend # Nobody
EarlierOffered == ThreadShown /\ cursorOf # Nobody
SendOffered == ThreadShown /\ input # NoText /\ ~ChatBusy

(***************************************************************************)
(* The friends.                                                            *)
(***************************************************************************)
\* Bound: one listing and one page of the thread are on their way at a time.
OpenChat ==
    /\ ~chatOpen /\ refreshes = 0
    /\ chatOpen' = TRUE /\ refreshes' = 1 /\ chatLoading' = TRUE
    /\ threadRequest' = (friend # Nobody)
    /\ UNCHANGED <<friend, hasThread, opening, earlier, bubbles, cursorOf, input, sendVars>>

\* Nothing is forgotten: the friend is still selected when the drawer opens again.
CloseChat ==
    /\ chatOpen /\ chatOpen' = FALSE /\ threadRequest' = FALSE
    /\ UNCHANGED <<friend, openingVars, earlier, chatLoading, bubbles, cursorOf, input, sendVars>>

\* The listing ends the loading, the thread's too.
FriendsListed ==
    /\ refreshes > 0 /\ refreshes' = refreshes - 1 /\ chatLoading' = FALSE
    /\ \/ hasThread' = ChatFriends \/ UNCHANGED hasThread
    /\ UNCHANGED <<chatOpen, friend, opening, threadRequest, earlier, bubbles, cursorOf, input,
                   sendVars>>

Selects(f) ==
    /\ friend' = f
    /\ IF chatOpen THEN threadRequest' = TRUE /\ chatLoading' = TRUE
       ELSE UNCHANGED <<threadRequest, chatLoading>>
    /\ UNCHANGED <<chatOpen, refreshes, earlier, bubbles, cursorOf, input, sendVars>>

OpenFriend(f) ==
    /\ FriendsOffered
    /\ \/ f \in hasThread /\ Selects(f) /\ UNCHANGED <<hasThread, opening>>
       \/ /\ f \notin hasThread /\ opening' = f
          /\ UNCHANGED <<chatOpen, friend, hasThread, refreshes, threadVars, input, sendVars>>

ThreadCreated ==
    /\ opening # Nobody /\ opening' = Nobody
    /\ hasThread' = hasThread \union {opening}
    /\ Selects(opening)

ThreadNotCreated ==
    /\ opening # Nobody /\ opening' = Nobody
    /\ UNCHANGED <<chatOpen, friend, hasThread, refreshes, threadVars, input, sendVars>>

BackToFriends ==
    /\ ThreadShown /\ friend' = Nobody /\ bubbles' = {} /\ threadRequest' = FALSE
    /\ UNCHANGED <<chatOpen, openingVars, earlier, chatLoading, cursorOf, input, sendVars>>

(***************************************************************************)
(* The thread.                                                             *)
(***************************************************************************)
StoredWith(f) == {n \in Sent : messages[n].to = f /\ messages[n].stored}
Page(f) == {[n |-> n, sent |-> TRUE] : n \in StoredWith(f)}

\* The thread replaces what is shown; the cursor stays with a page that has no other.
ThreadArrives ==
    /\ threadRequest /\ threadRequest' = FALSE /\ chatLoading' = FALSE
    /\ \E page \in {Page(friend), {}} : bubbles' = page
    /\ cursorOf' \in {friend, Nobody}
    /\ UNCHANGED <<chatOpen, friend, openingVars, earlier, input, sendVars>>

ThreadFails ==
    /\ threadRequest /\ threadRequest' = FALSE /\ chatLoading' = FALSE
    /\ UNCHANGED <<chatOpen, friend, openingVars, earlier, bubbles, cursorOf, input, sendVars>>

LoadEarlier ==
    /\ EarlierOffered /\ ~chatLoading
    /\ earlier = Nobody /\ earlier' = friend /\ chatLoading' = TRUE
    /\ UNCHANGED <<chatOpen, friend, openingVars, threadRequest, bubbles, cursorOf, input, sendVars>>

\* The page goes into the thread that is open by then.
EarlierArrives ==
    /\ earlier # Nobody /\ earlier' = Nobody /\ chatLoading' = FALSE
    /\ bubbles' = bubbles \union Page(earlier)
    /\ cursorOf' = Nobody
    /\ UNCHANGED <<chatOpen, friend, openingVars, threadRequest, input, sendVars>>

EarlierFails ==
    /\ earlier # Nobody /\ earlier' = Nobody /\ chatLoading' = FALSE
    /\ UNCHANGED <<chatOpen, friend, openingVars, threadRequest, bubbles, cursorOf, input, sendVars>>

(***************************************************************************)
(* Sending.                                                                *)
(***************************************************************************)
Write(t) ==
    /\ ThreadShown /\ input' = t
    /\ UNCHANGED <<chatOpen, friend, openingVars, threadVars, sendVars>>

SendMessage(n) ==
    /\ SendOffered /\ Fresh(n)
    /\ messages' = [messages EXCEPT ![n] = [to |-> friend, text |-> input, stored |-> FALSE]]
    /\ sending' = n /\ acknowledged' = FALSE /\ input' = NoText
    /\ bubbles' = bubbles \union {[n |-> n, sent |-> FALSE]}
    /\ UNCHANGED <<chatOpen, friend, openingVars, threadRequest, earlier, chatLoading, cursorOf>>

MessageStored ==
    /\ sending # 0 /\ ~messages[sending].stored
    /\ messages' = [messages EXCEPT ![sending].stored = TRUE]
    /\ UNCHANGED <<chatOpen, friend, openingVars, threadVars, input, sending, acknowledged>>

\* The bubble that was shown as being sent, wherever there is one.
Optimistic == {[n |-> sending, sent |-> FALSE]}

\* The friends are listed again before another message may be sent.
SendAnswer ==
    /\ sending # 0 /\ messages[sending].stored /\ ~acknowledged /\ acknowledged' = TRUE
    /\ bubbles' = IF Optimistic \subseteq bubbles
                  THEN (bubbles \ Optimistic) \union {[n |-> sending, sent |-> TRUE]}
                  ELSE bubbles
    /\ UNCHANGED <<chatOpen, friend, openingVars, threadRequest, earlier, chatLoading, cursorOf,
                   input, sending, messages>>

SendEnds ==
    /\ acknowledged /\ acknowledged' = FALSE /\ sending' = 0
    /\ hasThread' = ChatFriends
    /\ UNCHANGED <<chatOpen, friend, opening, refreshes, threadVars, input, messages>>

\* Faulty: the text is offered again, and its bubble stays.
BubblesAfterFailureKept == bubbles

BubblesAfterFailure == bubbles \ Optimistic

\* The content comes back over whatever was written meanwhile, and when it is the listing
\* that fails, of a message that was delivered.
SendFails ==
    /\ sending # 0 /\ sending' = 0 /\ acknowledged' = FALSE
    /\ bubbles' = BubblesAfterFailure
    /\ input' = messages[sending].text
    /\ UNCHANGED <<chatOpen, friend, openingVars, threadRequest, earlier, chatLoading, cursorOf,
                   messages>>

ChatNext ==
    \/ OpenChat \/ CloseChat \/ FriendsListed \/ ThreadCreated \/ ThreadNotCreated
    \/ (\E f \in ChatFriends : OpenFriend(f)) \/ BackToFriends
    \/ ThreadArrives \/ ThreadFails \/ LoadEarlier \/ EarlierArrives \/ EarlierFails
    \/ (\E t \in Texts : Write(t)) \/ (\E n \in Sent : SendMessage(n))
    \/ MessageStored \/ SendAnswer \/ SendEnds \/ SendFails

ChatSpec == ChatInit /\ [][ChatNext]_chatVars

(***************************************************************************)
(* Properties.                                                             *)
(***************************************************************************)

\* A bubble that is shown as being sent is the message on its way, whichever threads and
\* pages were shown meanwhile: none is left behind, which no answer would ever change.
SendingIsOnItsWay == \A b \in bubbles : ~b.sent => b.n = sending
=============================================================================
