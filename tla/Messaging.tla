------------------------------ MODULE Messaging -----------------------------
(***************************************************************************)
(* Chat around one order: ConversationsService and MessagingService.       *)
(* A thread is looked up by its type, its order and its two parties and    *)
(* created when there is none, by either party or by a driver's claim; a   *)
(* message is written with the thread's unread counters in one transaction *)
(* and then announced.                                                     *)
(*                                                                         *)
(* Content, names and paging are left out; the Redis fan-out is external   *)
(* and changes no row.                                                     *)
(***************************************************************************)
EXTENDS Integers, FiniteSets, Push

CONSTANTS
    Buyer, Seller, Drivers,   \* the parties to the order
    Conversations,            \* bound on the threads ever created
    MessageIds                \* bound on the messages ever sent

Types == {"BUYER_SELLER", "BUYER_DELIVERY", "SELLER_DRIVER", "SUPPORT"}
Keys == [type : Types, scoped : BOOLEAN, parties : SUBSET Users]
ForParties(S) == UNION {[parties -> S] : parties \in SUBSET Users}
Thread ==
    [key : Keys, role : ForParties({"BUYER", "SELLER", "DELIVERY", "SUPPORT"}),
     unread : ForParties(Nat), last : MessageIds \cup {Null}]
Message == [conv : Conversations, sender : Users]

ASSUME MessagingAssumption ==
    /\ {Buyer, Seller} \cup Drivers \subseteq Users
    /\ Null \notin Users \cup Thread \cup Message

VARIABLES
    driver,        \* the driver of the order's latest delivery
    conversation,  \* Conversation rows with their participants
    message,       \* Message rows
    seen,          \* history: the messages committed when a party last marked
                   \* the thread read
    rivals         \* history: threads whose creation two requests shared

messaging == <<driver, conversation, message, seen, rivals>>

MessagingInit ==
    /\ driver = Null
    /\ conversation = [c \in Conversations |-> Null]
    /\ message = [m \in MessageIds |-> Null]
    /\ seen = [c \in Conversations |-> [u \in Users |-> {}]]
    /\ rivals = {}

Open == {c \in Conversations : conversation[c] # Null}
Parties(c) == conversation[c].key.parties
Sent(c) == {m \in MessageIds : message[m] # Null /\ message[m].conv = c}

-----------------------------------------------------------------------------
(* Threads                                                                 *)

\* The two sides of a thread of the order, as resolvePeerFromOrder has them.
Sides(type) ==
    CASE type = "BUYER_SELLER"   -> {Buyer, Seller}
      [] type = "BUYER_DELIVERY" -> {Buyer, driver}
      [] type = "SELLER_DRIVER"  -> {Seller, driver}
      [] type = "SUPPORT"        -> {}

\* resolvePeerFromOrder: the other side; refused to whoever is on neither,
\* and while no driver is assigned.
Peers(u, type) == IF u \in Sides(type) THEN Sides(type) \ {u, Null} ELSE {}

\* The key of a thread: its type, whether it belongs to the order, and its
\* parties, whoever asks.
Key(type, scoped, pair) == [type |-> type, scoped |-> scoped, parties |-> pair]
KeyOf(c) == conversation[c].key

\* resolveRole, by the profile a party has; in a support thread whoever
\* opened it is the customer.
ResolveRole(u, type, caller) ==
    CASE type = "SUPPORT"        -> IF u = caller THEN "BUYER" ELSE "SUPPORT"
      [] type = "BUYER_SELLER"   -> IF u = Seller THEN "SELLER" ELSE "BUYER"
      [] type = "BUYER_DELIVERY" -> IF u \in Drivers THEN "DELIVERY" ELSE "BUYER"
      [] type = "SELLER_DRIVER"  -> IF u \in Drivers THEN "DELIVERY" ELSE "SELLER"

\* Mutant: only threads the caller is the buyer of are found.
MatchingAsBuyer(k, u) == {c \in Open : KeyOf(c) = k /\ conversation[c].role[u] = "BUYER"}
\* The findFirst of findOrCreate and of ensureSellerDriverConversation.
Matching(k, u) == {c \in Open : KeyOf(c) = k}

Creating(t) == {Arg(v).key : v \in {w \in Tasks \ {t} : At(w, "createThread")}}
AskFor(t, k, u) ==
    IF Matching(k, u) # {} THEN Done(t) /\ UNCHANGED rivals
    ELSE /\ Goto(t, "createThread",
                [key |-> k, role |-> [v \in k.parties |-> ResolveRole(v, k.type, u)]])
         /\ rivals' = IF k \in Creating(t) THEN rivals \cup {k} ELSE rivals

\* findOrCreate: the peer is derived from the order,
FindOrCreate(t, u, type) ==
    /\ At(t, "idle")
    /\ \E peer \in Peers(u, type) : AskFor(t, Key(type, TRUE, {u, peer}), u)
    /\ UNCHANGED <<driver, conversation, message, seen, push>>
\* or given by its user id, with the order or without.
FindOrCreateWith(t, u, peer, type, scoped) ==
    /\ At(t, "idle") /\ u # peer
    /\ AskFor(t, Key(type, scoped, {u, peer}), u)
    /\ UNCHANGED <<driver, conversation, message, seen, push>>

\* A driver claims the delivery, or a later one of the order: claim calls
\* ensureSellerDriverConversation.
ClaimDelivery(t, d) ==
    /\ At(t, "idle")
    /\ driver' = d
    /\ AskFor(t, Key("SELLER_DRIVER", TRUE, {Seller, d}), Seller)
    /\ UNCHANGED <<conversation, message, seen, push>>

\* The thread and both participants, in one transaction, or not at all.
CreateThread(t) ==
    /\ At(t, "createThread")
    /\ \/ \E c \in Conversations \ Open :
             conversation' = [conversation EXCEPT ![c] =
                 [key |-> Arg(t).key, role |-> Arg(t).role,
                  unread |-> [u \in Arg(t).key.parties |-> 0], last |-> Null]]
       \/ UNCHANGED conversation
    /\ Done(t)
    /\ UNCHANGED <<driver, message, seen, rivals, push>>

\* assertParticipant.
IsParticipant(u, c) == c \in Open /\ u \in Parties(c)

\* markRead: the check, then the counter is reset.
MarkRead(t, u, c) ==
    /\ At(t, "idle") /\ IsParticipant(u, c)
    /\ Goto(t, "markRead", [user |-> u, conv |-> c])
    /\ UNCHANGED <<messaging, push>>
ResetUnread(t) ==
    /\ At(t, "markRead")
    /\ LET c == Arg(t).conv IN
       /\ conversation' = [conversation EXCEPT ![c].unread[Arg(t).user] = 0]
       /\ seen' = [seen EXCEPT ![c][Arg(t).user] = Sent(c)]
    /\ Done(t)
    /\ UNCHANGED <<driver, message, rivals, push>>

-----------------------------------------------------------------------------
(* Messages                                                                *)

\* send: the caller is a participant; the id and the date are taken.
Send(t, u, c) ==
    /\ At(t, "idle") /\ IsParticipant(u, c)
    /\ Goto(t, "writeMessage", [user |-> u, conv |-> c])
    /\ UNCHANGED <<messaging, push>>

\* Mutant: the sender's own counter is bumped too.
WriteMessageAll(t) ==
    /\ At(t, "writeMessage")
    /\ LET c == Arg(t).conv
           u == Arg(t).user IN
       \E m \in {x \in MessageIds : message[x] = Null} :
          /\ message' = [message EXCEPT ![m] = [conv |-> c, sender |-> u]]
          /\ conversation' = [conversation EXCEPT ![c].last = m,
                 ![c].unread = [v \in DOMAIN @ |-> @[v] + 1]]
    /\ Goto(t, "notifyPeers", Arg(t))
    /\ UNCHANGED <<driver, seen, rivals, push>>
\* The message, the thread's last message, and one more unread for everyone
\* but the sender, in one transaction.
WriteMessage(t) ==
    /\ At(t, "writeMessage")
    /\ LET c == Arg(t).conv
           u == Arg(t).user IN
       \E m \in {x \in MessageIds : message[x] = Null} :
          /\ message' = [message EXCEPT ![m] = [conv |-> c, sender |-> u]]
          /\ conversation' = [conversation EXCEPT ![c].last = m,
                 ![c].unread = [v \in DOMAIN @ |-> IF v = u THEN @[v] ELSE @[v] + 1]]
    /\ Goto(t, "notifyPeers", Arg(t))
    /\ UNCHANGED <<driver, seen, rivals, push>>
\* The transaction fails.
SendFails(t) ==
    /\ At(t, "writeMessage")
    /\ Done(t)
    /\ UNCHANGED <<messaging, push>>
\* publish and notifyPeers, which never fail the send.
NotifyPeers(t) ==
    /\ At(t, "notifyPeers")
    /\ SendToUsers(t, Parties(Arg(t).conv) \ {Arg(t).user})
    /\ UNCHANGED <<messaging, push>>

MessagingNext ==
    \E t \in Tasks :
        \/ \E u \in Users :
              \/ \E type \in Types : FindOrCreate(t, u, type)
              \/ \E peer \in Users, type \in Types, scoped \in BOOLEAN :
                    FindOrCreateWith(t, u, peer, type, scoped)
              \/ \E c \in Conversations : MarkRead(t, u, c) \/ Send(t, u, c)
        \/ \E d \in Drivers : ClaimDelivery(t, d)
        \/ CreateThread(t) \/ ResetUnread(t)
        \/ WriteMessage(t) \/ SendFails(t) \/ NotifyPeers(t)

-----------------------------------------------------------------------------
(* Properties                                                              *)

\* unreadCount is a counter and not a set of messages: through overlapping
\* sends, failed sends and readers marking the thread read meanwhile, it
\* still equals the messages of the others a party has not seen.
UnreadCountsUnseen ==
    \A c \in Open : \A u \in Parties(c) :
        conversation[c].unread[u] =
            Cardinality({m \in Sent(c) \ seen[c][u] : message[m].sender # u})

\* findOrCreate and ensureSellerDriverConversation are called idempotent: an
\* order has one thread of a type between two parties, whichever of them
\* asked and however often a driver claims, unless two requests that found
\* none were creating it at once.
OneThreadUnlessRivals ==
    \A c, e \in Open : c # e /\ KeyOf(c) = KeyOf(e) => KeyOf(c) \in rivals
=============================================================================
