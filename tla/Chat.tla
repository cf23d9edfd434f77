-------------------------------- MODULE Chat --------------------------------
(***************************************************************************)
(* Conversations and their messages: open a conversation, read it, list a    *)
(* user's conversations, post a message, list the latest messages, upload    *)
(* files, as concurrent requests over chat.conversations and chat.messages.  *)
(*                                                                         *)
(* created_at is now() of the INSERT, the start of its transaction, while   *)
(* the row is seen from its commit on: a message may be seen after another  *)
(* of a later created_at.  The clock of the database does not go backwards, *)
(* and an answer takes at least one tick to reach its client; rows inserted  *)
(* at the same time may share a created_at.  Nothing updates a conversation, *)
(* so that its updated_at is its created_at.                                *)
(***************************************************************************)
EXTENDS Integers, Sequences, Functions, FiniteSets

CONSTANTS
  Request,    \* requests ever sent: the bound on the length of a history
  User,       \* authenticated users
  Profile,    \* those with a row in identity.users
  Workspace,  \* rows of organizations.workspaces
  Place,      \* the users and workspaces clients send together
  Source,     \* values of the enum chat.message_source
  Sent,       \* values clients send as source
  Limit       \* values clients send as limit

ASSUME RequestAssumption == IsFiniteSet(Request)
ASSUME ProfileAssumption == Profile \subseteq User
ASSUME PlaceAssumption   == Place \subseteq User \X Workspace
ASSUME LimitAssumption   == Limit \subseteq Int

VARIABLES
  arg,            \* the request
  pc,             \* idle, statement, inserting, uploading, reply, done, lost
  answer,         \* the HTTP status sent, or none
  clock,          \* the clock of the database
  stamp,          \* created_at of the row a request inserts
  conversations,  \* chat.conversations, by the request that opened them
  messages,       \* chat.messages, by the request that posted them
  listed,         \* what the service returned to a listing, first to last
  before          \* history: the requests answered with success when r was sent

vars == <<arg, pc, answer, clock, stamp, conversations, messages, listed, before>>

Arg ==
  [op : {"open", "conversations"}, user : User, workspace : Workspace]
    \cup [op : {"read", "upload"}, user : User, conversation : Request]
    \cup [op : {"post"}, conversation : Request, source : Sent]
    \cup [op : {"list"}, conversation : Request, limit : Limit]
    \cup [op : {"none"}]

Label  == {"idle", "statement", "inserting", "uploading", "reply", "done", "lost"}
Answer == {"none", "200", "201", "500"}

TypeOK ==
  /\ arg \in [Request -> Arg]
  /\ pc \in [Request -> Label]
  /\ answer \in [Request -> Answer]
  /\ clock \in Nat
  /\ stamp \in [Request -> Nat]
  /\ conversations \subseteq Request
  /\ messages \subseteq Request
  /\ listed \in [Request -> Seq(Request)]
  /\ \A r \in Request : Range(listed[r]) \subseteq conversations \cup messages
  /\ before \in [Request -> SUBSET Request]

Init ==
  /\ arg = [r \in Request |-> [op |-> "none"]]
  /\ pc = [r \in Request |-> "idle"]
  /\ answer = [r \in Request |-> "none"]
  /\ clock = 0
  /\ stamp = [r \in Request |-> 0]
  /\ conversations = {} /\ messages = {}
  /\ listed = [r \in Request |-> << >>]
  /\ before = [r \in Request |-> {}]

-----------------------------------------------------------------------------
Goto(r, label) == pc' = [pc EXCEPT ![r] = label] /\ UNCHANGED answer

\* No route of chat catches anything: every exception is a 500.
Raise(r) == pc' = [pc EXCEPT ![r] = "done"] /\ answer' = [answer EXCEPT ![r] = "500"]

Succeeded == {r \in Request : answer[r] \in {"200", "201"}}

Receive(r, a) ==
  /\ pc[r] = "idle"
  /\ Goto(r, "statement")
  /\ arg' = [arg EXCEPT ![r] = a]
  /\ before' = [before EXCEPT ![r] = Succeeded]
  /\ UNCHANGED <<clock, stamp, conversations, messages, listed>>

At(r, op) == pc[r] = "statement" /\ arg[r].op = op

\* get_conversation: id and user must both match.
ReadConversation(r) ==
  /\ At(r, "read") \/ At(r, "upload")
  /\ IF arg[r].conversation \in conversations /\ arg[arg[r].conversation].user = arg[r].user
       THEN Goto(r, IF arg[r].op = "read" THEN "reply" ELSE "uploading") ELSE Raise(r)
  /\ UNCHANGED <<arg, clock, stamp, conversations, messages, listed, before>>

\* execute_upload_message_files: the storage service has no execute_upload_file,
\* which the first file of every upload calls.
UploadFiles(r) ==
  /\ pc[r] = "uploading"
  /\ Raise(r)
  /\ UNCHANGED <<arg, clock, stamp, conversations, messages, listed, before>>

\* create_conversation and create_message, the INSERT starts: the source of a
\* message must be in the enum.
BeginInsert(r) ==
  /\ At(r, "open") \/ At(r, "post")
  /\ \/ arg[r].op = "post" /\ arg[r].source \notin Source /\ Raise(r) /\ UNCHANGED stamp
     \/ /\ arg[r].op = "post" => arg[r].source \in Source
        /\ stamp' = [stamp EXCEPT ![r] = clock]
        /\ Goto(r, "inserting")
  /\ UNCHANGED <<arg, clock, conversations, messages, listed, before>>

\* The foreign key: the user of a conversation has a profile, and the
\* conversation of a message exists.
ReferenceHolds(r) ==
  IF arg[r].op = "open" THEN arg[r].user \in Profile ELSE arg[r].conversation \in conversations

\* The INSERT ends.  The composition root passes no agents_service, so
\* execute_create_message_with_run ends here.
CommitInsert(r) ==
  /\ pc[r] = "inserting"
  /\ \/ ~ReferenceHolds(r) /\ Raise(r) /\ UNCHANGED <<conversations, messages>>
     \/ /\ ReferenceHolds(r)
        /\ \/ arg[r].op = "open" /\ conversations' = conversations \cup {r} /\ UNCHANGED messages
           \/ arg[r].op = "post" /\ messages' = messages \cup {r} /\ UNCHANGED conversations
        /\ Goto(r, "reply")
  /\ UNCHANGED <<arg, clock, stamp, listed, before>>

\* Mutant: uncommitted rows are seen too.
Stored_Dirty(c) ==
  {m \in messages \cup {r \in Request : pc[r] = "inserting" /\ arg[r].op = "post"} :
     arg[m].conversation = c}

Stored(c) == {m \in messages : arg[m].conversation = c}

\* Mutant: the workspace is compared, the user is not.
Opened_Anyones(u, w) == {c \in conversations : arg[c].workspace = w}

Opened(u, w) == {c \in conversations : arg[c].user = u /\ arg[c].workspace = w}

\* Mutant: the newest row is skipped.
Newest_Offset(S, n) ==
  LET size == IF Cardinality(S) <= n THEN Cardinality(S) - 1 ELSE n
  IN {s \in [1..size -> S] :
        /\ IsInjective(s)
        /\ \A i, j \in 1..size : i < j => stamp[s[j]] <= stamp[s[i]]
        /\ S # {} => \E m \in S \ Range(s) : \A i \in 1..size : stamp[s[i]] <= stamp[m]}

\* ORDER BY created_at DESC LIMIT n; rows of one created_at come in any order.
Newest(S, n) ==
  LET size == IF Cardinality(S) < n THEN Cardinality(S) ELSE n
  IN {s \in [1..size -> S] :
        /\ IsInjective(s)
        /\ \A i, j \in 1..size : i < j => stamp[s[j]] <= stamp[s[i]]
        /\ \A m \in S \ Range(s) : \A i \in 1..size : stamp[m] <= stamp[s[i]]}

\* Mutant: the rows are left as they are.
Reversed_Not(s) == s

Reversed(s) == [i \in DOMAIN s |-> s[Len(s) + 1 - i]]

\* The service returns s, and the route hands its entities to a response model.
\* The model takes dictionaries, not the dataclasses of the domain: unless
\* there are none, it raises.
Respond(r, s) ==
  /\ listed' = [listed EXCEPT ![r] = s]
  /\ IF s = << >> THEN Goto(r, "reply") ELSE Raise(r)

ListConversations(r) ==
  /\ At(r, "conversations")
  /\ LET rows == Opened(arg[r].user, arg[r].workspace)
     IN \E s \in Newest(rows, Cardinality(rows)) : Respond(r, s)
  /\ UNCHANGED <<arg, clock, stamp, conversations, messages, before>>

\* list_messages, in chronological order; LIMIT must not be negative.
ListMessages(r) ==
  /\ At(r, "list")
  /\ \/ arg[r].limit < 0 /\ Raise(r) /\ UNCHANGED listed
     \/ /\ arg[r].limit >= 0
        /\ \E s \in Newest(Stored(arg[r].conversation), arg[r].limit) : Respond(r, Reversed(s))
  /\ UNCHANGED <<arg, clock, stamp, conversations, messages, before>>

Reply(r) ==
  /\ pc[r] = "reply"
  /\ pc' = [pc EXCEPT ![r] = "done"]
  /\ answer' = [answer EXCEPT ![r] = IF arg[r].op \in {"open", "post"} THEN "201" ELSE "200"]
  /\ clock' = clock + 1
  /\ UNCHANGED <<arg, stamp, conversations, messages, listed, before>>

InFlight(r) == pc[r] \in {"statement", "inserting", "uploading", "reply"}

\* A statement raises: the connection fails, the named workspace does not exist.
\* In state reply the statement had taken effect.
StatementFails(r) ==
  /\ InFlight(r)
  /\ Raise(r)
  /\ UNCHANGED <<arg, clock, stamp, conversations, messages, listed, before>>

Interrupted(r) ==
  /\ InFlight(r)
  /\ Goto(r, "lost")
  /\ UNCHANGED <<arg, clock, stamp, conversations, messages, listed, before>>

\* Conversations a client can name: those it was told of.
Known == {c \in Request : arg[c].op = "open" /\ answer[c] = "201"}

Args ==
  {[op |-> o, user |-> p[1], workspace |-> p[2]] : o \in {"open", "conversations"}, p \in Place}
    \cup [op : {"read", "upload"}, user : User, conversation : Known]
    \cup [op : {"post"}, conversation : Known, source : Sent]
    \cup [op : {"list"}, conversation : Known, limit : Limit]

Next ==
  \E r \in Request :
    \/ \E a \in Args : Receive(r, a)
    \/ ReadConversation(r) \/ UploadFiles(r) \/ BeginInsert(r) \/ CommitInsert(r)
    \/ ListConversations(r) \/ ListMessages(r) \/ Reply(r) \/ StatementFails(r) \/ Interrupted(r)

Spec == Init /\ [][Next]_vars
-----------------------------------------------------------------------------
\* The service returned to listing l.
Returned(l) == answer[l] = "200" \/ listed[l] # << >>

\* A message sent after the answer to another is never listed before it,
\* whatever the order in which their transactions and the listing ran.
SentOrderIsListedOrder ==
  \A l \in Request : arg[l].op = "list" =>
    \A i, j \in DOMAIN listed[l] : i < j => listed[l][j] \notin before[listed[l][i]]

\* A listing shows messages of its conversation only, none twice and no more
\* than limit.  A message answered before it was asked for is in it, unless limit
\* others are and none of those was answered before that message was sent.
AnsweredIsListed ==
  \A l \in Request : arg[l].op = "list" /\ Returned(l) =>
    /\ \A m \in Range(listed[l]) :
         arg[m].op = "post" /\ arg[m].conversation = arg[l].conversation
    /\ IsInjective(listed[l]) /\ Len(listed[l]) <= arg[l].limit
    /\ \A m \in before[l] :
         \/ arg[m].op # "post" \/ arg[m].conversation # arg[l].conversation
         \/ m \in Range(listed[l])
         \/ /\ Len(listed[l]) = arg[l].limit
            /\ \A x \in Range(listed[l]) : x \notin before[m]

\* A user's conversations in a workspace: each one whose opening was answered
\* before the list was asked for, none of another user or workspace, none twice,
\* and none before one that was opened after its answer, whatever the order in
\* which the INSERTs and the query ran.
ConversationsNewestFirst ==
  \A l \in Request : arg[l].op = "conversations" /\ Returned(l) =>
    /\ \A c \in Range(listed[l]) :
         arg[c].user = arg[l].user /\ arg[c].workspace = arg[l].workspace
    /\ IsInjective(listed[l])
    /\ \A c \in before[l] :
         \/ arg[c].op # "open" \/ arg[c].user # arg[l].user \/ arg[c].workspace # arg[l].workspace
         \/ c \in Range(listed[l])
    /\ \A i, j \in DOMAIN listed[l] : i < j => listed[l][i] \notin before[listed[l][j]]

\* What the service returns reaches the client: the routes say that they list
\* conversations and messages.  Violated.
ListingsAreSent == \A l \in Request : listed[l] # << >> => answer[l] # "500"
=============================================================================
