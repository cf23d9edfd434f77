----------------------------- MODULE ChatProofs ------------------------------
(* Theorems about Chat, for every finite set of requests.                   *)
EXTENDS Chat, FiniteSetTheorems, TLAPS

\* A request that inserts a row, and the rows inserted.
Inserts(r) == arg[r].op \in {"open", "post"}
Rows == conversations \cup messages

\* Rows come from requests of their kind, and an answered one is of the past.
RowsOK ==
  /\ \A r \in Request : stamp[r] <= clock
  /\ \A r \in Rows : pc[r] \in {"reply", "done", "lost"}
  /\ \A r \in messages : arg[r].op = "post"
  /\ \A r \in conversations : arg[r].op = "open"
  /\ \A r \in Request : pc[r] = "inserting" => Inserts(r)
  /\ \A r \in Request : pc[r] = "reply" /\ Inserts(r) => r \in Rows
  /\ \A r \in Request : answer[r] # "none" => pc[r] = "done"
  /\ \A r \in Request : pc[r] \in {"idle", "statement", "inserting", "uploading"} => listed[r] = << >>
  /\ \A r \in Succeeded : Inserts(r) => r \in Rows /\ stamp[r] < clock

\* What was answered before r was sent has the smaller created_at.
PastOK ==
  \A r \in Request : \A q \in before[r] :
    /\ pc[r] # "idle" /\ q \in Succeeded
    /\ Inserts(q) /\ (pc[r] = "inserting" \/ r \in Rows) => stamp[q] < stamp[r]

\* Messages are listed oldest first, conversations newest first.
Chronological ==
  \A l \in Request : \A i, j \in DOMAIN listed[l] : i < j =>
    /\ arg[l].op = "list" => stamp[listed[l][i]] <= stamp[listed[l][j]]
    /\ arg[l].op = "conversations" => stamp[listed[l][j]] <= stamp[listed[l][i]]

\* A listing that has run shows what it must, answered or not.
ListsAnswered(l) ==
  /\ \A m \in Range(listed[l]) :
       arg[m].op = "post" /\ arg[m].conversation = arg[l].conversation
  /\ IsInjective(listed[l]) /\ Len(listed[l]) <= arg[l].limit
  /\ \A m \in before[l] :
       \/ arg[m].op # "post" \/ arg[m].conversation # arg[l].conversation
       \/ m \in Range(listed[l])
       \/ /\ Len(listed[l]) = arg[l].limit
          /\ \A x \in Range(listed[l]) : x \notin before[m]

ListsOpened(l) ==
  /\ \A c \in Range(listed[l]) :
       arg[c].user = arg[l].user /\ arg[c].workspace = arg[l].workspace
  /\ IsInjective(listed[l])
  /\ \A c \in before[l] :
       \/ arg[c].op # "open" \/ arg[c].user # arg[l].user \/ arg[c].workspace # arg[l].workspace
       \/ c \in Range(listed[l])

ListingsOK ==
  \A l \in Request : pc[l] = "reply" \/ Returned(l) =>
    /\ arg[l].op = "list" => ListsAnswered(l)
    /\ arg[l].op = "conversations" => ListsOpened(l)

ChatInv == TypeOK /\ RowsOK /\ PastOK /\ Chronological /\ ListingsOK

-----------------------------------------------------------------------------
\* What the query returns: rows of S, each once, latest first, and either all of
\* them or n of them, none of those left out being later.
LEMMA NewestFacts ==
  ASSUME TypeOK, NEW S, S \subseteq Request, NEW n \in Int, n >= 0, NEW s \in Newest(S, n)
  PROVE  /\ s \in Seq(Request) /\ Range(s) \subseteq S
         /\ \A i, j \in DOMAIN s : i < j => stamp[s[j]] <= stamp[s[i]]
         /\ \A m \in S \ Range(s) : \A x \in Range(s) : stamp[m] <= stamp[x]
         /\ IsInjective(s) /\ Len(s) <= n /\ Cardinality(Range(s)) = Len(s)
         /\ Range(s) = S \/ Len(s) = n
<1> DEFINE size == IF Cardinality(S) < n THEN Cardinality(S) ELSE n
<1>1. IsFiniteSet(S) /\ Cardinality(S) \in Nat
  BY RequestAssumption, FS_Subset, FS_CardinalityType
<1>2. size \in Nat
  BY <1>1
<1>3. /\ s \in [1..size -> S] /\ IsInjective(s)
      /\ \A i, j \in 1..size : i < j => stamp[s[j]] <= stamp[s[i]]
      /\ \A m \in S \ Range(s) : \A i \in 1..size : stamp[m] <= stamp[s[i]]
  BY DEF Newest
<1> HIDE DEF size
<1>4. s \in Seq(Request)
  BY <1>1, <1>2, <1>3
<1>5. Range(s) \subseteq S
  BY <1>3 DEF Range
<1>6. Cardinality(Range(s)) = size
  <2>1. s \in Injection(1..size, Range(s)) /\ s \in Surjection(1..size, Range(s))
    BY <1>3 DEF Injection, Surjection, Range
  <2>2. IsFiniteSet(1..size) /\ Cardinality(1..size) = size
    BY <1>2, FS_Interval
  <2> QED
    BY <2>1, <2>2, FS_Surjection
<1>8. Len(s) = size /\ size <= n
  BY <1>1, <1>2, <1>3, <1>4 DEF size
<1>7. Range(s) = S \/ Len(s) = n
  <2>1. CASE size = n
    BY <1>8, <2>1
  <2>2. CASE size # n
    BY <1>1, <1>5, <1>6, <2>2, FS_Subset DEF size
  <2> QED
    BY <2>1, <2>2
<1> QED
  BY <1>3, <1>4, <1>5, <1>6, <1>7, <1>8 DEF Range

\* Reversing keeps the rows and turns their order round.
LEMMA ReversedFacts ==
  ASSUME NEW s \in Seq(Request)
  PROVE  /\ Reversed(s) \in Seq(Request) /\ Range(Reversed(s)) = Range(s)
         /\ Len(Reversed(s)) = Len(s) /\ (IsInjective(s) => IsInjective(Reversed(s)))
         /\ \A i, j \in DOMAIN Reversed(s) : i < j =>
              \E k, m \in DOMAIN s : k < m /\ Reversed(s)[i] = s[m] /\ Reversed(s)[j] = s[k]
<1>1. DOMAIN Reversed(s) = 1..Len(s) /\ DOMAIN s = 1..Len(s) /\ Len(s) \in Nat
  BY DEF Reversed
<1>2. \A i \in 1..Len(s) : Len(s) + 1 - i \in 1..Len(s) /\ Len(s) + 1 - (Len(s) + 1 - i) = i
  BY <1>1
<1>3. \A i \in 1..Len(s) : Reversed(s)[i] = s[Len(s) + 1 - i]
  BY <1>1 DEF Reversed
<1>4. \A i \in 1..Len(s) : \E j \in 1..Len(s) : Reversed(s)[j] = s[i]
  <2> TAKE i \in 1..Len(s)
  <2>1. Len(s) + 1 - i \in 1..Len(s) /\ Reversed(s)[Len(s) + 1 - i] = s[i]
    BY <1>2, <1>3
  <2> QED
    BY <2>1
<1>5. Reversed(s) \in Seq(Request)
  BY <1>1, <1>2, <1>3 DEF Reversed
<1>6. Range(Reversed(s)) = Range(s)
  <2>1. Range(Reversed(s)) = {Reversed(s)[i] : i \in 1..Len(s)} /\ Range(s) = {s[i] : i \in 1..Len(s)}
    BY <1>1 DEF Range
  <2>2. \A i \in 1..Len(s) : \E j \in 1..Len(s) : Reversed(s)[i] = s[j]
    BY <1>2, <1>3
  <2> QED
    BY <1>4, <2>1, <2>2, Zenon
<1>7. ASSUME NEW i \in 1..Len(s), NEW j \in 1..Len(s), i < j
      PROVE  \E k, m \in DOMAIN s : k < m /\ Reversed(s)[i] = s[m] /\ Reversed(s)[j] = s[k]
  <2>1. Len(s) + 1 - j < Len(s) + 1 - i
    BY <1>1, <1>7
  <2> QED
    BY <1>1, <1>2, <1>3, <2>1
<1>8. Len(Reversed(s)) = Len(s)
  BY <1>1, <1>5
<1>9. ASSUME IsInjective(s) PROVE IsInjective(Reversed(s))
  <2>1. ASSUME NEW i \in 1..Len(s), NEW j \in 1..Len(s), Reversed(s)[i] = Reversed(s)[j]
        PROVE  i = j
    <3>1. s[Len(s) + 1 - i] = s[Len(s) + 1 - j]
      BY <1>3, <2>1
    <3>2. Len(s) + 1 - i = Len(s) + 1 - j
      BY <1>1, <1>2, <1>9, <3>1 DEF IsInjective
    <3> QED
      BY <1>1, <3>2
  <2> QED
    BY <1>1, <2>1 DEF IsInjective
<1> QED
  BY <1>1, <1>5, <1>6, <1>7, <1>8, <1>9

-----------------------------------------------------------------------------
\* What a client can send is well-typed.
LEMMA ArgsTyped == ASSUME TypeOK PROVE Args \subseteq Arg
BY PlaceAssumption DEF Args, Arg, Known

LEMMA GotoTyped ==
  ASSUME TypeOK, NEW r \in Request, NEW label \in {"statement", "inserting", "uploading", "reply", "lost"},
         Goto(r, label)
  PROVE  /\ pc' \in [Request -> Label]
         /\ answer' = answer /\ pc'[r] = label
         /\ \A q \in Request \ {r} : pc'[q] = pc[q]
BY DEF TypeOK, Goto, Label

LEMMA RaiseTyped ==
  ASSUME TypeOK, NEW r \in Request, Raise(r)
  PROVE  /\ pc' \in [Request -> Label]
         /\ answer' \in [Request -> Answer] /\ pc'[r] = "done" /\ answer'[r] = "500"
         /\ \A q \in Request \ {r} : pc'[q] = pc[q] /\ answer'[q] = answer[q]
BY DEF TypeOK, Raise, Answer, Label

LEMMA RespondTyped ==
  ASSUME TypeOK, NEW r \in Request, NEW s \in Seq(Request),
         Range(s) \subseteq conversations \cup messages, Respond(r, s),
         UNCHANGED <<arg, clock, stamp, conversations, messages, before>>
  PROVE  TypeOK'
<1>1. listed' \in [Request -> Seq(Request)]
  BY DEF Respond, TypeOK
<1>2. \A q \in Request : Range(listed'[q]) \subseteq conversations \cup messages
  BY DEF Respond, TypeOK
<1> QED
  BY <1>1, <1>2, GotoTyped, RaiseTyped DEF Respond, TypeOK

\* What list_messages and list_conversations return, and where they go on.
LEMMA ListedMessages ==
  ASSUME TypeOK, NEW r \in Request, ListMessages(r), ~(Raise(r) /\ UNCHANGED listed)
  PROVE  /\ arg[r].conversation \in Request /\ arg[r].limit \in Int /\ arg[r].limit >= 0
         /\ \E s \in Newest(Stored(arg[r].conversation), arg[r].limit) :
              /\ Respond(r, Reversed(s))
              /\ s \in Seq(Request) /\ Range(s) \subseteq messages
<1>1. arg[r].conversation \in Request /\ arg[r].limit \in Int
  BY LimitAssumption DEF ListMessages, At, TypeOK, Arg
<1>2. PICK s \in Newest(Stored(arg[r].conversation), arg[r].limit) :
        arg[r].limit >= 0 /\ Respond(r, Reversed(s))
  BY DEF ListMessages
<1>3. Stored(arg[r].conversation) \subseteq messages /\ messages \subseteq Request
  BY DEF Stored, TypeOK
<1>4. s \in Seq(Request) /\ Range(s) \subseteq messages
  <2> DEFINE S == Stored(arg[r].conversation)
  <2>1. s \in Newest(S, arg[r].limit) /\ S \subseteq Request /\ S \subseteq messages
    BY <1>2, <1>3
  <2> HIDE DEF S
  <2> QED
    BY <1>1, <1>2, <2>1, NewestFacts
<1> QED
  BY <1>1, <1>2, <1>4

LEMMA ListedConversations ==
  ASSUME TypeOK, NEW r \in Request, ListConversations(r)
  PROVE  \E s \in Seq(Request) :
           /\ Respond(r, s) /\ IsInjective(s)
           /\ Range(s) = Opened(arg[r].user, arg[r].workspace)
           /\ \A i, j \in DOMAIN s : i < j => stamp[s[j]] <= stamp[s[i]]
<1> DEFINE rows == Opened(arg[r].user, arg[r].workspace)
<1>1. PICK s \in Newest(rows, Cardinality(rows)) : Respond(r, s)
  BY DEF ListConversations
<1>2. rows \subseteq Request /\ IsFiniteSet(rows)
  <2>1. rows \subseteq Request
    BY DEF Opened, TypeOK
  <2> QED
    BY <2>1, RequestAssumption, FS_Subset
<1>3. Cardinality(rows) \in Int /\ Cardinality(rows) >= 0
  BY <1>2, FS_CardinalityType
<1> HIDE DEF rows
<1>4. /\ s \in Seq(Request) /\ Range(s) \subseteq rows
      /\ \A i, j \in DOMAIN s : i < j => stamp[s[j]] <= stamp[s[i]]
      /\ IsInjective(s) /\ Cardinality(Range(s)) = Len(s)
      /\ Range(s) = rows \/ Len(s) = Cardinality(rows)
  BY <1>1, <1>2, <1>3, NewestFacts
<1>5. Range(s) = rows
  BY <1>2, <1>4, FS_Subset
<1> QED
  BY <1>1, <1>4, <1>5 DEF rows

LEMMA TypeStep == ASSUME TypeOK, [Next]_vars PROVE TypeOK'
<1>1. CASE UNCHANGED vars
  BY <1>1 DEF TypeOK, vars
<1>2. ASSUME NEW r \in Request, NEW a \in Args, Receive(r, a) PROVE TypeOK'
  BY <1>2, ArgsTyped, GotoTyped DEF Receive, TypeOK, Succeeded
<1>3. ASSUME NEW r \in Request, ReadConversation(r) \/ UploadFiles(r) PROVE TypeOK'
  <2>1. Goto(r, "reply") \/ Goto(r, "uploading") \/ Raise(r)
    BY <1>3 DEF ReadConversation, UploadFiles
  <2> QED
    BY <1>3, <2>1, GotoTyped, RaiseTyped DEF ReadConversation, UploadFiles, TypeOK
<1>4. ASSUME NEW r \in Request, BeginInsert(r) PROVE TypeOK'
  <2>1. stamp' \in [Request -> Nat]
    BY <1>4 DEF BeginInsert, TypeOK
  <2>2. Goto(r, "inserting") \/ Raise(r)
    BY <1>4 DEF BeginInsert
  <2>3. UNCHANGED <<arg, clock, conversations, messages, listed, before>>
    BY <1>4 DEF BeginInsert
  <2> QED
    BY <2>1, <2>2, <2>3, GotoTyped, RaiseTyped DEF TypeOK
<1>5. ASSUME NEW r \in Request, CommitInsert(r) PROVE TypeOK'
  <2>1. Goto(r, "reply") \/ Raise(r)
    BY <1>5 DEF CommitInsert
  <2>2. /\ conversations' \in {conversations, conversations \cup {r}}
        /\ messages' \in {messages, messages \cup {r}}
        /\ UNCHANGED <<arg, clock, stamp, listed, before>>
    BY <1>5 DEF CommitInsert
  <2> QED
    BY <2>1, <2>2, GotoTyped, RaiseTyped DEF TypeOK
<1>6. ASSUME NEW r \in Request, ListMessages(r) PROVE TypeOK'
  <2>1. CASE Raise(r) /\ UNCHANGED listed
    BY <1>6, <2>1, RaiseTyped DEF ListMessages, TypeOK
  <2>2. CASE ~(Raise(r) /\ UNCHANGED listed)
    <3>1. PICK s \in Newest(Stored(arg[r].conversation), arg[r].limit) :
            Respond(r, Reversed(s)) /\ s \in Seq(Request) /\ Range(s) \subseteq messages
      BY <1>6, <2>2, ListedMessages
    <3>2. Reversed(s) \in Seq(Request) /\ Range(Reversed(s)) \subseteq conversations \cup messages
      BY <3>1, ReversedFacts
    <3> QED
      BY <1>6, <3>1, <3>2, RespondTyped DEF ListMessages
  <2> QED
    BY <2>1, <2>2
<1>7. ASSUME NEW r \in Request, ListConversations(r) PROVE TypeOK'
  <2>1. PICK s \in Seq(Request) :
          Respond(r, s) /\ Range(s) = Opened(arg[r].user, arg[r].workspace)
    BY <1>7, ListedConversations
  <2>2. Range(s) \subseteq conversations \cup messages
    BY <2>1 DEF Opened
  <2> QED
    BY <1>7, <2>1, <2>2, RespondTyped DEF ListConversations
<1>8. ASSUME NEW r \in Request, Reply(r) PROVE TypeOK'
  BY <1>8 DEF Reply, TypeOK, Answer, Label
<1>9. ASSUME NEW r \in Request, StatementFails(r) \/ Interrupted(r) PROVE TypeOK'
  BY <1>9, GotoTyped, RaiseTyped DEF StatementFails, Interrupted, TypeOK
<1> QED
  BY <1>1, <1>2, <1>3, <1>4, <1>5, <1>6, <1>7, <1>8, <1>9 DEF Next

-----------------------------------------------------------------------------
\* What the proofs of the single actions share: who a row and a history name.
LEMMA Names ==
  ASSUME ChatInv
  PROVE  /\ before \in [Request -> SUBSET Request] /\ Rows \subseteq Request
         /\ \A r \in Request : r \in Succeeded => pc[r] = "done"
         /\ \A r \in Rows : Inserts(r)
         /\ \A l \in Request : \A i \in DOMAIN listed[l] : listed[l][i] \in Rows
BY DEF ChatInv, TypeOK, RowsOK, Succeeded, Range, Rows, Inserts

LEMMA ReceiveStep ==
  ASSUME ChatInv, NEW r \in Request, NEW a \in Args, Receive(r, a)
  PROVE  RowsOK' /\ PastOK' /\ Chronological' /\ ListingsOK'
<1>1. /\ pc[r] = "idle" /\ pc'[r] = "statement" /\ arg'[r] = a /\ before'[r] = Succeeded
      /\ \A q \in Request \ {r} : pc'[q] = pc[q] /\ arg'[q] = arg[q] /\ before'[q] = before[q]
      /\ UNCHANGED <<answer, clock, stamp, conversations, messages, listed>>
  BY DEF Receive, Goto, ChatInv, TypeOK
<1>2. /\ Succeeded' = Succeeded /\ r \notin Succeeded /\ r \notin Rows /\ Succeeded \subseteq Request
      /\ listed[r] = << >> /\ Rows' = Rows
  BY <1>1, Names DEF Succeeded, ChatInv, RowsOK, Rows
<1>3. RowsOK'
  BY <1>1, <1>2, Names DEF ChatInv, RowsOK, Inserts, Rows
<1>4. PastOK'
  BY <1>1, <1>2, Names DEF ChatInv, PastOK, Inserts
<1>5. Chronological'
  BY <1>1, <1>2 DEF ChatInv, Chronological
<1>6. ListingsOK'
  <2> SUFFICES ASSUME NEW l \in Request, pc'[l] = "reply" \/ Returned(l)'
               PROVE  /\ arg'[l].op = "list" => ListsAnswered(l)'
                      /\ arg'[l].op = "conversations" => ListsOpened(l)'
    BY DEF ListingsOK
  <2>1. l # r
    BY <1>1, <1>2 DEF Succeeded, Returned
  <2>2. /\ arg[l].op = "list" => ListsAnswered(l)
        /\ arg[l].op = "conversations" => ListsOpened(l)
    BY <1>1, <2>1 DEF ChatInv, ListingsOK, Returned
  <2>3. \A m \in before[l] : m # r /\ m \in Request
    BY <1>2, Names DEF ChatInv, PastOK
  <2>4. \A m \in Range(listed[l]) : m # r /\ m \in Request
    BY <1>2, Names DEF Range
  <2> QED
    BY <1>1, <2>1, <2>2, <2>3, <2>4 DEF ListsAnswered, ListsOpened
<1> QED
  BY <1>3, <1>4, <1>5, <1>6

\* A step that writes no row and no listing and answers with no success.
LEMMA QuietStep ==
  ASSUME ChatInv, NEW r \in Request, pc[r] \in {"statement", "inserting", "uploading", "reply"},
         pc' = [pc EXCEPT ![r] = pc'[r]], pc'[r] \in {"uploading", "reply", "done", "lost"},
         answer' = answer \/ Raise(r),
         pc'[r] = "reply" => arg[r].op = "read",
         pc'[r] = "uploading" => pc[r] = "statement",
         answer' # answer => pc'[r] = "done",
         UNCHANGED <<arg, clock, stamp, conversations, messages, listed, before>>
  PROVE  RowsOK' /\ PastOK' /\ Chronological' /\ ListingsOK'
<1>1. /\ \A q \in Request \ {r} : pc'[q] = pc[q] /\ answer'[q] = answer[q]
      /\ answer'[r] \in {answer[r], "500"} /\ answer[r] = "none"
      /\ (answer'[r] = "none" \/ pc'[r] = "done")
  BY RaiseTyped DEF ChatInv, TypeOK, RowsOK
<1>2. Succeeded' = Succeeded /\ Rows' = Rows
  BY <1>1 DEF Succeeded, Rows
<1>3. RowsOK'
  <2>1. r \in Rows => pc[r] = "reply"
    BY DEF ChatInv, RowsOK
  <2>2. pc[r] = "reply" => pc'[r] # "uploading"
    OBVIOUS
  <2>3. \A q \in Rows' : pc'[q] \in {"reply", "done", "lost"}
    BY <1>1, <1>2, <2>1, <2>2, Names DEF ChatInv, RowsOK
  <2> QED
    BY <1>1, <1>2, <2>3, Names DEF ChatInv, RowsOK, Inserts
<1>4. PastOK'
  BY <1>1, <1>2, Names DEF ChatInv, PastOK, Inserts
<1>5. Chronological'
  BY DEF ChatInv, Chronological
<1>6. ListingsOK'
  BY <1>1 DEF ChatInv, ListingsOK, ListsAnswered, ListsOpened, Returned
<1> QED
  BY <1>3, <1>4, <1>5, <1>6

LEMMA InsertStep ==
  ASSUME ChatInv, NEW r \in Request, BeginInsert(r), ~Raise(r)
  PROVE  RowsOK' /\ PastOK' /\ Chronological' /\ ListingsOK'
<1>1. /\ Inserts(r) /\ pc[r] = "statement" /\ pc'[r] = "inserting" /\ stamp'[r] = clock
      /\ \A q \in Request \ {r} : pc'[q] = pc[q] /\ stamp'[q] = stamp[q]
      /\ UNCHANGED <<arg, answer, clock, conversations, messages, listed, before>>
  BY DEF BeginInsert, At, Goto, ChatInv, TypeOK, Inserts
<1>2. r \notin Rows /\ r \notin Succeeded /\ Succeeded' = Succeeded /\ Rows' = Rows
  BY <1>1, Names DEF ChatInv, RowsOK, Succeeded, Rows
<1>3. RowsOK'
  <2>1. \A q \in Request : stamp'[q] <= clock'
    <3>1. clock \in Nat /\ \A q \in Request : stamp[q] <= clock
      BY DEF ChatInv, TypeOK, RowsOK
    <3> QED
      BY <1>1, <3>1
  <2>2. \A q \in Succeeded' : Inserts(q)' => q \in Rows' /\ stamp'[q] < clock'
    <3>1. \A q \in Succeeded : q \in Request /\ q # r
      BY <1>2 DEF Succeeded
    <3> QED
      BY <1>1, <1>2, <3>1 DEF ChatInv, RowsOK, Inserts
  <2>3. \A q \in Rows' : pc'[q] \in {"reply", "done", "lost"}
    BY <1>1, <1>2, Names DEF ChatInv, RowsOK
  <2> QED
    BY <1>1, <1>2, <2>1, <2>2, <2>3 DEF ChatInv, RowsOK, Inserts
<1>4. PastOK'
  <2>1. \A q \in before[r] : q # r /\ (Inserts(q) => stamp[q] < clock)
    BY <1>2, Names DEF ChatInv, PastOK, RowsOK
  <2> QED
    BY <1>1, <1>2, <2>1, Names DEF ChatInv, PastOK, Inserts
<1>5. Chronological'
  BY <1>1, <1>2, Names DEF ChatInv, Chronological
<1>6. ListingsOK'
  BY <1>1 DEF ChatInv, ListingsOK, ListsAnswered, ListsOpened, Returned
<1> QED
  BY <1>3, <1>4, <1>5, <1>6

LEMMA CommitStep ==
  ASSUME ChatInv, NEW r \in Request, CommitInsert(r), ~Raise(r)
  PROVE  RowsOK' /\ PastOK' /\ Chronological' /\ ListingsOK'
<1>1. /\ Inserts(r) /\ pc[r] = "inserting" /\ pc'[r] = "reply"
      /\ \A q \in Request \ {r} : pc'[q] = pc[q]
      /\ UNCHANGED <<arg, answer, clock, stamp, listed, before>>
  BY DEF CommitInsert, Goto, ChatInv, TypeOK, RowsOK
<1>2. /\ \/ arg[r].op = "open" /\ conversations' = conversations \cup {r} /\ messages' = messages
         \/ arg[r].op = "post" /\ messages' = messages \cup {r} /\ conversations' = conversations
      /\ Rows' = Rows \cup {r}
  BY DEF CommitInsert, Rows
<1>3. Succeeded' = Succeeded
  BY <1>1 DEF Succeeded
<1>4. RowsOK'
  BY <1>1, <1>2, <1>3, Names DEF ChatInv, RowsOK, Inserts
<1>5. PastOK'
  BY <1>1, <1>2, <1>3, Names DEF ChatInv, PastOK, Inserts
<1>6. Chronological'
  BY <1>1 DEF ChatInv, Chronological
<1>7. ListingsOK'
  BY <1>1 DEF ChatInv, ListingsOK, ListsAnswered, ListsOpened, Inserts, Returned
<1> QED
  BY <1>4, <1>5, <1>6, <1>7

\* A listing returns s.
LEMMA RespondStep ==
  ASSUME ChatInv, NEW r \in Request, NEW s \in Seq(Request), Respond(r, s),
         pc[r] = "statement", arg[r].op \in {"list", "conversations"},
         UNCHANGED <<arg, clock, stamp, conversations, messages, before>>,
         \A i, j \in DOMAIN s : i < j =>
           /\ arg[r].op = "list" => stamp[s[i]] <= stamp[s[j]]
           /\ arg[r].op = "conversations" => stamp[s[j]] <= stamp[s[i]],
         arg[r].op = "list" => ListsAnswered(r)',
         arg[r].op = "conversations" => ListsOpened(r)'
  PROVE  RowsOK' /\ PastOK' /\ Chronological' /\ ListingsOK'
<1>1. /\ pc'[r] \in {"reply", "done"} /\ listed'[r] = s
      /\ \A q \in Request \ {r} : pc'[q] = pc[q] /\ answer'[q] = answer[q] /\ listed'[q] = listed[q]
      /\ answer'[r] = "none" \/ (answer'[r] = "500" /\ pc'[r] = "done")
      /\ answer[r] = "none"
  BY GotoTyped, RaiseTyped DEF Respond, ChatInv, TypeOK, RowsOK
<1>2. Succeeded' = Succeeded /\ Rows' = Rows /\ ~Inserts(r)
  BY <1>1 DEF Succeeded, Rows, Inserts
<1>3. RowsOK'
  BY <1>1, <1>2, Names DEF ChatInv, RowsOK, Inserts
<1>4. PastOK'
  BY <1>1, <1>2, Names DEF ChatInv, PastOK, Inserts
<1>5. Chronological'
  BY <1>1 DEF ChatInv, Chronological
<1>6. ListingsOK'
  <2>1. ASSUME NEW l \in Request \ {r}, pc'[l] = "reply" \/ Returned(l)'
        PROVE  /\ arg'[l].op = "list" => ListsAnswered(l)'
               /\ arg'[l].op = "conversations" => ListsOpened(l)'
    BY <1>1, <2>1 DEF ChatInv, ListingsOK, ListsAnswered, ListsOpened, Returned
  <2> QED
    BY <2>1 DEF ListingsOK
<1> QED
  BY <1>3, <1>4, <1>5, <1>6

LEMMA ListStep ==
  ASSUME ChatInv, NEW r \in Request, ListMessages(r), ~(Raise(r) /\ UNCHANGED listed)
  PROVE  RowsOK' /\ PastOK' /\ Chronological' /\ ListingsOK'
<1> DEFINE S == Stored(arg[r].conversation)
<1>1. /\ arg[r].limit \in Int /\ arg[r].limit >= 0
      /\ pc[r] = "statement" /\ arg[r].op = "list"
      /\ UNCHANGED <<arg, clock, stamp, conversations, messages, before>>
  BY ListedMessages DEF ListMessages, At, ChatInv
<1>2. PICK s \in Newest(S, arg[r].limit) : Respond(r, Reversed(s)) /\ s \in Seq(Request)
  BY ListedMessages DEF ChatInv
<1>3. S \subseteq messages /\ S \subseteq Request /\ S \subseteq Rows
  BY DEF Stored, ChatInv, TypeOK, Rows
<1>4. /\ Range(s) \subseteq S
      /\ \A i, j \in DOMAIN s : i < j => stamp[s[j]] <= stamp[s[i]]
      /\ \A m \in S \ Range(s) : \A x \in Range(s) : stamp[m] <= stamp[x]
      /\ IsInjective(s) /\ Len(s) <= arg[r].limit
      /\ Range(s) = S \/ Len(s) = arg[r].limit
  <2> DEFINE n == arg[r].limit
  <2>1. n \in Int /\ n >= 0 /\ s \in Newest(S, n) /\ TypeOK /\ S \subseteq Request
    BY <1>1, <1>2, <1>3 DEF ChatInv
  <2> HIDE DEF S, n
  <2>2. /\ Range(s) \subseteq S
        /\ \A i, j \in DOMAIN s : i < j => stamp[s[j]] <= stamp[s[i]]
        /\ \A m \in S \ Range(s) : \A x \in Range(s) : stamp[m] <= stamp[x]
        /\ IsInjective(s) /\ Len(s) <= n
        /\ Range(s) = S \/ Len(s) = n
    BY <2>1, NewestFacts
  <2> QED
    BY <2>2 DEF n
<1>5. /\ Reversed(s) \in Seq(Request) /\ Range(Reversed(s)) = Range(s)
      /\ Len(Reversed(s)) = Len(s) /\ IsInjective(Reversed(s))
      /\ \A i, j \in DOMAIN Reversed(s) : i < j => stamp[Reversed(s)[i]] <= stamp[Reversed(s)[j]]
  BY <1>2, <1>4, ReversedFacts
<1>6. listed'[r] = Reversed(s)
  BY <1>2 DEF Respond, ChatInv, TypeOK
<1>7. ListsAnswered(r)'
  <2> SUFFICES ASSUME NEW m \in before[r], arg[m].op = "post", arg[m].conversation = arg[r].conversation,
                      m \notin Range(s)
               PROVE  Len(s) = arg[r].limit /\ \A x \in Range(s) : x \notin before[m]
    <3>1. \A m \in Range(s) : arg[m].op = "post" /\ arg[m].conversation = arg[r].conversation
      BY <1>4 DEF Stored, ChatInv, RowsOK
    <3> QED
      BY <1>1, <1>4, <1>5, <1>6, <3>1 DEF ListsAnswered
  <2>1. m \in S /\ m \in Request
    BY Names DEF ChatInv, PastOK, RowsOK, Stored, Rows, Inserts
  <2>2. ASSUME NEW x \in Range(s), x \in before[m] PROVE FALSE
    <3>1. x \in Rows /\ m \in Rows
      BY <1>3, <1>4, <2>1
    <3>2. stamp[x] < stamp[m]
      BY <2>1, <2>2, <3>1, Names DEF ChatInv, PastOK
    <3>3. stamp[m] <= stamp[x] /\ stamp[m] \in Nat /\ stamp[x] \in Nat
      BY <1>4, <2>1, <3>1, Names DEF ChatInv, TypeOK
    <3> QED
      BY <3>2, <3>3
  <2> QED
    BY <1>4, <2>1, <2>2
<1> QED
  BY <1>1, <1>2, <1>5, <1>7, RespondStep

LEMMA ConversationsStep ==
  ASSUME ChatInv, NEW r \in Request, ListConversations(r)
  PROVE  RowsOK' /\ PastOK' /\ Chronological' /\ ListingsOK'
<1>1. /\ pc[r] = "statement" /\ arg[r].op = "conversations"
      /\ UNCHANGED <<arg, clock, stamp, conversations, messages, before>>
  BY DEF ListConversations, At
<1>2. PICK s \in Seq(Request) :
        /\ Respond(r, s) /\ IsInjective(s) /\ Range(s) = Opened(arg[r].user, arg[r].workspace)
        /\ \A i, j \in DOMAIN s : i < j => stamp[s[j]] <= stamp[s[i]]
  BY ListedConversations DEF ChatInv
<1>3. listed'[r] = s
  BY <1>2 DEF Respond, ChatInv, TypeOK
<1>4. ListsOpened(r)'
  <2>1. \A c \in before[r] : arg[c].op = "open" => c \in conversations
    BY Names DEF ChatInv, PastOK, RowsOK, Rows, Inserts
  <2> QED
    BY <1>1, <1>2, <1>3, <2>1 DEF ListsOpened, Opened
<1> QED
  BY <1>1, <1>2, <1>4, RespondStep

LEMMA ReplyStep ==
  ASSUME ChatInv, NEW r \in Request, Reply(r)
  PROVE  RowsOK' /\ PastOK' /\ Chronological' /\ ListingsOK'
<1>1. /\ pc[r] = "reply" /\ pc'[r] = "done" /\ answer'[r] \in {"200", "201"} /\ clock' = clock + 1
      /\ \A q \in Request \ {r} : pc'[q] = pc[q] /\ answer'[q] = answer[q]
      /\ UNCHANGED <<arg, stamp, conversations, messages, listed, before>>
  BY DEF Reply, ChatInv, TypeOK
<1>2. Succeeded' = Succeeded \cup {r} /\ Rows' = Rows
  BY <1>1 DEF Succeeded, Rows
<1>3. RowsOK'
  <2>1. \A q \in Request : stamp[q] < clock'
    BY <1>1 DEF ChatInv, TypeOK, RowsOK
  <2>2. \A q \in Succeeded' : Inserts(q)' => q \in Rows' /\ stamp'[q] < clock'
    BY <1>1, <1>2, <2>1, Names DEF ChatInv, RowsOK, Inserts, Succeeded
  <2>3. \A q \in Rows' : pc'[q] \in {"reply", "done", "lost"}
    BY <1>1, <1>2, Names DEF ChatInv, RowsOK
  <2>4. \A q \in Request : stamp'[q] <= clock'
    BY <1>1, <2>1 DEF ChatInv, TypeOK
  <2> QED
    BY <1>1, <1>2, <2>2, <2>3, <2>4 DEF ChatInv, RowsOK, Inserts
<1>4. PastOK'
  BY <1>1, <1>2, Names DEF ChatInv, PastOK, Inserts
<1>5. Chronological'
  BY <1>1 DEF ChatInv, Chronological
<1>6. ListingsOK'
  BY <1>1 DEF ChatInv, ListingsOK, ListsAnswered, ListsOpened, Returned
<1> QED
  BY <1>3, <1>4, <1>5, <1>6

LEMMA InvStep == ASSUME ChatInv, [Next]_vars PROVE ChatInv'
<1>0. TypeOK'
  BY TypeStep DEF ChatInv
<1> SUFFICES RowsOK' /\ PastOK' /\ Chronological' /\ ListingsOK'
  BY <1>0 DEF ChatInv
<1>1. CASE UNCHANGED vars
  <2>1. Succeeded' = Succeeded /\ Rows' = Rows
    BY <1>1 DEF vars, Succeeded, Rows
  <2>2. RowsOK'
    BY <1>1, <2>1 DEF ChatInv, vars, RowsOK, Inserts
  <2>3. PastOK'
    BY <1>1, <2>1 DEF ChatInv, vars, PastOK, Inserts
  <2>4. Chronological' /\ ListingsOK'
    BY <1>1 DEF ChatInv, vars, Chronological, ListingsOK, ListsAnswered, ListsOpened, Returned
  <2> QED
    BY <2>2, <2>3, <2>4
<1>2. ASSUME NEW r \in Request, NEW a \in Args, Receive(r, a)
      PROVE  RowsOK' /\ PastOK' /\ Chronological' /\ ListingsOK'
  BY <1>2, ReceiveStep
\* An exception, wherever it is raised, is quiet.
<1>3. ASSUME NEW r \in Request, Raise(r), pc[r] \in {"statement", "inserting", "uploading", "reply"},
             UNCHANGED <<arg, clock, stamp, conversations, messages, listed, before>>
      PROVE  RowsOK' /\ PastOK' /\ Chronological' /\ ListingsOK'
  <2>1. pc'[r] = "done" /\ pc' = [pc EXCEPT ![r] = pc'[r]]
    BY <1>3 DEF Raise, ChatInv, TypeOK
  <2> QED
    BY <1>3, <2>1, QuietStep
<1>4. ASSUME NEW r \in Request, ReadConversation(r) \/ UploadFiles(r)
      PROVE  RowsOK' /\ PastOK' /\ Chronological' /\ ListingsOK'
  <2>1. CASE Raise(r)
    BY <1>3, <1>4, <2>1 DEF ReadConversation, UploadFiles, At
  <2>2. CASE ~Raise(r)
    BY <1>4, <2>2, QuietStep DEF ReadConversation, UploadFiles, At, Goto, ChatInv, TypeOK
  <2> QED
    BY <2>1, <2>2
<1>5. ASSUME NEW r \in Request, BeginInsert(r) \/ CommitInsert(r)
      PROVE  RowsOK' /\ PastOK' /\ Chronological' /\ ListingsOK'
  <2>1. CASE Raise(r)
    <3>1. pc[r] \in {"statement", "inserting"} /\ pc'[r] = "done"
      BY <1>5, <2>1, RaiseTyped DEF BeginInsert, CommitInsert, At, ChatInv
    <3>2. UNCHANGED <<arg, clock, stamp, conversations, messages, listed, before>>
      BY <1>5, <3>1 DEF BeginInsert, CommitInsert, Goto, ChatInv, TypeOK
    <3> QED
      BY <1>3, <2>1, <3>1, <3>2
  <2>2. CASE ~Raise(r)
    BY <1>5, <2>2, InsertStep, CommitStep
  <2> QED
    BY <2>1, <2>2
<1>6. ASSUME NEW r \in Request, ListMessages(r)
      PROVE  RowsOK' /\ PastOK' /\ Chronological' /\ ListingsOK'
  <2>1. CASE Raise(r) /\ UNCHANGED listed
    BY <1>3, <1>6, <2>1 DEF ListMessages, At
  <2>2. CASE ~(Raise(r) /\ UNCHANGED listed)
    BY <1>6, <2>2, ListStep
  <2> QED
    BY <2>1, <2>2
<1>7. ASSUME NEW r \in Request, ListConversations(r)
      PROVE  RowsOK' /\ PastOK' /\ Chronological' /\ ListingsOK'
  BY <1>7, ConversationsStep
<1>8. ASSUME NEW r \in Request, Reply(r)
      PROVE  RowsOK' /\ PastOK' /\ Chronological' /\ ListingsOK'
  BY <1>8, ReplyStep
<1>9. ASSUME NEW r \in Request, StatementFails(r) \/ Interrupted(r)
      PROVE  RowsOK' /\ PastOK' /\ Chronological' /\ ListingsOK'
  BY <1>3, <1>9, QuietStep DEF StatementFails, Interrupted, InFlight, Goto, ChatInv, TypeOK
<1> QED
  BY <1>1, <1>2, <1>4, <1>5, <1>6, <1>7, <1>8, <1>9 DEF Next

LEMMA Invariant == Spec => []ChatInv
<1>1. Init => ChatInv
  <2> SUFFICES ASSUME Init PROVE ChatInv
    OBVIOUS
  <2>1. TypeOK
    BY DEF Init, TypeOK, Arg, Answer, Label, Range
  <2>2. RowsOK /\ PastOK /\ Chronological /\ ListingsOK
    BY DEF Init, RowsOK, PastOK, Chronological, ListingsOK, Succeeded, Inserts, Rows, Returned
  <2> QED
    BY <2>1, <2>2 DEF ChatInv
<1> QED
  BY <1>1, InvStep, PTL DEF Spec

-----------------------------------------------------------------------------
\* Every variable keeps its type, and listings show committed rows.
THEOREM ChatTypeCorrect == Spec => []TypeOK
<1>1. ChatInv => TypeOK
  BY DEF ChatInv
<1> QED
  BY <1>1, Invariant, PTL

\* Of two rows, one answered before the other was sent, the first is older.
LEMMA AnsweredIsOlder ==
  ASSUME ChatInv, NEW x \in Rows, NEW y \in Rows, y \in before[x]
  PROVE  ~(stamp[x] <= stamp[y])
<1>1. x \in Request /\ y \in Request /\ Inserts(y)
  BY Names
<1>2. stamp[y] < stamp[x] /\ stamp[x] \in Nat /\ stamp[y] \in Nat
  BY <1>1 DEF ChatInv, PastOK, TypeOK
<1> QED
  BY <1>2

\* No listing shows a message before one that was answered before it was sent
\* (chat_pg_adapter.py, create_message and list_messages).
THEOREM ListingsRespectSending == Spec => []SentOrderIsListedOrder
<1>1. ChatInv => SentOrderIsListedOrder
  BY Names, AnsweredIsOlder DEF ChatInv, Chronological, SentOrderIsListedOrder
<1> QED
  BY <1>1, Invariant, PTL

\* A message answered before a listing was asked for is in it, or limit others
\* are, none of them older by the client's reckoning.
THEOREM AnsweredAreListed == Spec => []AnsweredIsListed
<1>1. ChatInv => AnsweredIsListed
  BY DEF ChatInv, ListingsOK, ListsAnswered, AnsweredIsListed
<1> QED
  BY <1>1, Invariant, PTL

\* A list of conversations has those its user opened, the newest first
\* (chat_pg_adapter.py, create_conversation and list_conversations).
THEOREM ConversationsAreListed == Spec => []ConversationsNewestFirst
<1>1. ASSUME ChatInv PROVE ConversationsNewestFirst
  <2> SUFFICES ASSUME NEW l \in Request, arg[l].op = "conversations", Returned(l)
               PROVE  /\ ListsOpened(l)
                      /\ \A i, j \in DOMAIN listed[l] : i < j => listed[l][i] \notin before[listed[l][j]]
    BY DEF ConversationsNewestFirst, ListsOpened
  <2>1. ListsOpened(l)
    BY <1>1 DEF ChatInv, ListingsOK
  <2>2. \A i, j \in DOMAIN listed[l] : i < j => listed[l][i] \notin before[listed[l][j]]
    BY <1>1, Names, AnsweredIsOlder DEF ChatInv, Chronological
  <2> QED
    BY <2>1, <2>2
<1> QED
  BY <1>1, Invariant, PTL
=============================================================================
