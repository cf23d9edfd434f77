----------------------------- MODULE FilesProofs -----------------------------
(* Theorems about Files, for every set of calls, workspaces, users and names. *)
EXTENDS Files, TLAPS

\* What ties the variables together: a row was inserted by a call that is
\* over, an entry reported as created is there, and histories say the truth.
HistoryOK ==
  /\ \A f \in files : pc[f.id] = "done"
  /\ \A c \in Call : pc[c] # "done" => answer[c] = "none"
  /\ \A c \in Call : answer[c] = "created" => arg[c].op = "create" /\ RowOf(c) \in files
  /\ \A c \in Call : \A d \in known[c] : answer[d] \in {"created", "exists"}

\* "Already exists" is about an entry that is there.
ExistsNamesAnEntry ==
  \A c \in Call : answer[c] = "exists" =>
    arg[c].entry.parent # Null /\ \E f \in files : f.id # c /\ Key(f) = Key(RowOf(c))

FilesInv ==
  /\ TypeOK /\ HistoryOK /\ Forest
  /\ ExistsNamesAnEntry /\ CreatedStaysVisible /\ RetryFindsEntry

-----------------------------------------------------------------------------
\* The arguments clients can send are well-typed.
LEMMA CallArgsTyped == ASSUME TypeOK PROVE CallArgs \subseteq Arg
<1>1. Nameable \subseteq Target
  BY DEF Nameable, Ids, Target, TypeOK, Row
<1> QED
  BY <1>1 DEF CallArgs, Arg

\* A row that satisfies its references is a row of the table.
LEMMA RowTyped ==
  ASSUME TypeOK, NEW c \in Call, arg[c].op = "create", ReferencesHold(c)
  PROVE  RowOf(c) \in Row
<1>1. arg[c] \in [op : {"create"}, entry : Entry]
  BY DEF TypeOK, Arg
<1>2. Ids \subseteq Call
  BY DEF TypeOK, Row, Ids
<1> QED
  BY <1>1, <1>2 DEF RowOf, Row, Entry, ReferencesHold, Target

\* A call that returns keeps the types.
LEMMA ReturnTyped ==
  ASSUME TypeOK, NEW c \in Call, NEW a \in Answer, Return(c, a)
  PROVE  /\ pc' \in [Call -> {"idle", "call", "done"}] /\ answer' \in [Call -> Answer]
         /\ arg' = arg /\ known' = known
BY DEF TypeOK, Return

LEMMA TypeStep == ASSUME TypeOK, [Next]_vars PROVE TypeOK'
<1>1. CASE UNCHANGED vars
  BY <1>1 DEF TypeOK, vars
<1>2. ASSUME NEW c \in Call, NEW a \in CallArgs, Begin(c, a) PROVE TypeOK'
  BY <1>2, CallArgsTyped DEF Begin, TypeOK
<1>3. ASSUME NEW c \in Call, CreateFile(c) PROVE TypeOK'
  <2>1. /\ \E a \in Answer : Return(c, a)
        /\ listed' = listed
    BY <1>3 DEF CreateFile, Answer
  <2>2. files' \subseteq Row
    BY <1>3, RowTyped DEF CreateFile, TypeOK
  <2> QED
    BY <2>1, <2>2, ReturnTyped DEF TypeOK
<1>4. ASSUME NEW c \in Call, ListFiles(c) PROVE TypeOK'
  <2>1. \A p : Children(p) \subseteq Call
    BY DEF Children, TypeOK, Row
  <2> QED
    BY <1>4, <2>1, ReturnTyped DEF ListFiles, TypeOK, Answer
<1>5. ASSUME NEW c \in Call, GetFile(c) PROVE TypeOK'
  BY <1>5, ReturnTyped DEF GetFile, TypeOK, Answer
<1>6. ASSUME NEW c \in Call, CallFails(c) PROVE TypeOK'
  BY <1>6, ReturnTyped DEF CallFails, TypeOK, Answer
<1> QED
  BY <1>1, <1>2, <1>3, <1>4, <1>5, <1>6 DEF Next

-----------------------------------------------------------------------------
\* One INSERT keeps the tree a tree: nothing points to the new row yet.
LEMMA InsertKeepsForest ==
  ASSUME FilesInv, NEW c \in Call, pc[c] = "call", ReferencesHold(c),
         files' = files \cup {RowOf(c)}
  PROVE  Forest'
<1> DEFINE n == RowOf(c)
<1>1. c \notin Ids /\ c # Null
  BY IdAssumption DEF FilesInv, HistoryOK, Ids
<1>2. n.id = c /\ n.parent \in Ids \cup {Null}
  BY DEF RowOf, ReferencesHold
<1>3. \A f \in files : f.parent \in Ids \cup {Null}
  BY DEF FilesInv, Forest
<1>4. Ids' = Ids \cup {c}
  BY <1>2 DEF Ids
<1>5. \A f \in files' : f.parent \in Ids' \cup {Null}
  BY <1>2, <1>3, <1>4
<1>6. ASSUME NEW S \in SUBSET files', S # {} PROVE \E f \in S : \A g \in S : g.id # f.parent
  <2> HIDE DEF n
  <2>1. CASE S \subseteq {n}
    BY <1>1, <1>2, <1>6, <2>1
  <2>2. CASE ~(S \subseteq {n})
    <3>1. S \ {n} \in SUBSET files /\ S \ {n} # {}
      BY <2>2 DEF n
    <3>2. PICK f \in S \ {n} : \A g \in S \ {n} : g.id # f.parent
      BY <3>1 DEF FilesInv, Forest
    <3>3. n.id # f.parent
      BY <1>1, <1>2, <1>3, <3>1
    <3> QED
      BY <3>2, <3>3
  <2> QED
    BY <2>1, <2>2
<1> QED
  BY <1>5, <1>6 DEF Forest

-----------------------------------------------------------------------------
\* A call that returns touches nobody else, and rows only come in.
LEMMA OthersKept ==
  ASSUME FilesInv, NEW c \in Call, NEW a \in Answer, Return(c, a), pc[c] = "call"
  PROVE  /\ \A d \in Call \ {c} : pc'[d] = pc[d] /\ answer'[d] = answer[d]
         /\ pc'[c] = "done" /\ answer'[c] = a /\ answer[c] = "none"
         /\ arg' = arg /\ known' = known
         /\ \A d \in Call : RowOf(d)' = RowOf(d)
BY DEF Return, FilesInv, TypeOK, HistoryOK, RowOf

LEMMA InvStep == ASSUME FilesInv, [Next]_vars PROVE FilesInv'
<1>0. TypeOK'
  BY TypeStep DEF FilesInv
<1>a. known \in [Call -> SUBSET Call]
  BY DEF FilesInv, TypeOK
<1>1. CASE UNCHANGED vars
  BY <1>0, <1>1 DEF FilesInv, vars, HistoryOK, Forest, Ids, Key,
                    CreatedStaysVisible, RetryFindsEntry, ExistsNamesAnEntry, RowOf
<1>2. ASSUME NEW c \in Call, NEW a \in CallArgs, Begin(c, a) PROVE FilesInv'
  <2>1. /\ \A d \in Call \ {c} : pc'[d] = pc[d] /\ arg'[d] = arg[d] /\ known'[d] = known[d]
        /\ pc'[c] = "call" /\ answer[c] = "none" /\ pc[c] = "idle"
        /\ known'[c] = {d \in Call : answer[d] \in {"created", "exists"}}
        /\ answer' = answer /\ listed' = listed /\ files' = files
    BY <1>2 DEF Begin, FilesInv, TypeOK, HistoryOK
  <2>2. \A d \in Call \ {c} : RowOf(d)' = RowOf(d)
    BY <2>1 DEF RowOf
  <2>3. HistoryOK'
    BY <1>a, <2>1, <2>2 DEF FilesInv, HistoryOK, TypeOK, Row
  <2>4. Forest'
    BY <2>1 DEF FilesInv, Forest, Ids, Key
  <2>5. ExistsNamesAnEntry'
    BY <2>1, <2>2 DEF FilesInv, ExistsNamesAnEntry, Key
  <2>6. CreatedStaysVisible'
    BY <1>a, <2>1 DEF FilesInv, CreatedStaysVisible, HistoryOK
  <2>7. RetryFindsEntry'
    BY <1>a, <2>1, <2>2 DEF FilesInv, RetryFindsEntry, HistoryOK, Key
  <2> QED
    BY <1>0, <2>3, <2>4, <2>5, <2>6, <2>7 DEF FilesInv
<1>3. ASSUME NEW c \in Call, CreateFile(c) PROVE FilesInv'
  <2>1. PICK a \in {"exists", "error", "created"} : Return(c, a) /\ (a = "exists" => Conflicts(c))
    BY <1>3 DEF CreateFile
  <2>2. /\ \A d \in Call \ {c} : pc'[d] = pc[d] /\ answer'[d] = answer[d]
        /\ pc'[c] = "done" /\ answer'[c] = a /\ answer[c] = "none"
        /\ arg' = arg /\ known' = known /\ listed' = listed
        /\ \A d \in Call : RowOf(d)' = RowOf(d)
    BY <1>3, <2>1, OthersKept DEF CreateFile, Answer
  <2>3. files' = files \/ (files' = files \cup {RowOf(c)} /\ ~Conflicts(c) /\ ReferencesHold(c))
    BY <1>3 DEF CreateFile
  <2>4. a = "created" => RowOf(c) \in files' /\ arg[c].op = "create"
    BY <1>3, <2>2 DEF CreateFile, Return, FilesInv, TypeOK
  <2>5. RowOf(c).id = c
    BY DEF RowOf
  <2>6. HistoryOK'
    BY <1>a, <2>2, <2>3, <2>4, <2>5 DEF FilesInv, HistoryOK, TypeOK, Row
  <2>7. Forest'
    <3>1. CASE files' = files
      BY <3>1 DEF FilesInv, Forest, Ids, Key
    <3> QED
      BY <1>3, <2>3, <3>1, InsertKeepsForest DEF CreateFile
  <2>8. ExistsNamesAnEntry'
    <3>1. a = "exists" => arg[c].entry.parent # Null /\ \E f \in files : f.id # c /\ Key(f) = Key(RowOf(c))
      BY <1>3, <2>1 DEF CreateFile, Conflicts, FilesInv, HistoryOK
    <3> QED
      BY <2>2, <2>3, <3>1 DEF FilesInv, ExistsNamesAnEntry, Key
  <2>9. CreatedStaysVisible'
    BY <1>3, <1>a, <2>1, <2>2 DEF FilesInv, CreatedStaysVisible, CreateFile, HistoryOK
  <2>10. RetryFindsEntry'
    BY <1>3, <1>a, <2>1, <2>2, <2>3 DEF FilesInv, RetryFindsEntry, CreateFile, HistoryOK, Key
  <2> QED
    BY <1>0, <2>6, <2>7, <2>8, <2>9, <2>10 DEF FilesInv
<1>4. ASSUME NEW c \in Call, ListFiles(c) \/ GetFile(c) \/ CallFails(c) PROVE FilesInv'
  <2>1. PICK a \in {"listed", "found", "not_found", "error"} : Return(c, a)
    BY <1>4 DEF ListFiles, GetFile, CallFails
  <2>2. /\ \A d \in Call \ {c} : pc'[d] = pc[d] /\ answer'[d] = answer[d]
        /\ pc'[c] = "done" /\ answer'[c] = a /\ answer[c] = "none"
        /\ arg' = arg /\ known' = known /\ files' = files
        /\ \A d \in Call : RowOf(d)' = RowOf(d)
    BY <1>4, <2>1, OthersKept DEF ListFiles, GetFile, CallFails, Answer
  <2>3. HistoryOK'
    BY <1>a, <2>2 DEF FilesInv, HistoryOK, TypeOK, Row
  <2>4. Forest' /\ ExistsNamesAnEntry'
    BY <2>2 DEF FilesInv, Forest, Ids, Key, ExistsNamesAnEntry
  <2>5. \A d \in known[c] : answer[d] = "created" => RowOf(d) \in files /\ RowOf(d).id = d
                               /\ RowOf(d).parent = arg[d].entry.parent
    BY <1>a DEF FilesInv, HistoryOK, RowOf
  <2>6. \A d \in Call \ {c} : listed'[d] = listed[d]
    BY <1>4 DEF ListFiles, GetFile, CallFails, FilesInv, TypeOK
  <2>7. answer'[c] = "listed" => listed'[c] = Children(arg[c].parent)
    BY <1>4, <2>2 DEF ListFiles, GetFile, CallFails, FilesInv, TypeOK, Return
  <2>8. arg[c].op = "get" /\ answer'[c] = "not_found" => arg[c].id \notin Ids
    BY <1>4, <2>2 DEF ListFiles, GetFile, CallFails, FilesInv, TypeOK, Return
  <2>9. CreatedStaysVisible'
    <3>1. ASSUME NEW d \in known[c], answer[d] = "created"
          PROVE  /\ answer'[c] = "listed" /\ arg[c].parent = arg[d].entry.parent
                    /\ arg[c].parent # Null => d \in listed'[c]
                 /\ arg[c].op = "get" /\ arg[c].id = d => answer'[c] # "not_found"
      BY <2>5, <2>7, <2>8, <3>1 DEF Children, Ids
    <3> QED
      BY <1>a, <2>2, <2>6, <3>1 DEF FilesInv, CreatedStaysVisible, HistoryOK
  <2>10. RetryFindsEntry'
    <3>1. ASSUME NEW d \in known[c], answer[d] = "exists", answer'[c] = "listed",
                 arg[c].parent = arg[d].entry.parent
          PROVE  \E f \in files : f.id \in listed'[c] /\ Key(f) = Key(RowOf(d))
      <4>1. arg[d].entry.parent # Null /\ \E f \in files : Key(f) = Key(RowOf(d))
        BY <1>a, <3>1 DEF FilesInv, ExistsNamesAnEntry
      <4>2. \A f : Key(f) = Key(RowOf(d)) => f.parent = arg[d].entry.parent
        BY DEF Key, RowOf
      <4> QED
        BY <2>7, <3>1, <4>1, <4>2 DEF Children
    <3> QED
      BY <1>a, <2>2, <2>6, <3>1 DEF FilesInv, RetryFindsEntry, HistoryOK, Key
  <2> QED
    BY <1>0, <2>3, <2>4, <2>9, <2>10 DEF FilesInv
<1> QED
  BY <1>1, <1>2, <1>3, <1>4 DEF Next

LEMMA Invariant == Spec => []FilesInv
<1>1. Init => FilesInv
  <2> SUFFICES ASSUME Init PROVE FilesInv
    OBVIOUS
  <2>1. TypeOK /\ HistoryOK
    BY DEF Init, TypeOK, Arg, Answer, HistoryOK
  <2>2. Forest /\ CreatedStaysVisible /\ RetryFindsEntry /\ ExistsNamesAnEntry
    BY DEF Init, Forest, CreatedStaysVisible, RetryFindsEntry, ExistsNamesAnEntry
  <2> QED
    BY <2>1, <2>2 DEF FilesInv
<1> QED
  BY <1>1, InvStep, PTL DEF Spec

\* Every variable keeps its type.
THEOREM FilesTypeCorrect == Spec => []TypeOK
<1>1. FilesInv => TypeOK
  BY DEF FilesInv
<1> QED
  BY <1>1, Invariant, PTL

\* The rows form a forest: parents exist and chains of parents end.
THEOREM FilesFormForest == Spec => []Forest
<1>1. FilesInv => Forest
  BY DEF FilesInv
<1> QED
  BY <1>1, Invariant, PTL

\* An entry reported as created is seen by every later listing and read.
THEOREM CreatedIsVisible == Spec => []CreatedStaysVisible
<1>1. FilesInv => CreatedStaysVisible
  BY DEF FilesInv
<1> QED
  BY <1>1, Invariant, PTL

\* A client told that an entry exists finds it in every later listing, whoever
\* created it and however that attempt was reported (files_pg_adapter.py).
THEOREM RetriesFindEntries == Spec => []RetryFindsEntry
<1>1. FilesInv => RetryFindsEntry
  BY DEF FilesInv
<1> QED
  BY <1>1, Invariant, PTL
=============================================================================
