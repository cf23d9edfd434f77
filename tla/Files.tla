------------------------------- MODULE Files --------------------------------
(***************************************************************************)
(* The file tree of assets.files behind FilesApplicationService: create a   *)
(* file or folder, list a folder, read one entry.  Each call is one         *)
(* statement, hence atomic; calls interleave, fail, and may fail for the    *)
(* caller after they took effect.  No code updates or deletes a row.        *)
(*                                                                         *)
(* The id of a row is the call that inserted it.  Clients use ids they have *)
(* seen, Null, or one that does not exist.                                  *)
(***************************************************************************)
EXTENDS Integers, Sequences

CONSTANTS
  Call,       \* calls ever made: the bound on the length of a history
  Workspace,  \* workspace ids a client may send
  Existing,   \* those with a row in organizations.workspaces
  Owner,      \* users, all with a row in identity.users
  Name        \* entry names

Null    == "null"     \* parent_id of an entry at the root
Missing == "missing"  \* an id no row has

ASSUME ExistingAssumption == Existing \subseteq Workspace
ASSUME IdAssumption       == Null \notin Call /\ Missing \notin Call /\ Null # Missing

VARIABLES
  pc,      \* idle, call, done
  arg,     \* the arguments of the call
  answer,  \* what it returned or raised
  listed,  \* the ids a listing returned
  files,   \* assets.files
  known    \* history: the calls that had reported an entry, new or not, before

vars == <<pc, arg, answer, listed, files, known>>

Target == Call \cup {Null, Missing}

Entry == [workspace : Workspace, owner : Owner, parent : Target, name : Name, is_folder : BOOLEAN]

Arg == [op : {"create"}, entry : Entry]
         \cup [op : {"list"}, parent : Target]
         \cup [op : {"get"}, id : Target]
         \cup [op : {"none"}]

Row == [id : Call, workspace : Existing, owner : Owner, parent : Target,
        name : Name, is_folder : BOOLEAN]

Answer == {"none", "created", "exists", "listed", "found", "not_found", "error"}

TypeOK ==
  /\ pc \in [Call -> {"idle", "call", "done"}]
  /\ arg \in [Call -> Arg]
  /\ answer \in [Call -> Answer]
  /\ listed \in [Call -> SUBSET Call]
  /\ files \subseteq Row
  /\ known \in [Call -> SUBSET Call]

Ids == {f.id : f \in files}

Init ==
  /\ pc = [c \in Call |-> "idle"]
  /\ arg = [c \in Call |-> [op |-> "none"]]
  /\ answer = [c \in Call |-> "none"]
  /\ listed = [c \in Call |-> {}]
  /\ files = {}
  /\ known = [c \in Call |-> {}]

-----------------------------------------------------------------------------
\* Ids a client can name.
Nameable == Ids \cup {Null, Missing}

Begin(c, a) ==
  /\ pc[c] = "idle"
  /\ pc' = [pc EXCEPT ![c] = "call"]
  /\ arg' = [arg EXCEPT ![c] = a]
  /\ known' = [known EXCEPT ![c] = {d \in Call : answer[d] \in {"created", "exists"}}]
  /\ UNCHANGED <<answer, listed, files>>

Return(c, a) ==
  /\ pc' = [pc EXCEPT ![c] = "done"]
  /\ answer' = [answer EXCEPT ![c] = a]
  /\ UNCHANGED <<arg, known>>

RowOf(c) ==
  [id |-> c, workspace |-> arg[c].entry.workspace, owner |-> arg[c].entry.owner,
   parent |-> arg[c].entry.parent, name |-> arg[c].entry.name,
   is_folder |-> arg[c].entry.is_folder]

Key(f) == <<f.workspace, f.owner, f.parent, f.name, f.is_folder>>

\* Mutant: the constraint as it was before workspace_id was added.
Conflicts_AnyWorkspace(c) ==
  /\ arg[c].entry.parent # Null
  /\ \E f \in files : Tail(Key(f)) = Tail(Key(RowOf(c)))

\* UNIQUE (workspace_id, owner_id, parent_id, name, is_folder): a key with a
\* NULL in it is equal to none.
Conflicts(c) == arg[c].entry.parent # Null /\ \E f \in files : Key(f) = Key(RowOf(c))

\* Mutant: parent_id without REFERENCES.
ReferencesHold_NoParent(c) == arg[c].entry.workspace \in Existing

\* Mutant: workspace_id without its foreign key.
ReferencesHold_NoWorkspace(c) == arg[c].entry.parent \in Ids \cup {Null}

\* The foreign keys of the row.
ReferencesHold(c) ==
  arg[c].entry.workspace \in Existing /\ arg[c].entry.parent \in Ids \cup {Null}

\* create_file: the unique index is looked at as the row is inserted, the
\* foreign keys as the statement ends.
CreateFile(c) ==
  /\ pc[c] = "call" /\ arg[c].op = "create"
  /\ \/ Conflicts(c) /\ Return(c, "exists") /\ UNCHANGED files
     \/ ~Conflicts(c) /\ ~ReferencesHold(c) /\ Return(c, "error") /\ UNCHANGED files
     \/ /\ ~Conflicts(c) /\ ReferencesHold(c)
        /\ files' = files \cup {RowOf(c)}
        /\ \/ Return(c, "created")
           \/ Return(c, "error")   \* the answer of the statement was lost
  /\ UNCHANGED listed

\* Mutant: a folder lists its files and forgets its folders.
Children_FilesOnly(p) == {f.id : f \in {x \in files : x.parent # Null /\ x.parent = p /\ ~x.is_folder}}

\* WHERE parent_id = $1: a comparison with NULL is not true.
Children(p) == {f.id : f \in {x \in files : x.parent # Null /\ x.parent = p}}

ListFiles(c) ==
  /\ pc[c] = "call" /\ arg[c].op = "list"
  /\ Return(c, "listed")
  /\ listed' = [listed EXCEPT ![c] = Children(arg[c].parent)]
  /\ UNCHANGED files

GetFile(c) ==
  /\ pc[c] = "call" /\ arg[c].op = "get"
  /\ Return(c, IF arg[c].id \in Ids THEN "found" ELSE "not_found")
  /\ UNCHANGED <<listed, files>>

\* The statement never reached the database.
CallFails(c) ==
  /\ pc[c] = "call"
  /\ Return(c, "error")
  /\ UNCHANGED <<listed, files>>

CallArgs ==
  [op : {"create"}, entry : {e \in Entry : e.parent \in Nameable}]
    \cup [op : {"list"}, parent : Nameable]
    \cup [op : {"get"}, id : Nameable]

Next ==
  \E c \in Call :
    \/ \E a \in CallArgs : Begin(c, a)
    \/ CreateFile(c) \/ ListFiles(c) \/ GetFile(c) \/ CallFails(c)

Spec == Init /\ [][Next]_vars

-----------------------------------------------------------------------------
\* Every entry hangs from the root by a chain of entries: its parent exists,
\* and no set of entries is closed under taking the parent.
Forest ==
  /\ \A f \in files : f.parent \in Ids \cup {Null}
  /\ \A S \in SUBSET files : S # {} => \E f \in S : \A g \in S : g.id # f.parent

\* An entry reported as created is listed by every later listing of its
\* folder and found by every later read.
CreatedStaysVisible ==
  \A c \in Call : \A d \in known[c] : answer[d] = "created" =>
    /\ answer[c] = "listed" /\ arg[c].parent = arg[d].entry.parent /\ arg[c].parent # Null
         => d \in listed[c]
    /\ arg[c].op = "get" /\ arg[c].id = d => answer[c] # "not_found"

\* A client that is told "already exists", be it of its own first attempt that
\* was reported as an error, finds the entry in every later listing.
RetryFindsEntry ==
  \A c \in Call : \A d \in known[c] :
    answer[d] = "exists" /\ answer[c] = "listed" /\ arg[c].parent = arg[d].entry.parent =>
      \E f \in files : f.id \in listed[c] /\ Key(f) = Key(RowOf(d))

\* execute_list_files, "parent_id: The parent folder UUID (None for root)."
RootIsListed ==
  \A c \in Call : \A d \in known[c] :
    /\ answer[d] = "created" /\ arg[d].entry.parent = Null
    /\ answer[c] = "listed" /\ arg[c].parent = Null
      => d \in listed[c]
=============================================================================
