------------------------------ MODULE DriveRelay ------------------------------
(***************************************************************************)
(* The Apps Script relay that keeps the owner's index of submissions in a  *)
(* Drive file (scripts/google-drive-apps-script-relay.gs), for one form of *)
(* one project.                                                            *)
(*                                                                         *)
(* The script takes no lock.  Every call to DriveApp or to the script      *)
(* properties is a round trip, so several executions of doPost and doGet   *)
(* interleave between any two of them.  A step below is one such call, or  *)
(* a call with the one after it when nobody can tell them apart.  Drive    *)
(* lets two folders or files have one name and says nothing of the order   *)
(* in which it lists them.                                                 *)
(***************************************************************************)
EXTENDS Naturals, FiniteSets

CONSTANTS
    Executions,     \* executions of the script that can run at once
    Submissions,    \* submissions whose index entry is complete
    MaxFolders,     \* bound on the folders created
    MaxFiles        \* bound on the index files created

ASSUME RelayAssumption == MaxFolders \in Nat /\ MaxFiles \in Nat

VARIABLES
    rootProperty,   \* DEEPSIGNAL_ROOT_FOLDER_ID
    folders,        \* folders in Drive: roots named "DeepSignal", project folders in them
    files,          \* index files
    execution,      \* where each execution of the script is
    acknowledged,   \* submissions answered with ok and ownerReadable
    raced           \* submissions whose post overlapped another post

relayVars == <<rootProperty, folders, files, execution, acknowledged, raced>>

(* Folders and files are numbered as they are created.                     *)
NoFolder == 0           \* the parent of a root folder, and an unset property
NoFile == 0
FolderId == 1..MaxFolders
GoneFolder == MaxFolders + 1
FileId == 1..MaxFiles

Folder == [id : FolderId, parent : FolderId \cup {NoFolder}]
File == [id : FileId, folder : FolderId, entries : SUBSET Submissions]

Idle == [step |-> "idle"]

(* An execution knows what it has found so far; "get" carries no entry.    *)
ExecutionType ==
    {Idle}
    \cup [step : {"root", "drop", "search", "newroot"}, adds : SUBSET Submissions]
    \cup [step : {"folder", "newfolder"}, adds : SUBSET Submissions, root : FolderId]
    \cup [step : {"file"}, adds : SUBSET Submissions, folder : FolderId]
    \cup [step : {"write"}, adds : SUBSET Submissions, folder : FolderId,
          file : FileId \cup {NoFile}, entries : SUBSET Submissions]

(* Each part of the state has the shape Drive and the script give it.      *)
RelayTypeOK ==
    /\ rootProperty \in FolderId \cup {NoFolder, GoneFolder}
    /\ folders \subseteq Folder
    /\ files \subseteq File
    /\ execution \in [Executions -> ExecutionType]
    /\ acknowledged \subseteq Submissions
    /\ raced \subseteq Submissions

(* The property may name a folder that was deleted from Drive since.       *)
RelayInit ==
    /\ rootProperty \in {NoFolder, GoneFolder}
    /\ folders = {}
    /\ files = {}
    /\ execution = [e \in Executions |-> Idle]
    /\ acknowledged = {}
    /\ raced = {}

NextOf(ids) == {id \in ids : \A other \in ids : id <= other}

IdsOf(things) == {t.id : t \in things}
Roots == {f \in folders : f.parent = NoFolder}
ChildrenOf(root) == {f \in folders : f.parent = root}
FilesIn(folder) == {f \in files : f.folder = folder}

Running == {e \in Executions : execution[e] # Idle}
Posting == {e \in Running : execution[e].adds # {}}

-----------------------------------------------------------------------------
(* doPost with a complete entry; an incomplete one is refused before Drive *)
(* is touched.  A submission may be posted again after a lost answer.      *)
doPost(e, s) ==
    /\ execution[e] = Idle
    /\ execution' = [execution EXCEPT ![e] = [step |-> "root", adds |-> {s}]]
    /\ raced' = IF Posting = {} THEN raced
                ELSE raced \cup {s} \cup UNION {execution[o].adds : o \in Posting}
    /\ UNCHANGED <<rootProperty, folders, files, acknowledged>>

(* doGet for the form: readIndexPayload also creates a missing root.       *)
doGet(e) ==
    /\ execution[e] = Idle
    /\ execution' = [execution EXCEPT ![e] = [step |-> "root", adds |-> {}]]
    /\ UNCHANGED <<rootProperty, folders, files, acknowledged, raced>>

(* Mutant of UseSavedRoot: the root is looked up and created whatever the  *)
(* property says.                                                          *)
UseSavedRoot_CreatesAgain(e) ==
    /\ execution[e].step = "root"
    /\ rootProperty \in IdsOf(folders)
    /\ execution' = [execution EXCEPT ![e] = [step |-> "newroot", adds |-> @.adds]]
    /\ UNCHANGED <<rootProperty, folders, files, acknowledged, raced>>

(* getOrCreateRootFolder: the saved folder, when Drive still has it.       *)
UseSavedRoot(e) ==
    /\ execution[e].step = "root"
    /\ rootProperty \in IdsOf(folders)
    /\ execution' = [execution EXCEPT
         ![e] = [step |-> "folder", adds |-> @.adds, root |-> rootProperty]]
    /\ UNCHANGED <<rootProperty, folders, files, acknowledged, raced>>

(* With none saved the folder is looked up by name, which is a later call. *)
NoSavedRoot(e) ==
    /\ execution[e].step = "root"
    /\ rootProperty = NoFolder
    /\ execution' = [execution EXCEPT ![e].step = "search"]
    /\ UNCHANGED <<rootProperty, folders, files, acknowledged, raced>>

(* One that Drive does not know any more has to be dropped first ...       *)
LoseRoot(e) ==
    /\ execution[e].step = "root"
    /\ rootProperty \notin IdsOf(folders) \cup {NoFolder}
    /\ execution' = [execution EXCEPT ![e].step = "drop"]
    /\ UNCHANGED <<rootProperty, folders, files, acknowledged, raced>>

(* ... and what is dropped may be what another execution saved since.      *)
DropRoot(e) ==
    /\ execution[e].step = "drop"
    /\ rootProperty' = NoFolder
    /\ execution' = [execution EXCEPT ![e].step = "search"]
    /\ UNCHANGED <<folders, files, acknowledged, raced>>

FindRoot(e) ==
    /\ execution[e].step = "search"
    /\ \E f \in Roots :
         /\ rootProperty' = f.id
         /\ execution' = [execution EXCEPT
              ![e] = [step |-> "folder", adds |-> @.adds, root |-> f.id]]
    /\ UNCHANGED <<folders, files, acknowledged, raced>>

(* With none of that name one is created, which is a later call.           *)
MissRoot(e) ==
    /\ execution[e].step = "search"
    /\ Roots = {}
    /\ execution' = [execution EXCEPT ![e].step = "newroot"]
    /\ UNCHANGED <<rootProperty, folders, files, acknowledged, raced>>

CreateRoot(e) ==
    /\ execution[e].step = "newroot"
    /\ \E id \in NextOf(FolderId \ IdsOf(folders)) :
         /\ folders' = folders \cup {[id |-> id, parent |-> NoFolder]}
         /\ rootProperty' = id
         /\ execution' = [execution EXCEPT
              ![e] = [step |-> "folder", adds |-> @.adds, root |-> id]]
    /\ UNCHANGED <<files, acknowledged, raced>>

(* getOrCreateChildFolder (doPost) and findChildFolder (doGet).            *)
FindFolder(e) ==
    /\ execution[e].step = "folder"
    /\ \E f \in ChildrenOf(execution[e].root) :
         execution' = [execution EXCEPT
           ![e] = [step |-> "file", adds |-> @.adds, folder |-> f.id]]
    /\ UNCHANGED <<rootProperty, folders, files, acknowledged, raced>>

(* A get that finds no folder answers with no entries.                     *)
MissFolder(e) ==
    /\ execution[e].step = "folder"
    /\ ChildrenOf(execution[e].root) = {}
    /\ execution' = [execution EXCEPT
         ![e] = IF @.adds = {} THEN Idle ELSE [@ EXCEPT !.step = "newfolder"]]
    /\ UNCHANGED <<rootProperty, folders, files, acknowledged, raced>>

CreateFolder(e) ==
    /\ execution[e].step = "newfolder"
    /\ \E id \in NextOf(FolderId \ IdsOf(folders)) :
         /\ folders' = folders \cup {[id |-> id, parent |-> execution[e].root]}
         /\ execution' = [execution EXCEPT
              ![e] = [step |-> "file", adds |-> @.adds, folder |-> id]]
    /\ UNCHANGED <<rootProperty, files, acknowledged, raced>>

(* The first file of that name is read, if there is one; a get is done.    *)
ReadIndex(e) ==
    /\ execution[e].step = "file"
    /\ \E file \in FileId \cup {NoFile}, entries \in SUBSET Submissions :
         /\ IF FilesIn(execution[e].folder) = {}
              THEN file = NoFile /\ entries = {}
              ELSE \E f \in FilesIn(execution[e].folder) :
                     file = f.id /\ entries = f.entries
         /\ execution' = [execution EXCEPT
              ![e] = IF @.adds = {} THEN Idle
                     ELSE [step |-> "write", adds |-> @.adds, folder |-> @.folder,
                           file |-> file, entries |-> entries]]
    /\ UNCHANGED <<rootProperty, folders, files, acknowledged, raced>>

(* Mutant of NextEntries: a new index starts from the posted entry alone.  *)
NextEntries_ForgetsOthers(x) == x.adds

(* index.entries: the new entry, then those that were read.                *)
NextEntries(x) == x.adds \cup x.entries

(* setContent or createFile.  The answer says remoteIndexReadBack and      *)
(* ownerReadable; the file is not read again.                              *)
WriteIndex(e) ==
    LET x == execution[e] IN
    /\ x.step = "write"
    /\ IF x.file = NoFile
         THEN \E id \in NextOf(FileId \ IdsOf(files)) :
                files' = files \cup
                  {[id |-> id, folder |-> x.folder, entries |-> NextEntries(x)]}
         ELSE files' = {IF f.id = x.file THEN [f EXCEPT !.entries = NextEntries(x)]
                                         ELSE f : f \in files}
    /\ acknowledged' = acknowledged \cup x.adds
    /\ execution' = [execution EXCEPT ![e] = Idle]
    /\ UNCHANGED <<rootProperty, folders, raced>>

(* An exception, or the time limit of the platform, ends an execution.     *)
Throws(e) ==
    /\ execution[e] # Idle
    /\ execution' = [execution EXCEPT ![e] = Idle]
    /\ UNCHANGED <<rootProperty, folders, files, acknowledged, raced>>

RelayStep(e) ==
    \/ \E s \in Submissions : doPost(e, s)
    \/ doGet(e)
    \/ UseSavedRoot(e) \/ NoSavedRoot(e) \/ LoseRoot(e) \/ DropRoot(e)
    \/ FindRoot(e) \/ MissRoot(e) \/ CreateRoot(e)
    \/ FindFolder(e) \/ MissFolder(e) \/ CreateFolder(e)
    \/ ReadIndex(e) \/ WriteIndex(e)
    \/ Throws(e)

RelayNext == \E e \in Executions : RelayStep(e)
RelaySpec == RelayInit /\ [][RelayNext]_relayVars

-----------------------------------------------------------------------------
(* What a later doGet may read: every file it can come upon.               *)
ReachableRoots ==
    IF rootProperty \in IdsOf(folders) THEN {rootProperty} ELSE IdsOf(Roots)
ReachableFiles ==
    {f \in files : \E c \in folders : f.folder = c.id /\ c.parent \in ReachableRoots}
OwnerReadable(s) ==
    /\ ReachableFiles # {}
    /\ \A f \in ReachableFiles : s \in f.entries

(* The tree has split: two folders or files of one name.                   *)
Split ==
    \/ \E f, g \in folders : f # g /\ f.parent = g.parent
    \/ \E f, g \in files : f # g

(***************************************************************************)
(* Every acknowledged submission is one the owner can read, unless its own *)
(* post overlapped another one or the tree has split: a post that ran      *)
(* alone is not undone by posts that race later (doPost, line 38).         *)
(***************************************************************************)
LossNeedsRaceOrSplit ==
    \A s \in acknowledged : OwnerReadable(s) \/ s \in raced \/ Split

(* One root, one project folder and one file, and no execution on its way  *)
(* to create another.                                                      *)
Settled ==
    /\ ~Split
    /\ ReachableFiles # {}
    /\ \A e \in Running : execution[e].step \notin {"newroot", "newfolder"}
    /\ \A e \in Running : execution[e].step = "write" => execution[e].file # NoFile

(***************************************************************************)
(* The tree can only split while it is being created: once there is one    *)
(* file, and nobody is about to create a second, no later traffic splits   *)
(* it.  One post before the form is opened is enough to be safe from that. *)
(***************************************************************************)
SettledStays == [][Settled => Settled']_relayVars

(***************************************************************************)
(* What the answer says: an acknowledged submission can be read by the     *)
(* owner (remoteIndexReadBack, ownerReadable: true).                       *)
(***************************************************************************)
AcknowledgedIsReadable == \A s \in acknowledged : OwnerReadable(s)

=============================================================================
