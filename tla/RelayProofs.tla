---------------------------- MODULE RelayProofs -----------------------------
(***************************************************************************)
(* Proofs about DriveRelay for every number of executions, submissions,    *)
(* folders and files.                                                      *)
(***************************************************************************)
EXTENDS DriveRelay, TLAPS

Inner == {f \in folders : f.parent # NoFolder}

(* Ids are given once; a file lies in a project folder, that in a root.    *)
TreeOK ==
  /\ \A f, g \in folders : f.id = g.id => f = g
  /\ \A f, g \in files : f.id = g.id => f = g
  /\ rootProperty \in {NoFolder, GoneFolder} \cup IdsOf(Roots)
  /\ \A f \in Inner : f.parent \in IdsOf(Roots)
  /\ \A f \in files : f.folder \in IdsOf(Inner)

(* What an execution has found is still there.                             *)
ExecutionsOK ==
  \A e \in Executions :
    /\ execution[e].step \in {"folder", "newfolder"} => execution[e].root \in IdsOf(Roots)
    /\ execution[e].step \in {"file", "write"} => execution[e].folder \in IdsOf(Inner)
    /\ execution[e].step = "write" =>
         /\ execution[e].adds # {}
         /\ execution[e].file \in IdsOf(files) \cup {NoFile}

(* Posts that are under way together have raced.                           *)
OverlapsAreRaced ==
  \A e, o \in Posting : e # o => execution[e].adds \subseteq raced

Safe == acknowledged \ raced

(* Unless the tree has split, every file has the entries that are safe,    *)
(* and whoever is about to write has read them.                            *)
SafeIsKept ==
  \/ Split
  \/ /\ acknowledged # {} => files # {}
     /\ \A f \in files : Safe \subseteq f.entries
     /\ \A e \in Executions : execution[e].step = "write" => Safe \subseteq execution[e].entries

RelayInv == RelayTypeOK /\ TreeOK /\ ExecutionsOK /\ OverlapsAreRaced /\ SafeIsKept

LEMMA RelayInitInv == RelayInit => RelayInv
<1> SUFFICES ASSUME RelayInit PROVE RelayInv
  OBVIOUS
<1>1. RelayTypeOK
  BY DEF RelayInit, RelayTypeOK, ExecutionType
<1>2. TreeOK
  BY DEF RelayInit, TreeOK, Inner
<1>3. ExecutionsOK /\ OverlapsAreRaced /\ SafeIsKept
  BY DEF RelayInit, ExecutionsOK, OverlapsAreRaced, SafeIsKept, Safe, Posting, Running, Idle
<1> QED  BY <1>1, <1>2, <1>3 DEF RelayInv

-----------------------------------------------------------------------------
(* What an execution that has reached a step knows.                        *)
LEMMA ExecutionShape ==
  ASSUME RelayTypeOK, NEW e \in Executions
  PROVE  LET x == execution[e] IN
         /\ x.step \in {"idle", "root", "drop", "search", "newroot", "folder",
                        "newfolder", "file", "write"}
         /\ x = Idle <=> x.step = "idle"
         /\ x # Idle => x.adds \subseteq Submissions
         /\ x.step \in {"root", "drop", "search", "newroot"} =>
              x = [step |-> x.step, adds |-> x.adds]
         /\ x.step \in {"folder", "newfolder"} =>
              x.root \in FolderId /\ x = [step |-> x.step, adds |-> x.adds, root |-> x.root]
         /\ x.step \in {"file", "write"} => x.folder \in FolderId
         /\ x.step = "write" =>
              x.file \in FileId \cup {NoFile} /\ x.entries \subseteq Submissions
  BY DEF RelayTypeOK, ExecutionType, Idle

LEMMA RelayTypeInv ==
  ASSUME RelayTypeOK, NEW e \in Executions, RelayStep(e)
  PROVE  RelayTypeOK'
<1> DEFINE x == execution[e]
<1>1. /\ rootProperty \in FolderId \cup {NoFolder, GoneFolder}
      /\ folders \subseteq Folder /\ files \subseteq File
      /\ execution \in [Executions -> ExecutionType]
      /\ acknowledged \subseteq Submissions /\ raced \subseteq Submissions
  BY DEF RelayTypeOK
<1>2. /\ x = Idle <=> x.step = "idle"
      /\ x # Idle => x.adds \subseteq Submissions
      /\ x.step \in {"root", "drop", "search", "newroot"} =>
           x = [step |-> x.step, adds |-> x.adds]
      /\ x.step \in {"folder", "newfolder"} =>
           x.root \in FolderId /\ x = [step |-> x.step, adds |-> x.adds, root |-> x.root]
      /\ x.step \in {"file", "write"} => x.folder \in FolderId
      /\ x.step = "write" => x.file \in FileId \cup {NoFile} /\ x.entries \subseteq Submissions
  BY ExecutionShape
<1>3. ASSUME NEW y \in ExecutionType, execution' = [execution EXCEPT ![e] = y]
      PROVE  execution' \in [Executions -> ExecutionType]
  BY <1>1, <1>3
<1>4. /\ \A adds \in SUBSET Submissions : \A step \in {"root", "drop", "search", "newroot"} :
           [step |-> step, adds |-> adds] \in ExecutionType
      /\ \A adds \in SUBSET Submissions, root \in FolderId : \A step \in {"folder", "newfolder"} :
           [step |-> step, adds |-> adds, root |-> root] \in ExecutionType
      /\ \A adds \in SUBSET Submissions, folder \in FolderId :
           [step |-> "file", adds |-> adds, folder |-> folder] \in ExecutionType
      /\ Idle \in ExecutionType
  BY DEF ExecutionType
<1>5. ASSUME NEW s \in Submissions, doPost(e, s) PROVE RelayTypeOK'
  <2>1. \A o \in Posting : execution[o].adds \subseteq Submissions
    BY ExecutionShape DEF Posting, Running
  <2>2. raced' \subseteq Submissions
    BY <1>1, <1>5, <2>1 DEF doPost
  <2>3. [step |-> "root", adds |-> {s}] \in ExecutionType
    BY <1>4
  <2> QED  BY <1>1, <1>3, <1>5, <2>2, <2>3 DEF doPost, RelayTypeOK
<1>6. CASE doGet(e)
  BY <1>1, <1>3, <1>4, <1>6 DEF doGet, RelayTypeOK
<1>7. CASE UseSavedRoot(e)
  <2>1. rootProperty \in FolderId
    BY <1>1, <1>7 DEF UseSavedRoot, IdsOf, Folder
  <2>2. [step |-> "folder", adds |-> x.adds, root |-> rootProperty] \in ExecutionType
    BY <1>2, <1>4, <1>7, <2>1 DEF UseSavedRoot, Idle
  <2> QED  BY <1>1, <1>3, <1>7, <2>2 DEF UseSavedRoot, RelayTypeOK
<1>8. CASE NoSavedRoot(e) \/ LoseRoot(e) \/ DropRoot(e) \/ MissRoot(e)
  <2>1. PICK step \in {"search", "drop", "newroot"} :
          execution' = [execution EXCEPT ![e].step = step]
    BY <1>8 DEF NoSavedRoot, LoseRoot, DropRoot, MissRoot
  <2>2. x.step \in {"root", "drop", "search"}
    BY <1>8 DEF NoSavedRoot, LoseRoot, DropRoot, MissRoot
  <2>3. [x EXCEPT !.step = step] = [step |-> step, adds |-> x.adds] /\ x.adds \subseteq Submissions
    <3>1. x = [step |-> x.step, adds |-> x.adds] /\ x # Idle
      BY <1>2, <2>2
    <3> HIDE DEF x
    <3>2. [x EXCEPT !.step = step] = [step |-> step, adds |-> x.adds]
      BY <3>1
    <3> QED  BY <1>2, <3>1, <3>2
  <2>4. [x EXCEPT !.step = step] \in ExecutionType
    <3> HIDE DEF x
    <3>1. [step |-> step, adds |-> x.adds] \in ExecutionType
      BY <1>4, <2>3
    <3> QED  BY <2>3, <3>1
  <2>5. execution' \in [Executions -> ExecutionType]
    BY <1>1, <2>1, <2>4
  <2> QED  BY <1>1, <1>8, <2>5 DEF NoSavedRoot, LoseRoot, DropRoot, MissRoot, RelayTypeOK
<1>9. CASE FindRoot(e)
  <2>1. PICK f \in Roots : /\ rootProperty' = f.id
                           /\ execution' = [execution EXCEPT
                                ![e] = [step |-> "folder", adds |-> x.adds, root |-> f.id]]
    BY <1>9 DEF FindRoot
  <2>2. f.id \in FolderId
    BY <1>1 DEF Roots, Folder
  <2>3. [step |-> "folder", adds |-> x.adds, root |-> f.id] \in ExecutionType
    BY <1>2, <1>4, <1>9, <2>2 DEF FindRoot, Idle
  <2> QED  BY <1>1, <1>3, <1>9, <2>1, <2>2, <2>3 DEF FindRoot, RelayTypeOK
<1>10. CASE CreateRoot(e)
  <2>1. PICK id \in FolderId : /\ folders' = folders \cup {[id |-> id, parent |-> NoFolder]}
                               /\ rootProperty' = id
                               /\ execution' = [execution EXCEPT
                                    ![e] = [step |-> "folder", adds |-> x.adds, root |-> id]]
    BY <1>10 DEF CreateRoot, NextOf
  <2>2. [step |-> "folder", adds |-> x.adds, root |-> id] \in ExecutionType
    BY <1>2, <1>4, <1>10 DEF CreateRoot, Idle
  <2>3. [id |-> id, parent |-> NoFolder] \in Folder
    BY DEF Folder
  <2> QED  BY <1>1, <1>3, <1>10, <2>1, <2>2, <2>3 DEF CreateRoot, RelayTypeOK
<1>11. CASE FindFolder(e)
  <2>1. PICK f \in ChildrenOf(x.root) :
          execution' = [execution EXCEPT ![e] = [step |-> "file", adds |-> x.adds, folder |-> f.id]]
    BY <1>11 DEF FindFolder
  <2>2. f.id \in FolderId
    BY <1>1 DEF ChildrenOf, Folder
  <2>3. [step |-> "file", adds |-> x.adds, folder |-> f.id] \in ExecutionType
    BY <1>2, <1>4, <1>11, <2>2 DEF FindFolder, Idle
  <2> QED  BY <1>1, <1>3, <1>11, <2>1, <2>3 DEF FindFolder, RelayTypeOK
<1>12. CASE MissFolder(e)
  <2>1. x.step = "folder" /\ x # Idle
    BY <1>12 DEF MissFolder, Idle
  <2>2. [x EXCEPT !.step = "newfolder"] = [step |-> "newfolder", adds |-> x.adds, root |-> x.root]
    BY <1>2, <2>1
  <2>3. [x EXCEPT !.step = "newfolder"] \in ExecutionType
    BY <1>2, <1>4, <2>1, <2>2
  <2> QED  BY <1>1, <1>3, <1>4, <1>12, <2>3 DEF MissFolder, RelayTypeOK
<1>13. CASE CreateFolder(e)
  <2>1. PICK id \in FolderId :
          /\ folders' = folders \cup {[id |-> id, parent |-> x.root]}
          /\ execution' = [execution EXCEPT
               ![e] = [step |-> "file", adds |-> x.adds, folder |-> id]]
    BY <1>13 DEF CreateFolder, NextOf
  <2>2. x.adds \subseteq Submissions /\ x.root \in FolderId
    BY <1>2, <1>13 DEF CreateFolder, Idle
  <2>3. [id |-> id, parent |-> x.root] \in Folder
    BY <2>2 DEF Folder
  <2> QED  BY <1>1, <1>3, <1>4, <1>13, <2>1, <2>2, <2>3 DEF CreateFolder, RelayTypeOK
<1>14. CASE ReadIndex(e)
  <2>1. PICK file \in FileId \cup {NoFile}, entries \in SUBSET Submissions :
          execution' = [execution EXCEPT
            ![e] = IF x.adds = {} THEN Idle
                   ELSE [step |-> "write", adds |-> x.adds, folder |-> x.folder,
                         file |-> file, entries |-> entries]]
    BY <1>14 DEF ReadIndex
  <2>2. x.adds \subseteq Submissions /\ x.folder \in FolderId
    BY <1>2, <1>14 DEF ReadIndex, Idle
  <2>3. [step |-> "write", adds |-> x.adds, folder |-> x.folder,
         file |-> file, entries |-> entries] \in ExecutionType
    BY <2>2 DEF ExecutionType
  <2> QED  BY <1>1, <1>3, <1>4, <1>14, <2>1, <2>3 DEF ReadIndex, RelayTypeOK
<1>15. CASE WriteIndex(e)
  <2>1. x.adds \subseteq Submissions /\ x.folder \in FolderId /\ x.entries \subseteq Submissions
    BY <1>2, <1>15 DEF WriteIndex, Idle
  <2>2. NextEntries(x) \subseteq Submissions
    BY <2>1 DEF NextEntries
  <2>3. files' \subseteq File
    <3>1. CASE x.file = NoFile
      <4>1. PICK id \in FileId : files' = files \cup
              {[id |-> id, folder |-> x.folder, entries |-> NextEntries(x)]}
        BY <1>15, <3>1 DEF WriteIndex, NextOf
      <4> QED  BY <1>1, <2>1, <2>2, <4>1 DEF File
    <3>2. CASE x.file # NoFile
      <4>1. files' = {IF f.id = x.file THEN [f EXCEPT !.entries = NextEntries(x)] ELSE f : f \in files}
        BY <1>15, <3>2 DEF WriteIndex
      <4> QED  BY <1>1, <2>2, <4>1 DEF File
    <3> QED  BY <3>1, <3>2
  <2> QED  BY <1>1, <1>3, <1>4, <1>15, <2>1, <2>3 DEF WriteIndex, RelayTypeOK
<1>16. CASE Throws(e)
  BY <1>1, <1>3, <1>4, <1>16 DEF Throws, RelayTypeOK
<1> QED
  BY <1>5, <1>6, <1>7, <1>8, <1>9, <1>10, <1>11, <1>12, <1>13, <1>14, <1>15, <1>16 DEF RelayStep

-----------------------------------------------------------------------------
(* Folders and files stay, with their ids and places.                      *)
LEMMA TreeGrows ==
  ASSUME NEW e \in Executions, RelayStep(e)
  PROVE  /\ folders \subseteq folders'
         /\ Roots \subseteq Roots' /\ Inner \subseteq Inner'
         /\ IdsOf(Roots) \subseteq IdsOf(Roots)' /\ IdsOf(Inner) \subseteq IdsOf(Inner)'
         /\ IdsOf(files) \subseteq IdsOf(files)'
<1>1. folders \subseteq folders'
  BY DEF RelayStep, doPost, doGet, UseSavedRoot, NoSavedRoot, LoseRoot, DropRoot, FindRoot,
         MissRoot, CreateRoot, FindFolder, MissFolder, CreateFolder, ReadIndex, WriteIndex, Throws
<1>2. Roots \subseteq Roots' /\ Inner \subseteq Inner'
  BY <1>1 DEF Roots, Inner
<1>3. IdsOf(Roots) \subseteq IdsOf(Roots)' /\ IdsOf(Inner) \subseteq IdsOf(Inner)'
  BY <1>2 DEF IdsOf
<1>4. \A f \in files : \E g \in files' : g.id = f.id
  <2>1. CASE WriteIndex(e)
    <3>1. CASE execution[e].file = NoFile
      BY <2>1, <3>1 DEF WriteIndex
    <3>2. CASE execution[e].file # NoFile
      <4> SUFFICES ASSUME NEW f \in files PROVE \E g \in files' : g.id = f.id
        OBVIOUS
      <4>1. files' = {IF g.id = execution[e].file
                       THEN [g EXCEPT !.entries = NextEntries(execution[e])] ELSE g : g \in files}
        BY <2>1, <3>2 DEF WriteIndex
      <4>2. CASE f.id = execution[e].file
        <5>1. [f EXCEPT !.entries = NextEntries(execution[e])] \in files'
          BY <4>1, <4>2
        <5>2. [f EXCEPT !.entries = NextEntries(execution[e])].id = f.id
          OBVIOUS
        <5> QED  BY <5>1, <5>2
      <4>3. CASE f.id # execution[e].file
        BY <4>1, <4>3
      <4> QED  BY <4>2, <4>3
    <3> QED  BY <3>1, <3>2
  <2>2. CASE ~WriteIndex(e)
    BY <2>2 DEF RelayStep, doPost, doGet, UseSavedRoot, NoSavedRoot, LoseRoot, DropRoot, FindRoot,
         MissRoot, CreateRoot, FindFolder, MissFolder, CreateFolder, ReadIndex, Throws
  <2> QED  BY <2>1, <2>2
<1> QED  BY <1>1, <1>2, <1>3, <1>4 DEF IdsOf

(* The steps that create nothing and write nothing.                        *)
Looking(e) ==
  \/ doGet(e)
  \/ UseSavedRoot(e) \/ NoSavedRoot(e) \/ LoseRoot(e) \/ DropRoot(e)
  \/ FindRoot(e) \/ MissRoot(e) \/ FindFolder(e) \/ MissFolder(e)
  \/ ReadIndex(e) \/ Throws(e)

LEMMA IdsOfOneMore == ASSUME NEW S, NEW t PROVE IdsOf(S \cup {t}) = IdsOf(S) \cup {t.id}
  BY DEF IdsOf

LEMMA RelayTreeInv ==
  ASSUME RelayTypeOK, TreeOK, ExecutionsOK, NEW e \in Executions, RelayStep(e)
  PROVE  TreeOK'
<1> DEFINE x == execution[e]
<1>1. CASE Looking(e) \/ \E s \in Submissions : doPost(e, s)
  <2>1. UNCHANGED <<folders, files>>
    BY <1>1 DEF Looking, doPost, doGet, UseSavedRoot, NoSavedRoot, LoseRoot, DropRoot, FindRoot,
                MissRoot, FindFolder, MissFolder, ReadIndex, Throws
  <2>2. rootProperty' \in {NoFolder, rootProperty} \cup IdsOf(Roots)
    BY <1>1 DEF Looking, doPost, doGet, UseSavedRoot, NoSavedRoot, LoseRoot, DropRoot, FindRoot,
                MissRoot, FindFolder, MissFolder, ReadIndex, Throws, IdsOf
  <2> QED  BY <2>1, <2>2 DEF TreeOK, IdsOf, Roots, Inner
<1>2. CASE CreateRoot(e)
  <2>1. PICK id \in FolderId \ IdsOf(folders) :
          folders' = folders \cup {[id |-> id, parent |-> NoFolder]} /\ rootProperty' = id
    BY <1>2 DEF CreateRoot, NextOf
  <2>2. files' = files
    BY <1>2 DEF CreateRoot
  <2>3. Roots' = Roots \cup {[id |-> id, parent |-> NoFolder]} /\ Inner' = Inner
    BY <2>1 DEF Roots, Inner
  <2>4. IdsOf(Roots)' = IdsOf(Roots) \cup {id} /\ IdsOf(Inner)' = IdsOf(Inner)
    <3>1. IdsOf(Roots \cup {[id |-> id, parent |-> NoFolder]}) = IdsOf(Roots) \cup {id}
      BY IdsOfOneMore
    <3> QED  BY <2>3, <3>1 DEF IdsOf
  <2>5. \A f, g \in folders' : f.id = g.id => f = g
    BY <2>1 DEF TreeOK, IdsOf
  <2> QED  BY <2>1, <2>2, <2>3, <2>4, <2>5 DEF TreeOK
<1>3. CASE CreateFolder(e)
  <2>1. PICK id \in FolderId \ IdsOf(folders) :
          folders' = folders \cup {[id |-> id, parent |-> x.root]}
    BY <1>3 DEF CreateFolder, NextOf
  <2>2. files' = files /\ rootProperty' = rootProperty /\ x.root \in IdsOf(Roots)
    BY <1>3 DEF CreateFolder, ExecutionsOK
  <2>3. x.root # NoFolder
    BY <2>2, RelayAssumption DEF IdsOf, Roots, RelayTypeOK, Folder, FolderId, NoFolder
  <2>4. Roots' = Roots /\ Inner' = Inner \cup {[id |-> id, parent |-> x.root]}
    BY <2>1, <2>3 DEF Roots, Inner
  <2>5. IdsOf(Roots)' = IdsOf(Roots) /\ IdsOf(Inner)' = IdsOf(Inner) \cup {id}
    <3>1. IdsOf(Inner \cup {[id |-> id, parent |-> x.root]}) = IdsOf(Inner) \cup {id}
      BY IdsOfOneMore
    <3> QED  BY <2>4, <3>1 DEF IdsOf
  <2>6. \A f, g \in folders' : f.id = g.id => f = g
    BY <2>1 DEF TreeOK, IdsOf
  <2>7. \A f \in Inner' : f.parent \in IdsOf(Roots)'
    BY <2>2, <2>4, <2>5 DEF TreeOK
  <2>8. \A f \in files' : f.folder \in IdsOf(Inner)'
    BY <2>2, <2>5 DEF TreeOK
  <2>9. rootProperty' \in {NoFolder, GoneFolder} \cup IdsOf(Roots)'
    BY <2>2, <2>5 DEF TreeOK
  <2>10. \A f, g \in files' : f.id = g.id => f = g
    BY <2>2 DEF TreeOK
  <2> QED  BY <2>6, <2>7, <2>8, <2>9, <2>10 DEF TreeOK
<1>4. CASE WriteIndex(e)
  <2>1. UNCHANGED <<folders, rootProperty>> /\ x.folder \in IdsOf(Inner)
    BY <1>4 DEF WriteIndex, ExecutionsOK
  <2>2. Roots' = Roots /\ Inner' = Inner /\ IdsOf(Roots)' = IdsOf(Roots)
          /\ IdsOf(Inner)' = IdsOf(Inner)
    BY <2>1 DEF Roots, Inner, IdsOf
  <2>3. (\A f, g \in files' : f.id = g.id => f = g) /\ (\A f \in files' : f.folder \in IdsOf(Inner))
    <3>1. CASE x.file = NoFile
      <4>1. PICK id \in FileId \ IdsOf(files) : files' = files \cup
              {[id |-> id, folder |-> x.folder, entries |-> NextEntries(x)]}
        BY <1>4, <3>1 DEF WriteIndex, NextOf
      <4> QED  BY <2>1, <4>1 DEF TreeOK, IdsOf
    <3>2. CASE x.file # NoFile
      <4>1. files' = {IF f.id = x.file THEN [f EXCEPT !.entries = NextEntries(x)] ELSE f : f \in files}
        BY <1>4, <3>2 DEF WriteIndex
      <4>2. \A f \in files : f \in File
        BY DEF RelayTypeOK
      <4> QED  BY <4>1, <4>2 DEF TreeOK, File
    <3> QED  BY <3>1, <3>2
  <2> QED  BY <2>1, <2>2, <2>3 DEF TreeOK
<1> QED  BY <1>1, <1>2, <1>3, <1>4 DEF RelayStep, Looking

LEMMA RelayExecutionsInv ==
  ASSUME RelayTypeOK, TreeOK, ExecutionsOK, NEW e \in Executions, RelayStep(e)
  PROVE  ExecutionsOK'
<1> DEFINE x == execution[e]
           y == execution'[e]
           Knows(z) ==
             /\ z.step \in {"folder", "newfolder"} => z.root \in IdsOf(Roots)'
             /\ z.step \in {"file", "write"} => z.folder \in IdsOf(Inner)'
             /\ z.step = "write" => z.adds # {} /\ z.file \in IdsOf(files)' \cup {NoFile}
<1>1. /\ IdsOf(Roots) \subseteq IdsOf(Roots)' /\ IdsOf(Inner) \subseteq IdsOf(Inner)'
      /\ IdsOf(files) \subseteq IdsOf(files)'
  BY TreeGrows
<1>2. execution \in [Executions -> ExecutionType]
  BY DEF RelayTypeOK
<1>3. \A o \in Executions \ {e} : execution'[o] = execution[o]
  BY <1>2 DEF RelayStep, doPost, doGet, UseSavedRoot, NoSavedRoot, LoseRoot, DropRoot, FindRoot,
         MissRoot, CreateRoot, FindFolder, MissFolder, CreateFolder, ReadIndex, WriteIndex, Throws
<1>4. \A o \in Executions : Knows(execution[o])
  BY <1>1 DEF ExecutionsOK
<1>5. Knows(y)
  <2>1. CASE \E s \in Submissions : doPost(e, s)
    BY <1>2, <2>1 DEF doPost
  <2>2. CASE doGet(e)
    BY <1>2, <2>2 DEF doGet
  <2>3. CASE UseSavedRoot(e)
    <3>1. rootProperty \in IdsOf(Roots)
      BY <2>3, RelayAssumption DEF UseSavedRoot, TreeOK, RelayTypeOK, IdsOf, Folder, FolderId,
                                   NoFolder, GoneFolder
    <3> QED  BY <1>1, <1>2, <2>3, <3>1 DEF UseSavedRoot
  <2>4. CASE NoSavedRoot(e) \/ LoseRoot(e) \/ DropRoot(e) \/ MissRoot(e)
    <3>1. x.step \in {"root", "drop", "search"}
      BY <2>4 DEF NoSavedRoot, LoseRoot, DropRoot, MissRoot
    <3>2. x = [step |-> x.step, adds |-> x.adds]
      BY <3>1, ExecutionShape
    <3>3. y.step \in {"search", "drop", "newroot"}
      BY <1>2, <2>4, <3>2 DEF NoSavedRoot, LoseRoot, DropRoot, MissRoot
    <3> QED  BY <3>3
  <2>5. CASE FindRoot(e)
    BY <1>1, <1>2, <2>5 DEF FindRoot, IdsOf
  <2>6. CASE CreateRoot(e)
    <3>1. PICK id : /\ folders' = folders \cup {[id |-> id, parent |-> NoFolder]}
                    /\ y = [step |-> "folder", adds |-> x.adds, root |-> id]
      BY <1>2, <2>6 DEF CreateRoot
    <3>2. [id |-> id, parent |-> NoFolder] \in Roots'
      BY <3>1 DEF Roots
    <3>3. id \in IdsOf(Roots)'
      BY <3>2 DEF IdsOf
    <3> QED  BY <3>1, <3>3
  <2>7. CASE FindFolder(e)
    <3>1. PICK f \in ChildrenOf(x.root) :
            y = [step |-> "file", adds |-> x.adds, folder |-> f.id]
      BY <1>2, <2>7 DEF FindFolder
    <3>2. x.root \in FolderId
      BY <2>7, ExecutionShape DEF FindFolder
    <3>3. f \in Inner
      BY <3>2, RelayAssumption DEF ChildrenOf, Inner, FolderId, NoFolder
    <3> QED  BY <1>1, <3>1, <3>3 DEF IdsOf
  <2>8. CASE MissFolder(e)
    <3>1. x.step = "folder" /\ x # Idle
      BY <2>8 DEF MissFolder, Idle
    <3>2. x = [step |-> x.step, adds |-> x.adds, root |-> x.root] /\ x.root \in IdsOf(Roots)
      BY <3>1, ExecutionShape DEF ExecutionsOK
    <3>3. y = Idle \/ y = [x EXCEPT !.step = "newfolder"]
      BY <1>2, <2>8 DEF MissFolder
    <3>4. y.step \in {"idle", "newfolder"} /\ (y.step = "newfolder" => y.root = x.root)
      BY <3>2, <3>3 DEF Idle
    <3> QED  BY <1>1, <3>2, <3>4
  <2>9. CASE CreateFolder(e)
    <3>1. PICK id : /\ folders' = folders \cup {[id |-> id, parent |-> x.root]}
                    /\ y = [step |-> "file", adds |-> x.adds, folder |-> id]
      BY <1>2, <2>9 DEF CreateFolder
    <3>2. x.root \in FolderId
      BY <2>9, ExecutionShape DEF CreateFolder
    <3>3. [id |-> id, parent |-> x.root] \in Inner'
      BY <3>1, <3>2, RelayAssumption DEF Inner, FolderId, NoFolder
    <3>4. id \in IdsOf(Inner)'
      BY <3>3 DEF IdsOf
    <3> QED  BY <3>1, <3>4
  <2>10. CASE ReadIndex(e)
    <3>1. PICK file \in FileId \cup {NoFile}, entries \in SUBSET Submissions :
            /\ IF FilesIn(x.folder) = {} THEN file = NoFile /\ entries = {}
               ELSE \E f \in FilesIn(x.folder) : file = f.id /\ entries = f.entries
            /\ execution' = [execution EXCEPT
                 ![e] = IF x.adds = {} THEN Idle
                        ELSE [step |-> "write", adds |-> x.adds, folder |-> x.folder,
                              file |-> file, entries |-> entries]]
            /\ UNCHANGED files
      BY <2>10 DEF ReadIndex
    <3>2. y = IF x.adds = {} THEN Idle
              ELSE [step |-> "write", adds |-> x.adds, folder |-> x.folder,
                    file |-> file, entries |-> entries]
      BY <1>2, <3>1
    <3>3. file \in IdsOf(files)' \cup {NoFile}
      BY <3>1 DEF FilesIn, IdsOf
    <3>4. x.folder \in IdsOf(Inner)'
      BY <1>4, <2>10 DEF ReadIndex
    <3> QED  BY <3>2, <3>3, <3>4 DEF Idle
  <2>11. CASE WriteIndex(e)
    BY <1>2, <2>11 DEF WriteIndex, Idle
  <2>12. CASE Throws(e)
    BY <1>2, <2>12 DEF Throws, Idle
  <2> QED  BY <2>1, <2>2, <2>3, <2>4, <2>5, <2>6, <2>7, <2>8, <2>9, <2>10, <2>11, <2>12 DEF RelayStep
<1> QED  BY <1>3, <1>4, <1>5 DEF ExecutionsOK

-----------------------------------------------------------------------------
LEMMA OthersStay ==
  ASSUME RelayTypeOK, NEW e \in Executions, RelayStep(e)
  PROVE  \A o \in Executions \ {e} : execution'[o] = execution[o]
  BY DEF RelayTypeOK, RelayStep, doPost, doGet, UseSavedRoot, NoSavedRoot, LoseRoot, DropRoot,
         FindRoot, MissRoot, CreateRoot, FindFolder, MissFolder, CreateFolder, ReadIndex,
         WriteIndex, Throws

(* An execution posts what it was started with.                            *)
LEMMA AddsStay ==
  ASSUME RelayTypeOK, NEW e \in Executions, RelayStep(e),
         ~ \E s \in Submissions : doPost(e, s)
  PROVE  \A o \in Posting' : o \in Posting /\ execution'[o].adds = execution[o].adds
<1> DEFINE x == execution[e]
           y == execution'[e]
<1>1. execution \in [Executions -> ExecutionType]
  BY DEF RelayTypeOK
<1>2. y = Idle \/ (x # Idle /\ y.adds = x.adds) \/ y.adds = {}
  <2>1. CASE doGet(e)
    BY <1>1, <2>1 DEF doGet
  <2>2. CASE UseSavedRoot(e) \/ FindRoot(e) \/ CreateRoot(e) \/ FindFolder(e) \/ CreateFolder(e)
    BY <1>1, <2>2 DEF UseSavedRoot, FindRoot, CreateRoot, FindFolder, CreateFolder, Idle
  <2>3. CASE NoSavedRoot(e) \/ LoseRoot(e) \/ DropRoot(e) \/ MissRoot(e)
    <3>1. x.step \in {"root", "drop", "search"} /\ x # Idle
      BY <2>3 DEF NoSavedRoot, LoseRoot, DropRoot, MissRoot, Idle
    <3>2. x = [step |-> x.step, adds |-> x.adds]
      BY <3>1, ExecutionShape
    <3>3. \E step \in {"search", "drop", "newroot"} : y = [x EXCEPT !.step = step]
      BY <1>1, <2>3 DEF NoSavedRoot, LoseRoot, DropRoot, MissRoot
    <3> QED  BY <3>1, <3>2, <3>3
  <2>4. CASE MissFolder(e)
    <3>1. x.step = "folder" /\ x # Idle
      BY <2>4 DEF MissFolder, Idle
    <3>2. x = [step |-> x.step, adds |-> x.adds, root |-> x.root]
      BY <3>1, ExecutionShape
    <3>3. y = Idle \/ y = [x EXCEPT !.step = "newfolder"]
      BY <1>1, <2>4 DEF MissFolder
    <3> QED  BY <3>1, <3>2, <3>3
  <2>6. CASE ReadIndex(e)
    <3>1. PICK file \in FileId \cup {NoFile}, entries \in SUBSET Submissions :
            execution' = [execution EXCEPT
              ![e] = IF x.adds = {} THEN Idle
                     ELSE [step |-> "write", adds |-> x.adds, folder |-> x.folder,
                           file |-> file, entries |-> entries]]
      BY <2>6 DEF ReadIndex
    <3>2. x # Idle
      BY <2>6 DEF ReadIndex, Idle
    <3> QED  BY <1>1, <3>1, <3>2
  <2>5. CASE WriteIndex(e) \/ Throws(e)
    BY <1>1, <2>5 DEF WriteIndex, Throws
  <2> QED  BY <2>1, <2>2, <2>3, <2>4, <2>5, <2>6 DEF RelayStep
<1> QED  BY <1>2, OthersStay DEF Posting, Running

LEMMA RelayOverlapsInv ==
  ASSUME RelayTypeOK, OverlapsAreRaced, NEW e \in Executions, RelayStep(e)
  PROVE  OverlapsAreRaced'
<1>1. CASE \E s \in Submissions : doPost(e, s)
  <2>1. PICK s \in Submissions : doPost(e, s)
    BY <1>1
  <2>2. execution'[e] = [step |-> "root", adds |-> {s}]
    BY <2>1 DEF doPost, RelayTypeOK
  <2>3. \A o \in Executions \ {e} : execution'[o] = execution[o]
    BY OthersStay
  <2>4. \A o \in Posting' \ {e} : o \in Posting
    BY <2>3 DEF Posting, Running
  <2>5. e \notin Posting
    BY <2>1 DEF doPost, Posting, Running
  <2> SUFFICES ASSUME NEW o \in Posting', NEW p \in Posting', o # p
               PROVE  execution'[o].adds \subseteq raced'
    BY DEF OverlapsAreRaced
  <2>6. Posting # {}
    BY <2>4
  <2>7. raced' = raced \cup {s} \cup UNION {execution[q].adds : q \in Posting}
    BY <2>1, <2>6 DEF doPost
  <2>8. CASE o = e
    BY <2>2, <2>7, <2>8
  <2>9. CASE o # e
    <3>1. o \in Posting /\ execution'[o] = execution[o]
      BY <2>3, <2>4, <2>9 DEF Posting, Running
    <3> QED  BY <2>7, <3>1
  <2> QED  BY <2>8, <2>9
<1>2. CASE ~ \E s \in Submissions : doPost(e, s)
  <2>1. \A o \in Posting' : o \in Posting /\ execution'[o].adds = execution[o].adds
    BY <1>2, AddsStay
  <2>2. raced' = raced
    BY <1>2 DEF RelayStep, doGet, UseSavedRoot, NoSavedRoot, LoseRoot, DropRoot, FindRoot,
         MissRoot, CreateRoot, FindFolder, MissFolder, CreateFolder, ReadIndex, WriteIndex, Throws
  <2> QED  BY <2>1, <2>2 DEF OverlapsAreRaced
<1> QED  BY <1>1, <1>2

(* A tree that has split stays so.                                         *)
LEMMA SplitStays ==
  ASSUME RelayTypeOK, TreeOK, Split, NEW e \in Executions, RelayStep(e)
  PROVE  Split'
<1>1. CASE \E f, g \in folders : f # g /\ f.parent = g.parent
  BY <1>1, TreeGrows DEF Split
<1>2. CASE \E f, g \in files : f # g
  <2>1. PICK f \in files, g \in files : f # g
    BY <1>2
  <2>2. f.id # g.id
    BY <2>1 DEF TreeOK
  <2>3. f.id \in IdsOf(files)' /\ g.id \in IdsOf(files)'
    BY <2>1, TreeGrows DEF IdsOf
  <2> QED  BY <2>2, <2>3 DEF Split, IdsOf
<1> QED  BY <1>1, <1>2 DEF Split

(* A tree that has not split has one project folder.                       *)
LEMMA OnePlace ==
  ASSUME TreeOK, ~Split
  PROVE  /\ \A i, j \in IdsOf(Roots) : i = j
         /\ \A i, j \in IdsOf(Inner) : i = j
         /\ \A f, g \in files : f = g
<1>1. \A i, j \in IdsOf(Roots) : i = j
  BY DEF Split, IdsOf, Roots
<1>2. \A f, g \in Inner : f.parent = g.parent /\ f \in folders /\ g \in folders
  BY <1>1 DEF TreeOK, Inner
<1>3. \A i, j \in IdsOf(Inner) : i = j
  BY <1>2 DEF Split, IdsOf
<1> QED  BY <1>1, <1>3 DEF Split

LEMMA WriteKeepsSafe ==
  ASSUME RelayInv, ~Split, ~Split', NEW e \in Executions, WriteIndex(e)
  PROVE  SafeIsKept'
<1> DEFINE x == execution[e]
<1>1. /\ x.step = "write" /\ acknowledged' = acknowledged \cup x.adds /\ raced' = raced
      /\ execution' = [execution EXCEPT ![e] = Idle]
      /\ x.adds # {} /\ x.file \in IdsOf(files) \cup {NoFile}
  BY DEF WriteIndex, RelayInv, ExecutionsOK
<1>2. Safe \subseteq x.entries /\ Safe' \subseteq Safe \cup x.adds
  BY <1>1 DEF RelayInv, SafeIsKept, Safe
<1>3. Safe' \subseteq NextEntries(x)
  BY <1>2 DEF NextEntries
<1>4. files' # {} /\ \A f \in files' : Safe' \subseteq f.entries
  <2>1. CASE x.file = NoFile
    <3>1. PICK id \in FileId \ IdsOf(files) : files' = files \cup
            {[id |-> id, folder |-> x.folder, entries |-> NextEntries(x)]}
      BY <2>1 DEF WriteIndex, NextOf
    <3>2. files = {}
      <4> SUFFICES ASSUME NEW f \in files PROVE FALSE
        OBVIOUS
      <4> DEFINE new == [id |-> id, folder |-> x.folder, entries |-> NextEntries(x)]
      <4>1. f.id # id
        BY DEF IdsOf
      <4>2. f # new /\ f \in files' /\ new \in files'
        BY <3>1, <4>1
      <4> QED  BY <4>2 DEF Split
    <3> QED  BY <1>3, <3>1, <3>2
  <2>2. CASE x.file # NoFile
    <3>1. files' = {IF f.id = x.file THEN [f EXCEPT !.entries = NextEntries(x)] ELSE f : f \in files}
      BY <2>2 DEF WriteIndex
    <3>2. PICK f \in files : f.id = x.file
      BY <1>1, <2>2 DEF IdsOf
    <3>3. files = {f} /\ f \in File
      BY <3>2, OnePlace DEF RelayInv, RelayTypeOK
    <3>4. files' = {[f EXCEPT !.entries = NextEntries(x)]}
      BY <3>1, <3>2, <3>3
    <3>5. \A new : [f EXCEPT !.entries = new].entries = new
      BY <3>3 DEF File
    <3> QED  BY <1>3, <3>4, <3>5
  <2> QED  BY <2>1, <2>2
<1>5. ASSUME NEW o \in Executions, execution'[o].step = "write"
      PROVE  Safe' \subseteq execution'[o].entries
  <2>1. o # e /\ execution'[o] = execution[o]
    BY <1>1, <1>5 DEF RelayInv, RelayTypeOK, Idle
  <2>2. execution[o].adds # {} /\ o \in Posting /\ e \in Posting
    BY <1>1, <1>5, <2>1 DEF RelayInv, ExecutionsOK, Posting, Running, Idle
  <2>3. x.adds \subseteq raced
    BY <2>1, <2>2 DEF RelayInv, OverlapsAreRaced
  <2>4. Safe' = Safe
    BY <1>1, <2>3 DEF Safe
  <2> QED  BY <1>5, <2>1, <2>4 DEF RelayInv, SafeIsKept
<1> QED  BY <1>4, <1>5 DEF SafeIsKept

LEMMA RelaySafeInv ==
  ASSUME RelayInv, NEW e \in Executions, RelayStep(e)
  PROVE  SafeIsKept'
<1> DEFINE x == execution[e]
           y == execution'[e]
<1> SUFFICES ASSUME ~Split' PROVE SafeIsKept'
  BY DEF SafeIsKept
<1>1. ~Split
  BY SplitStays DEF RelayInv
<1>2. /\ acknowledged # {} => files # {}
      /\ \A f \in files : Safe \subseteq f.entries
      /\ \A o \in Executions : execution[o].step = "write" => Safe \subseteq execution[o].entries
  BY <1>1 DEF RelayInv, SafeIsKept
<1>3. execution \in [Executions -> ExecutionType]
        /\ \A o \in Executions \ {e} : execution'[o] = execution[o]
  BY OthersStay DEF RelayInv, RelayTypeOK
<1>4. CASE WriteIndex(e)
  BY <1>1, <1>4, WriteKeepsSafe
<1>5. CASE ReadIndex(e)
  <2>1. UNCHANGED <<files, acknowledged, raced>> /\ Safe' = Safe
    BY <1>5 DEF ReadIndex, Safe
  <2>2. PICK file \in FileId \cup {NoFile}, entries \in SUBSET Submissions :
          /\ IF FilesIn(x.folder) = {} THEN file = NoFile /\ entries = {}
             ELSE \E f \in FilesIn(x.folder) : file = f.id /\ entries = f.entries
          /\ execution' = [execution EXCEPT
               ![e] = IF x.adds = {} THEN Idle
                      ELSE [step |-> "write", adds |-> x.adds, folder |-> x.folder,
                            file |-> file, entries |-> entries]]
    BY <1>5 DEF ReadIndex
  <2>3. Safe \subseteq entries
    <3>1. CASE FilesIn(x.folder) = {}
      <4>1. x.folder \in IdsOf(Inner)
        BY <1>5 DEF ReadIndex, RelayInv, ExecutionsOK
      <4>2. \A f \in files : f.folder = x.folder
        BY <1>1, <4>1, OnePlace DEF RelayInv, TreeOK
      <4>3. files = {}
        BY <3>1, <4>2 DEF FilesIn
      <4> QED  BY <1>2, <4>3 DEF Safe
    <3>2. CASE FilesIn(x.folder) # {}
      BY <1>2, <2>2, <3>2 DEF FilesIn
    <3> QED  BY <3>1, <3>2
  <2>4. y = Idle \/ y.entries = entries
    BY <1>3, <2>2
  <2> QED  BY <1>2, <1>3, <2>1, <2>3, <2>4 DEF SafeIsKept, Idle
<1>6. CASE ~WriteIndex(e) /\ ~ReadIndex(e)
  <2>1. files' = files /\ acknowledged' = acknowledged /\ raced \subseteq raced'
    BY <1>6 DEF RelayStep, doPost, doGet, UseSavedRoot, NoSavedRoot, LoseRoot, DropRoot, FindRoot,
                MissRoot, CreateRoot, FindFolder, MissFolder, CreateFolder, Throws
  <2>2. Safe' \subseteq Safe
    BY <2>1 DEF Safe
  <2>3. y.step # "write"
    <3>1. CASE (\E s \in Submissions : doPost(e, s)) \/ doGet(e) \/ Throws(e)
      BY <1>3, <3>1 DEF doPost, doGet, Throws, Idle
    <3>2. CASE UseSavedRoot(e) \/ FindRoot(e) \/ CreateRoot(e) \/ FindFolder(e) \/ CreateFolder(e)
      BY <1>3, <3>2 DEF UseSavedRoot, FindRoot, CreateRoot, FindFolder, CreateFolder
    <3>3. CASE NoSavedRoot(e) \/ LoseRoot(e) \/ DropRoot(e) \/ MissRoot(e)
      <4>1. x.step \in {"root", "drop", "search"}
        BY <3>3 DEF NoSavedRoot, LoseRoot, DropRoot, MissRoot
      <4>2. x = [step |-> x.step, adds |-> x.adds]
        BY <4>1, ExecutionShape DEF RelayInv
      <4>3. \E step \in {"search", "drop", "newroot"} : y = [x EXCEPT !.step = step]
        BY <1>3, <3>3 DEF NoSavedRoot, LoseRoot, DropRoot, MissRoot
      <4> QED  BY <4>2, <4>3
    <3>4. CASE MissFolder(e)
      <4>1. x.step = "folder"
        BY <3>4 DEF MissFolder
      <4>2. x = [step |-> x.step, adds |-> x.adds, root |-> x.root]
        BY <4>1, ExecutionShape DEF RelayInv
      <4>3. y = Idle \/ y = [x EXCEPT !.step = "newfolder"]
        BY <1>3, <3>4 DEF MissFolder
      <4> QED  BY <4>2, <4>3 DEF Idle
    <3> QED  BY <1>6, <3>1, <3>2, <3>3, <3>4 DEF RelayStep
  <2> QED  BY <1>2, <1>3, <2>1, <2>2, <2>3 DEF SafeIsKept
<1> QED  BY <1>4, <1>5, <1>6

LEMMA RelayNextInv == RelayInv /\ [RelayNext]_relayVars => RelayInv'
<1> SUFFICES ASSUME RelayInv, [RelayNext]_relayVars PROVE RelayInv'
  OBVIOUS
<1>1. CASE RelayNext
  <2>1. PICK e \in Executions : RelayStep(e)
    BY <1>1 DEF RelayNext
  <2> QED  BY <2>1, RelayTypeInv, RelayTreeInv, RelayExecutionsInv, RelayOverlapsInv, RelaySafeInv
           DEF RelayInv
<1>2. CASE UNCHANGED relayVars
  BY <1>2 DEF relayVars, RelayInv, RelayTypeOK, TreeOK, ExecutionsOK, OverlapsAreRaced, SafeIsKept,
              Safe, Split, Inner, IdsOf, Roots, Posting, Running
<1> QED  BY <1>1, <1>2

-----------------------------------------------------------------------------
(* In a tree that has not split doGet comes upon every file.               *)
LEMMA AllReachable ==
  ASSUME RelayTypeOK, TreeOK, ~Split
  PROVE  ReachableFiles = files
<1> SUFFICES ASSUME NEW f \in files
             PROVE  \E c \in folders : f.folder = c.id /\ c.parent \in ReachableRoots
  BY DEF ReachableFiles
<1>1. PICK c \in Inner : f.folder = c.id
  BY DEF TreeOK, IdsOf
<1>2. c \in folders /\ c.parent \in IdsOf(Roots)
  BY DEF Inner, TreeOK
<1>3. CASE rootProperty \in IdsOf(folders)
  <2>1. rootProperty \in FolderId
    BY <1>3 DEF IdsOf, RelayTypeOK, Folder
  <2>2. rootProperty \in IdsOf(Roots)
    BY <2>1, RelayAssumption DEF TreeOK, FolderId, NoFolder, GoneFolder
  <2>3. c.parent = rootProperty
    BY <1>2, <2>2, OnePlace
  <2> QED  BY <1>1, <1>2, <1>3, <2>3 DEF ReachableRoots
<1>4. CASE rootProperty \notin IdsOf(folders)
  BY <1>1, <1>2, <1>4 DEF ReachableRoots
<1> QED  BY <1>3, <1>4

EveryFileReachable == Split \/ ReachableFiles = files

LEMMA EveryFileIsReachable == RelayInv => EveryFileReachable
  BY AllReachable DEF RelayInv, EveryFileReachable

(* The folders, files and executions of the script keep their shapes.      *)
THEOREM RelayTypeCorrect == RelaySpec => []RelayTypeOK
<1>1. RelayInv => RelayTypeOK
  BY DEF RelayInv
<1> QED  BY <1>1, RelayInitInv, RelayNextInv, PTL DEF RelaySpec

(* An acknowledged submission that the owner cannot read has raced another *)
(* post, or the tree of folders has split: doPost loses nothing else.      *)
THEOREM OnlyRacesLose == RelaySpec => []LossNeedsRaceOrSplit
<1>1. RelayInv => LossNeedsRaceOrSplit
  <2> SUFFICES ASSUME RelayInv, ~Split, NEW s \in acknowledged, s \notin raced
               PROVE  OwnerReadable(s)
    BY DEF LossNeedsRaceOrSplit
  <2>1. ReachableFiles = files
    BY AllReachable DEF RelayInv
  <2>2. files # {} /\ \A f \in files : s \in f.entries
    BY DEF RelayInv, SafeIsKept, Safe
  <2> QED  BY <2>1, <2>2 DEF OwnerReadable
<1> QED  BY <1>1, RelayInitInv, RelayNextInv, PTL DEF RelaySpec

LEMMA SettledStep ==
  ASSUME RelayInv, RelayInv', EveryFileReachable', Settled, NEW e \in Executions, RelayStep(e)
  PROVE  Settled'
<1> DEFINE x == execution[e]
           y == execution'[e]
<1>1. /\ RelayTypeOK /\ TreeOK /\ ExecutionsOK /\ RelayTypeOK' /\ TreeOK'
      /\ execution \in [Executions -> ExecutionType] /\ files \subseteq File
      /\ \A o \in Executions \ {e} : execution'[o] = execution[o]
  BY OthersStay DEF RelayInv, RelayTypeOK
<1>2. /\ ~Split /\ files # {}
      /\ x.step \notin {"newroot", "newfolder"}
      /\ x.step = "write" => x.file # NoFile
  BY <1>1, AllReachable, ExecutionShape DEF Settled, Running
<1>3. PICK c \in Inner : c \in folders /\ c.parent \in IdsOf(Roots)
  BY <1>1, <1>2 DEF TreeOK, IdsOf, Inner
<1>4. folders' = folders
  BY <1>2 DEF RelayStep, doPost, doGet, UseSavedRoot, NoSavedRoot, LoseRoot, DropRoot, FindRoot,
              MissRoot, CreateRoot, FindFolder, MissFolder, CreateFolder, ReadIndex, WriteIndex, Throws
<1>5. files' # {} /\ \A f, g \in files' : f = g
  <2>1. CASE WriteIndex(e)
    <3>1. files' = {IF f.id = x.file THEN [f EXCEPT !.entries = NextEntries(x)] ELSE f : f \in files}
      BY <1>2, <2>1 DEF WriteIndex
    <3>2. \A f, g \in files : f = g
      BY <1>1, <1>2, OnePlace
    <3> QED  BY <1>2, <3>1, <3>2
  <2>2. CASE ~WriteIndex(e)
    <3>1. files' = files
      BY <2>2 DEF RelayStep, doPost, doGet, UseSavedRoot, NoSavedRoot, LoseRoot, DropRoot, FindRoot,
                  MissRoot, CreateRoot, FindFolder, MissFolder, CreateFolder, ReadIndex, Throws
    <3> QED  BY <1>1, <1>2, <3>1, OnePlace
  <2> QED  BY <2>1, <2>2
<1>6. ~Split'
  BY <1>2, <1>4, <1>5 DEF Split
<1>7. (ReachableFiles # {})'
  BY <1>5, <1>6 DEF EveryFileReachable
<1>8. y.step \notin {"newroot", "newfolder"} /\ (y.step = "write" => y.file # NoFile)
  <2>1. CASE (\E s \in Submissions : doPost(e, s)) \/ doGet(e) \/ Throws(e) \/ WriteIndex(e)
    BY <1>1, <2>1 DEF doPost, doGet, Throws, WriteIndex, Idle
  <2>2. CASE UseSavedRoot(e) \/ FindRoot(e) \/ CreateRoot(e) \/ FindFolder(e) \/ CreateFolder(e)
    BY <1>1, <2>2 DEF UseSavedRoot, FindRoot, CreateRoot, FindFolder, CreateFolder
  <2>3. CASE NoSavedRoot(e) \/ LoseRoot(e) \/ DropRoot(e)
    <3>1. x.step \in {"root", "drop"}
      BY <2>3 DEF NoSavedRoot, LoseRoot, DropRoot
    <3>2. x = [step |-> x.step, adds |-> x.adds]
      BY <1>1, <3>1, ExecutionShape
    <3>3. \E step \in {"search", "drop"} : y = [x EXCEPT !.step = step]
      BY <1>1, <2>3 DEF NoSavedRoot, LoseRoot, DropRoot
    <3> QED  BY <3>2, <3>3
  <2>4. CASE MissRoot(e)
    BY <1>3, <2>4 DEF MissRoot, IdsOf
  <2>5. CASE MissFolder(e)
    <3>1. x.root = c.parent
      BY <1>1, <1>2, <1>3, <2>5, OnePlace DEF MissFolder, ExecutionsOK
    <3> QED  BY <1>3, <2>5, <3>1 DEF MissFolder, ChildrenOf
  <2>6. CASE ReadIndex(e)
    <3>1. PICK file \in FileId \cup {NoFile}, entries \in SUBSET Submissions :
            /\ IF FilesIn(x.folder) = {} THEN file = NoFile /\ entries = {}
               ELSE \E f \in FilesIn(x.folder) : file = f.id /\ entries = f.entries
            /\ execution' = [execution EXCEPT
                 ![e] = IF x.adds = {} THEN Idle
                        ELSE [step |-> "write", adds |-> x.adds, folder |-> x.folder,
                              file |-> file, entries |-> entries]]
      BY <2>6 DEF ReadIndex
    <3>2. x.folder \in IdsOf(Inner)
      BY <1>1, <2>6 DEF ReadIndex, ExecutionsOK
    <3>3. FilesIn(x.folder) # {}
      BY <1>1, <1>2, <3>2, OnePlace DEF FilesIn, TreeOK
    <3>4. file # NoFile
      BY <1>1, <3>1, <3>3, RelayAssumption DEF FilesIn, File, FileId, NoFile
    <3>5. y = Idle \/ (y.step = "write" /\ y.file = file)
      BY <1>1, <3>1
    <3> QED  BY <3>4, <3>5 DEF Idle
  <2> QED  BY <2>1, <2>2, <2>3, <2>4, <2>5, <2>6 DEF RelayStep
<1> QED  BY <1>1, <1>6, <1>7, <1>8 DEF Settled, Running

(* Once there is one file and nobody is about to create another, no later  *)
(* execution of the script splits the tree.                                *)
THEOREM SettledForGood == RelaySpec => SettledStays
<1>1. RelayInv /\ RelayInv' /\ EveryFileReachable' /\ [RelayNext]_relayVars
        => [Settled => Settled']_relayVars
  <2> SUFFICES ASSUME RelayInv, RelayInv', EveryFileReachable', RelayNext, Settled PROVE Settled'
    OBVIOUS
  <2> PICK e \in Executions : RelayStep(e)
    BY DEF RelayNext
  <2> QED  BY SettledStep
<1> QED  BY <1>1, RelayInitInv, RelayNextInv, EveryFileIsReachable, PTL
         DEF RelaySpec, SettledStays

=============================================================================
