---------------------------- MODULE SaveStore_proofs ----------------------------
(***************************************************************************)
(* Proofs about SaveStore, for any players, contents and versions: with    *)
(* wipe_saves.py run only while the server is stopped, and cleanup_saves.py *)
(* only before a save was updated, the last completed save is the one that *)
(* is served, and the one that a console which began to load it gets.      *)
(***************************************************************************)
EXTENDS SaveStore, TLAPS

-----------------------------------------------------------------------------
(* Type correctness *)

LEMMA VersionFacts ==
  /\ 1 \in Version /\ 0 \in 0..MaxVersion /\ 1 \in 0..MaxVersion
  /\ \A v \in Version : v \in 0..MaxVersion /\ v \in Nat /\ v > 0
  /\ \A v \in 0..MaxVersion : v # 0 => v \in Version
  /\ \A v \in 0..MaxVersion : v < MaxVersion => v + 1 \in Version
BY SaveAssumption DEF Version

\* Where a console goes by Goto is a step.
LEMMA GotoType ==
  ASSUME SaveType, NEW o \in Owner, NEW from, NEW to \in PcStep, Goto(o, from, to)
  PROVE  pc' \in [Owner -> PcStep]
BY DEF SaveType, Goto

\* A console that forgets is as it was at the start.
LEMMA ForgetType ==
  ASSUME SaveType, NEW O, Forget(O)
  PROVE  /\ pc' \in [Owner -> PcStep]
         /\ of' \in [Owner -> Owner] /\ key' \in [Owner -> Version]
         /\ content' \in [Owner -> MaybeContent] /\ due' \in [Owner -> MaybeContent]
         /\ sized' \in [Owner -> Object] /\ got' \in [Owner -> Object]
<1>1. "idle" \in PcStep /\ NoObject \in MaybeContent /\ NoObject \in Object
  BY DEF PcStep, MaybeContent, Object
<1>2. pc' \in [Owner -> PcStep] /\ of' \in [Owner -> Owner]
  BY <1>1 DEF SaveType, Forget
<1>3. key' \in [Owner -> Version]
  BY VersionFacts DEF SaveType, Forget
<1>4. content' \in [Owner -> MaybeContent] /\ due' \in [Owner -> MaybeContent]
  BY <1>1 DEF SaveType, Forget
<1>5. sized' \in [Owner -> Object] /\ got' \in [Owner -> Object]
  BY <1>1 DEF SaveType, Forget
<1>6. QED BY <1>2, <1>3, <1>4, <1>5

LEMMA TypeInit == Init => SaveType
BY SaveAssumption DEF Init, SaveType, Version, File, Object, MaybeContent, PcStep

LEMMA PostType ==
  ASSUME SaveType, NEW o \in Owner,
         GetPersistence(o) \/ PostMeta(o) \/ ChangeMeta(o) \/ PreparePostFound(o)
           \/ PreparePostMissing(o) \/ PreparePostInsert(o)
  PROVE  SaveType'
<1>1. version' \in [Owner -> 0..MaxVersion]
  <2>1. RowEnsured(o) \in [Owner -> 0..MaxVersion]
    BY VersionFacts DEF SaveType, RowEnsured
  <2>2. QED
    BY <2>1 DEF SaveType, GetPersistence, PostMeta, ChangeMeta, PreparePostFound, PreparePostMissing,
                PreparePostInsert
<1>2. pc' \in [Owner -> PcStep]
  <2>1. \A s \in {"new", "known", "inserting", "sending"} : s \in PcStep
    BY DEF PcStep
  <2>2. QED
    BY <2>1, GotoType DEF GetPersistence, PostMeta, ChangeMeta, PreparePostFound, PreparePostMissing,
                          PreparePostInsert
<1>3. /\ key' \in [Owner -> Version]
      /\ content' \in [Owner -> MaybeContent]
  <2>1. ASSUME PostKeyGiven(o)
        PROVE  key' \in [Owner -> Version] /\ content' \in [Owner -> MaybeContent]
    <3>1. key' \in [Owner -> Version]
      BY <2>1, VersionFacts DEF SaveType, PostKeyGiven
    <3>2. PICK c \in Content : content' = [content EXCEPT ![o] = c]
      BY <2>1 DEF PostKeyGiven
    <3>3. c \in MaybeContent
      BY DEF MaybeContent
    <3>4. QED BY <3>1, <3>2, <3>3 DEF SaveType
  <2>2. QED
    BY <2>1 DEF SaveType, GetPersistence, PostMeta, ChangeMeta, PreparePostFound, PreparePostMissing,
                PreparePostInsert
<1>4. UNCHANGED <<objects, of, sized, got, due, saved, wipe, doomed>>
  BY DEF GetPersistence, PostMeta, ChangeMeta, PreparePostFound, PreparePostMissing,
         PreparePostInsert, download, script
<1>5. QED BY <1>1, <1>2, <1>3, <1>4 DEF SaveType

LEMMA LateType ==
  ASSUME SaveType, NEW o \in Owner, PreparePostLate(o)
  PROVE  SaveType'
<1>1. RowEnsured(o) \in [Owner -> 0..MaxVersion]
  BY VersionFacts DEF SaveType, RowEnsured
<1>2. QED BY <1>1 DEF SaveType, PreparePostLate, console, download, script

LEMMA UpdateType ==
  ASSUME SaveType, NEW o \in Owner,
         PrepareUpdate(o) \/ UploadStart(o) \/ UploadEnd(o)
  PROVE  SaveType'
<1>1. pc' \in [Owner -> PcStep]
  <2>1. \A s \in {"sending", "uploading", "uploaded"} : s \in PcStep
    BY DEF PcStep
  <2>2. QED
    BY <2>1, GotoType DEF PrepareUpdate, UploadStart, UploadEnd
<1>2. /\ key' \in [Owner -> Version]
      /\ content' \in [Owner -> MaybeContent]
  <2>1. CASE PrepareUpdate(o)
    <3>1. version[o] + 1 \in Version
      BY <2>1, VersionFacts DEF SaveType, PrepareUpdate
    <3>2. key' \in [Owner -> Version]
      BY <2>1, <3>1 DEF SaveType, PrepareUpdate
    <3>3. PICK c \in Content : content' = [content EXCEPT ![o] = c]
      BY <2>1 DEF PrepareUpdate
    <3>4. c \in MaybeContent
      BY DEF MaybeContent
    <3>5. QED BY <3>2, <3>3, <3>4 DEF SaveType
  <2>2. CASE UploadStart(o) \/ UploadEnd(o)
    BY <2>2 DEF SaveType, UploadStart, UploadEnd
  <2>3. QED BY <2>1, <2>2
<1>3. objects' \in [File -> Object]
  <2>1. Partial \in Object /\ content[o] \in Object
    BY DEF SaveType, Object, MaybeContent
  <2>2. QED BY <2>1 DEF SaveType, PrepareUpdate, UploadStart, UploadEnd
<1>4. UNCHANGED <<version, of, sized, got, due, saved, wipe, doomed>>
  BY DEF PrepareUpdate, UploadStart, UploadEnd, download, script
<1>5. QED BY <1>1, <1>2, <1>3, <1>4 DEF SaveType

LEMMA EndType ==
  ASSUME SaveType, NEW o \in Owner, Complete(o) \/ Leave(o)
  PROVE  SaveType'
<1>1. Forget({o}) /\ UNCHANGED <<objects, wipe, doomed>>
  BY DEF Complete, Leave, script
<1>2. version' \in [Owner -> 0..MaxVersion]
  BY VersionFacts DEF SaveType, Complete, Leave
<1>3. saved' \in [Owner -> MaybeContent]
  BY DEF SaveType, Complete, Leave
<1>4. QED BY <1>1, <1>2, <1>3, ForgetType DEF SaveType

LEMMA LoadType ==
  ASSUME SaveType, NEW o \in Owner, NEW w \in Owner,
         PrepareGet(o, w) \/ TakeSize(o) \/ Download(o)
  PROVE  SaveType'
<1>1. pc' \in [Owner -> PcStep]
  <2>1. \A s \in {"sizing", "downloading", "got"} : s \in PcStep
    BY DEF PcStep
  <2>2. QED
    BY <2>1, GotoType DEF PrepareGet, TakeSize, Download
<1>2. /\ of' \in [Owner -> Owner]
      /\ due' \in [Owner -> MaybeContent]
  <2>1. saved[w] \in MaybeContent
    BY DEF SaveType
  <2>2. of' \in [Owner -> Owner]
    BY DEF SaveType, PrepareGet, TakeSize, Download
  <2>3. due' \in [Owner -> MaybeContent]
    BY <2>1 DEF SaveType, PrepareGet, TakeSize, Download
  <2>4. QED BY <2>2, <2>3
<1>3. key' \in [Owner -> Version]
  <2>1. (IF version[w] = 0 THEN 1 ELSE version[w]) \in Version
    BY VersionFacts DEF SaveType
  <2>2. QED BY <2>1 DEF SaveType, PrepareGet, TakeSize, Download
<1>4. /\ sized' \in [Owner -> Object]
      /\ got' \in [Owner -> Object]
  <2>1. <<of[o], key[o]>> \in File
    BY DEF SaveType, File
  <2>2. objects[<<of[o], key[o]>>] \in Object
    BY <2>1 DEF SaveType
  <2>3. QED BY <2>2 DEF SaveType, PrepareGet, TakeSize, Download
<1>5. UNCHANGED <<version, objects, content, saved, wipe, doomed>>
  BY DEF PrepareGet, TakeSize, Download, script
<1>6. QED BY <1>1, <1>2, <1>3, <1>4, <1>5 DEF SaveType

LEMMA ScriptType ==
  ASSUME SaveType, Script
  PROVE  SaveType'
<1>1. CASE WipeRows
  <2>1. /\ version' \in [Owner -> 0..MaxVersion]
        /\ saved' \in [Owner -> MaybeContent]
    BY <1>1, VersionFacts DEF WipeRows, MaybeContent
  <2>2. \E O : Forget(O)
    BY <1>1 DEF WipeRows
  <2>3. objects' = objects /\ doomed' = doomed /\ wipe' = "rows gone"
    BY <1>1 DEF WipeRows
  <2>4. QED BY <2>1, <2>2, <2>3, ForgetType DEF SaveType
<1>2. CASE WipeList
  BY <1>2 DEF SaveType, WipeList, console, download
<1>3. ASSUME NEW f \in File, WipeFile(f) PROVE SaveType'
  <2>1. objects' \in [File -> Object]
    BY <1>3 DEF SaveType, WipeFile, Object
  <2>2. doomed' \subseteq File
    BY <1>3 DEF SaveType, WipeFile
  <2>3. QED BY <1>3, <2>1, <2>2 DEF SaveType, WipeFile, console, download
<1>4. CASE WipeEnd
  BY <1>4 DEF SaveType, WipeEnd, console, download
<1>5. CASE CleanupSaves
  <2>1. version' \in [Owner -> 0..MaxVersion]
    BY <1>5, VersionFacts DEF CleanupSaves
  <2>2. QED BY <1>5, <2>1 DEF SaveType, CleanupSaves, console, download, script
<1>6. QED BY <1>1, <1>2, <1>3, <1>4, <1>5 DEF Script

LEMMA TypeNext == SaveType /\ [Next]_vars => SaveType'
<1> SUFFICES ASSUME SaveType, [Next]_vars PROVE SaveType'
  OBVIOUS
<1>1. ASSUME NEW o \in Owner, Save(o) \/ PreparePostLate(o) \/ Load(o) \/ Leave(o)
      PROVE  SaveType'
  BY <1>1, PostType, LateType, UpdateType, EndType, LoadType DEF Save, Load
<1>2. CASE Script
  BY <1>2, ScriptType
<1>3. CASE UNCHANGED vars
  BY <1>3 DEF SaveType, vars, console, download, script
<1>4. QED BY <1>1, <1>2, <1>3 DEF Next

LEMMA PostMetaType ==
  ASSUME MetaType, NEW o \in Owner, NEW m \in Meta, MetaStored(o, m)
  PROVE  MetaType'
BY DEF MetaType, MetaStored

LEMMA MetaNext == MetaType /\ [Next]_vars => MetaType'
<1> SUFFICES ASSUME MetaType, [Next]_vars PROVE MetaType'
  OBVIOUS
<1>1. ASSUME NEW o \in Owner, Save(o) PROVE MetaType'
  <2>1. CASE PostMeta(o) \/ ChangeMeta(o)
    BY <2>1, PostMetaType DEF PostMeta, ChangeMeta
  <2>2. CASE PreparePostInsert(o)
    BY <2>2 DEF MetaType, PreparePostInsert, MetaEmptied
  <2>3. CASE ~(PostMeta(o) \/ ChangeMeta(o) \/ PreparePostInsert(o))
    BY <1>1, <2>3
       DEF Save, MetaType, GetPersistence, PreparePostFound, PreparePostMissing, PrepareUpdate,
           UploadStart, UploadEnd, Complete, metas
  <2>4. QED BY <2>1, <2>2, <2>3
<1>2. ASSUME NEW o \in Owner, PreparePostLate(o) PROVE MetaType'
  BY <1>2 DEF MetaType, PreparePostLate, MetaEmptied
<1>3. ASSUME NEW o \in Owner, Load(o) PROVE MetaType'
  BY <1>3 DEF Load, MetaType, PrepareGet, TakeSize, Download, metas
<1>4. ASSUME NEW o \in Owner, Leave(o) PROVE MetaType'
  BY <1>4 DEF MetaType, Leave
<1>5. CASE WipeRows
  BY <1>5 DEF MetaType, WipeRows
<1>6. CASE WipeList \/ (\E f \in File : WipeFile(f)) \/ WipeEnd \/ CleanupSaves
  BY <1>6 DEF MetaType, WipeList, WipeFile, WipeEnd, CleanupSaves, metas
<1>7. CASE UNCHANGED vars
  BY <1>7 DEF MetaType, vars, metas
<1>8. QED BY <1>1, <1>2, <1>3, <1>4, <1>5, <1>6, <1>7 DEF Next, Script

\* Rows, files and consoles have their types in every reachable state, whatever
\* the maintenance scripts do (db.py, s3_store.py, protocols/secure.py).
THEOREM TypeCorrect == Spec => []TypeOK
<1>1. Init => MetaType
  BY DEF Init, MetaType
<1>2. SaveType /\ MetaType <=> TypeOK
  BY DEF TypeOK
<1>3. QED BY TypeInit, TypeNext, MetaNext, <1>1, <1>2, PTL DEF Spec

-----------------------------------------------------------------------------
(* The inductive invariant *)

\* A console that is about to post never completed a save.
PostsFirst ==
  \A o \in Owner : pc[o] \in {"new", "inserting"} \/ version[o] = 0 => saved[o] = NoObject

\* A console that uploads over a completed save uses a later version.
SendsLater ==
  \A o \in Owner :
    pc[o] \in {"sending", "uploading", "uploaded"} =>
      content[o] \in Content /\ (saved[o] # NoObject => version[o] < key[o])

UploadIsThere ==
  \A o \in Owner : pc[o] = "uploaded" => objects[<<o, key[o]>>] = content[o]

\* The file a console loads is that of a version which is no longer written.
ReadsFinal ==
  \A o \in Owner :
    due[o] # NoObject => /\ pc[o] \in {"sizing", "downloading", "got"}
                         /\ saved[of[o]] # NoObject
                         /\ key[o] <= version[of[o]]
                         /\ objects[<<of[o], key[o]>>] = due[o]

\* While saves are wiped there are none, and nobody is at work.
WipedAlone ==
  /\ doomed # {} => wipe = "sweeping"
  /\ wipe # "off" => \A o \in Owner : pc[o] = "idle" /\ version[o] = 0

SaveInv ==
  /\ SaveType
  /\ PostsFirst /\ SendsLater /\ UploadIsThere /\ ReadsFinal /\ WipedAlone
  /\ SavedIsServed /\ SnapshotRead

LEMMA SaveInit == Init => SaveInv
<1> SUFFICES ASSUME Init PROVE SaveInv
  OBVIOUS
<1>1. SaveType
  BY TypeInit
<1>2. QED
  BY <1>1 DEF Init, SaveInv, PostsFirst, SendsLater, UploadIsThere, ReadsFinal, WipedAlone,
              SavedIsServed, SnapshotRead

LEMMA PostSave ==
  ASSUME SaveInv, wipe = "off", NEW o \in Owner,
         GetPersistence(o) \/ PostMeta(o) \/ ChangeMeta(o) \/ PreparePostFound(o)
           \/ PreparePostMissing(o) \/ PreparePostInsert(o)
  PROVE  SaveInv'
<1> USE DEF SaveInv
<1>1. SaveType'
  BY PostType
<1>2. /\ UNCHANGED <<objects, of, sized, got, due, saved, wipe, doomed>>
      /\ \E s \in {"new", "known", "inserting", "sending"} : pc' = [pc EXCEPT ![o] = s]
      /\ pc[o] \in {"idle", "new", "known", "inserting"}
  BY DEF GetPersistence, PostMeta, ChangeMeta, PreparePostFound, PreparePostMissing,
         PreparePostInsert, Goto, download, script
<1>3. \/ version' = version
      \/ /\ saved[o] = NoObject
         /\ version' = [version EXCEPT ![o] = IF @ = 0 THEN 1 ELSE @]
  BY DEF GetPersistence, PostMeta, ChangeMeta, PreparePostFound, PreparePostMissing,
         PreparePostInsert, Goto, RowEnsured, PostsFirst
<1>4. \/ key' = key /\ content' = content /\ pc'[o] # "sending"
      \/ /\ saved[o] = NoObject
         /\ key' = [key EXCEPT ![o] = 1]
         /\ \E c \in Content : content' = [content EXCEPT ![o] = c]
  BY DEF SaveType, GetPersistence, PostMeta, ChangeMeta, PreparePostFound, PreparePostMissing,
         PreparePostInsert, Goto, PostKeyGiven, PostsFirst
<1>5. \A v \in Owner : v # o => /\ pc'[v] = pc[v] /\ key'[v] = key[v]
                              /\ content'[v] = content[v] /\ version'[v] = version[v]
  BY <1>2, <1>3, <1>4 DEF SaveType
<1>6. pc'[o] \in {"new", "inserting"} => saved[o] = NoObject
  BY <1>2 DEF SaveType, PostsFirst, GetPersistence, PostMeta, ChangeMeta, PreparePostFound,
              PreparePostMissing, PreparePostInsert, Goto
<1>7. \A v \in Owner : version'[v] = version[v] \/ saved[v] = NoObject
  BY <1>3, <1>5
<1>8. PostsFirst'
  BY <1>2, <1>5, <1>6, <1>7 DEF PostsFirst
<1>9. pc'[o] = "sending" => saved[o] = NoObject /\ content'[o] \in Content
  BY <1>4 DEF SaveType
<1>10. pc'[o] \notin {"uploading", "uploaded", "sizing", "downloading", "got"}
  BY <1>2 DEF SaveType
<1>11. SendsLater'
  BY <1>2, <1>5, <1>9, <1>10 DEF SendsLater
<1>12. UploadIsThere'
  BY <1>2, <1>5, <1>10 DEF UploadIsThere
<1>13. due[o] = NoObject
  BY <1>2 DEF ReadsFinal
<1>14. ReadsFinal'
  BY <1>2, <1>5, <1>7, <1>13 DEF SaveType, ReadsFinal
<1>15. WipedAlone'
  BY <1>2 DEF WipedAlone
<1>16. SavedIsServed'
  BY <1>2, <1>7 DEF SavedIsServed
<1>17. SnapshotRead'
  BY <1>2, <1>5, <1>13 DEF SnapshotRead
<1>18. QED BY <1>1, <1>8, <1>11, <1>12, <1>14, <1>15, <1>16, <1>17

\* The late end of a PreparePostObject makes at most a missing row.
LEMMA LateSave ==
  ASSUME SaveInv, wipe = "off", NEW o \in Owner, PreparePostLate(o)
  PROVE  SaveInv'
<1> USE DEF SaveInv
<1>1. SaveType'
  BY LateType
<1>2. /\ UNCHANGED <<objects, pc, key, content, of, sized, got, due, saved, wipe, doomed>>
      /\ version' = [version EXCEPT ![o] = IF @ = 0 THEN 1 ELSE @]
  BY DEF PreparePostLate, RowEnsured, console, download, script
<1>3. \A v \in Owner : version'[v] = version[v] \/ saved[v] = NoObject
  BY <1>2 DEF SaveType, PostsFirst
<1>4. PostsFirst' /\ SendsLater' /\ UploadIsThere'
  BY <1>2, <1>3 DEF PostsFirst, SendsLater, UploadIsThere
<1>5. ReadsFinal'
  BY <1>2, <1>3 DEF SaveType, ReadsFinal
<1>6. WipedAlone' /\ SavedIsServed' /\ SnapshotRead'
  BY <1>2, <1>3 DEF WipedAlone, SavedIsServed, SnapshotRead
<1>7. QED BY <1>1, <1>4, <1>5, <1>6

LEMMA PrepareUpdateSave ==
  ASSUME SaveInv, wipe = "off", NEW o \in Owner, PrepareUpdate(o)
  PROVE  SaveInv'
<1> USE DEF SaveInv
<1>1. SaveType'
  BY UpdateType
<1>2. /\ UNCHANGED <<version, objects, of, sized, got, due, saved, wipe, doomed>>
      /\ pc[o] = "known" /\ pc' = [pc EXCEPT ![o] = "sending"]
      /\ key' = [key EXCEPT ![o] = version[o] + 1]
      /\ \E c \in Content : content' = [content EXCEPT ![o] = c]
  BY DEF PrepareUpdate, Goto, download, script
<1>3. \A v \in Owner : v # o => pc'[v] = pc[v] /\ key'[v] = key[v] /\ content'[v] = content[v]
  BY <1>2 DEF SaveType
<1>4. pc'[o] = "sending" /\ key'[o] = version[o] + 1 /\ content'[o] \in Content
  BY <1>2 DEF SaveType
<1>5. due[o] = NoObject
  BY <1>2 DEF ReadsFinal
<1>6. PostsFirst' /\ UploadIsThere' /\ WipedAlone' /\ SavedIsServed'
  BY <1>2, <1>3, <1>4 DEF PostsFirst, UploadIsThere, WipedAlone, SavedIsServed
<1>7. version[o] \in Nat
  BY VersionFacts DEF SaveType
<1>8. SendsLater'
  BY <1>2, <1>3, <1>4, <1>7 DEF SendsLater
<1>9. ReadsFinal' /\ SnapshotRead'
  BY <1>2, <1>3, <1>5 DEF ReadsFinal, SnapshotRead
<1>10. QED BY <1>1, <1>6, <1>8, <1>9

\* An upload writes a file that neither the last completed save nor a console
\* that loads one needs.
LEMMA UploadSave ==
  ASSUME SaveInv, wipe = "off", NEW o \in Owner, UploadStart(o) \/ UploadEnd(o)
  PROVE  SaveInv'
<1> USE DEF SaveInv
<1>1. SaveType'
  BY UpdateType
<1>2. /\ UNCHANGED <<version, key, content, of, sized, got, due, saved, wipe, doomed>>
      /\ pc[o] \in {"sending", "uploading"}
      /\ pc' = [pc EXCEPT ![o] = IF pc[o] = "sending" THEN "uploading" ELSE "uploaded"]
      /\ \/ pc[o] = "sending"
         \/ pc[o] = "uploading" /\ objects' = [objects EXCEPT ![<<o, key[o]>>] = content[o]]
      /\ \E x \in Object : objects' = [objects EXCEPT ![<<o, key[o]>>] = x]
  BY DEF UploadStart, UploadEnd, Goto, download, script, SaveType, Object, MaybeContent
<1>3. \A v \in Owner : v # o => pc'[v] = pc[v]
  BY <1>2 DEF SaveType
<1>4. pc'[o] \in {"uploading", "uploaded"}
  BY <1>2 DEF SaveType
<1>5. \A f \in File : f # <<o, key[o]>> => objects'[f] = objects[f]
  BY <1>2 DEF SaveType
<1>6. <<o, key[o]>> \in File
  BY DEF SaveType, File
<1>7. due[o] = NoObject
  BY <1>2 DEF ReadsFinal
<1>8. saved[o] # NoObject => version[o] < key[o]
  BY <1>2 DEF SendsLater
<1>9. PostsFirst' /\ SendsLater' /\ WipedAlone' /\ SnapshotRead'
  BY <1>2, <1>3, <1>4, <1>7 DEF PostsFirst, SendsLater, WipedAlone, SnapshotRead
<1>10. UploadIsThere'
  <2>1. ASSUME NEW v \in Owner, pc'[v] = "uploaded", v # o
        PROVE  objects'[<<v, key[v]>>] = content[v]
    BY <1>3, <1>5, <2>1 DEF SaveType, File, UploadIsThere
  <2>2. pc'[o] = "uploaded" => objects'[<<o, key[o]>>] = content[o]
    BY <1>2, <1>6 DEF SaveType
  <2>3. QED BY <1>2, <2>1, <2>2 DEF UploadIsThere
<1>11. SavedIsServed'
  <2> SUFFICES ASSUME NEW v \in Owner, saved[v] # NoObject
               PROVE  objects'[<<v, version[v]>>] = saved[v]
    BY <1>2 DEF SavedIsServed
  <2>1. version[v] \in Version
    BY VersionFacts DEF PostsFirst, SaveType
  <2>2. <<v, version[v]>> \in File /\ <<v, version[v]>> # <<o, key[o]>>
    BY <1>8, <2>1, VersionFacts DEF File, SaveType
  <2>3. QED BY <1>5, <2>2 DEF SavedIsServed
<1>12. ReadsFinal'
  <2> SUFFICES ASSUME NEW v \in Owner, due[v] # NoObject
               PROVE  /\ pc'[v] \in {"sizing", "downloading", "got"}
                      /\ saved[of[v]] # NoObject
                      /\ key[v] <= version[of[v]]
                      /\ objects'[<<of[v], key[v]>>] = due[v]
    BY <1>2 DEF ReadsFinal
  <2>1. v # o /\ of[v] \in Owner
    BY <1>7 DEF SaveType
  <2>2. saved[of[v]] # NoObject /\ key[v] <= version[of[v]] /\ objects[<<of[v], key[v]>>] = due[v]
        /\ pc[v] \in {"sizing", "downloading", "got"}
    BY DEF ReadsFinal
  <2>3. key[v] \in Nat /\ key[o] \in Nat /\ version[of[v]] \in Nat
    BY <2>1, VersionFacts DEF SaveType
  <2>4. <<of[v], key[v]>> \in File /\ <<of[v], key[v]>> # <<o, key[o]>>
    BY <1>8, <2>1, <2>2, <2>3 DEF File, SaveType
  <2>5. QED BY <1>3, <1>5, <2>1, <2>2, <2>4
<1>13. QED BY <1>1, <1>9, <1>10, <1>11, <1>12

\* What Forget does to a console and to the others.
LEMMA Forgotten ==
  ASSUME SaveType, NEW O, Forget(O), NEW v \in Owner
  PROVE  /\ v \in O => /\ pc'[v] = "idle" /\ due'[v] = NoObject
         /\ v \notin O => /\ pc'[v] = pc[v] /\ of'[v] = of[v] /\ key'[v] = key[v]
                         /\ content'[v] = content[v] /\ due'[v] = due[v]
                         /\ sized'[v] = sized[v] /\ got'[v] = got[v]
BY DEF Forget

\* The file of a completed save is in place when the row comes to name it.
LEMMA CompleteSave ==
  ASSUME SaveInv, wipe = "off", NEW o \in Owner, Complete(o)
  PROVE  SaveInv'
<1> USE DEF SaveInv
<1>1. SaveType'
  BY EndType
<1>2. /\ UNCHANGED <<objects, wipe, doomed>> /\ Forget({o}) /\ pc[o] = "uploaded"
  BY DEF Complete, script
<1>3. pc'[o] = "idle" /\ due'[o] = NoObject
  BY <1>2, Forgotten
<1>4. \A v \in Owner : v # o =>
         /\ pc'[v] = pc[v] /\ of'[v] = of[v] /\ key'[v] = key[v] /\ content'[v] = content[v]
         /\ due'[v] = due[v] /\ sized'[v] = sized[v] /\ got'[v] = got[v]
         /\ version'[v] = version[v] /\ saved'[v] = saved[v]
  BY <1>2, Forgotten DEF SaveType, Complete
<1>5. content[o] \in Content /\ content[o] # NoObject /\ objects[<<o, key[o]>>] = content[o]
  BY <1>2, SaveAssumption DEF SendsLater, UploadIsThere
<1>6. \/ version[o] = 0 /\ version'[o] = version[o] /\ saved'[o] = saved[o]
      \/ version[o] # 0 /\ version'[o] = key[o] /\ saved'[o] = content[o]
  BY DEF SaveType, Complete
<1>7. key[o] \in Nat /\ key[o] > 0 /\ version[o] \in Nat
  BY VersionFacts DEF SaveType
<1>8. PostsFirst'
  BY <1>3, <1>4, <1>6, <1>7 DEF PostsFirst
<1>9. SendsLater' /\ UploadIsThere' /\ SnapshotRead'
  BY <1>2, <1>3, <1>4 DEF SendsLater, UploadIsThere, SnapshotRead
<1>10. WipedAlone'
  BY <1>2 DEF WipedAlone
<1>11. SavedIsServed'
  BY <1>2, <1>4, <1>5, <1>6 DEF SavedIsServed
<1>12. ReadsFinal'
  <2> SUFFICES ASSUME NEW v \in Owner, due'[v] # NoObject
               PROVE  /\ pc'[v] \in {"sizing", "downloading", "got"}
                      /\ saved'[of'[v]] # NoObject
                      /\ key'[v] <= version'[of'[v]]
                      /\ objects'[<<of'[v], key'[v]>>] = due'[v]
    BY DEF ReadsFinal
  <2>1. v # o /\ of[v] \in Owner
    BY <1>3 DEF SaveType
  <2>2. /\ saved[of[v]] # NoObject /\ key[v] <= version[of[v]]
        /\ objects[<<of[v], key[v]>>] = due[v] /\ pc[v] \in {"sizing", "downloading", "got"}
    BY <1>4, <2>1 DEF ReadsFinal
  <2>3. saved'[of[v]] # NoObject
    BY <1>4, <1>5, <1>6, <2>1, <2>2
  <2>4. version[of[v]] <= version'[of[v]]
    <3>1. CASE of[v] # o
      BY <1>4, <2>1, <3>1, VersionFacts DEF SaveType
    <3>2. CASE of[v] = o
      BY <1>2, <1>6, <1>7, <2>2, <3>2 DEF SendsLater
    <3>3. QED BY <3>1, <3>2
  <2>5. key[v] \in Nat /\ version[of[v]] \in Nat /\ version'[of[v]] \in Nat
    <3>1. version' \in [Owner -> 0..MaxVersion] /\ version \in [Owner -> 0..MaxVersion]
      BY <1>1 DEF SaveType
    <3>2. version[of[v]] \in Nat /\ version'[of[v]] \in Nat
      BY <2>1, <3>1
    <3>3. key[v] \in Version
      BY DEF SaveType
    <3>4. QED BY <3>2, <3>3, VersionFacts
  <2>6. QED BY <1>2, <1>4, <2>1, <2>2, <2>3, <2>4, <2>5
<1>13. QED BY <1>1, <1>8, <1>9, <1>10, <1>11, <1>12

LEMMA LeaveSave ==
  ASSUME SaveInv, wipe = "off", NEW o \in Owner, Leave(o)
  PROVE  SaveInv'
<1> USE DEF SaveInv
<1>1. SaveType'
  BY EndType
<1>2. /\ UNCHANGED <<version, objects, saved, wipe, doomed>> /\ Forget({o})
  BY DEF Leave, script
<1>3. pc'[o] = "idle" /\ due'[o] = NoObject
  BY <1>2, Forgotten
<1>4. \A v \in Owner : v # o =>
         /\ pc'[v] = pc[v] /\ of'[v] = of[v] /\ key'[v] = key[v] /\ content'[v] = content[v]
         /\ due'[v] = due[v] /\ sized'[v] = sized[v] /\ got'[v] = got[v]
  BY <1>2, Forgotten
<1>5. PostsFirst' /\ SendsLater' /\ UploadIsThere'
  BY <1>2, <1>3, <1>4 DEF PostsFirst, SendsLater, UploadIsThere
<1>6. ReadsFinal' /\ SnapshotRead'
  BY <1>2, <1>3, <1>4 DEF ReadsFinal, SnapshotRead
<1>7. WipedAlone' /\ SavedIsServed'
  BY <1>2 DEF WipedAlone, SavedIsServed
<1>8. QED BY <1>1, <1>5, <1>6, <1>7

LEMMA LoadSave ==
  ASSUME SaveInv, wipe = "off", NEW o \in Owner, NEW w \in Owner,
         PrepareGet(o, w) \/ TakeSize(o) \/ Download(o)
  PROVE  SaveInv'
<1> USE DEF SaveInv
<1>1. SaveType'
  BY LoadType
<1>2. UNCHANGED <<version, objects, content, saved, wipe, doomed>>
  BY DEF PrepareGet, TakeSize, Download, script
<1>3. pc'[o] \in {"sizing", "downloading", "got"}
  BY DEF SaveType, PrepareGet, TakeSize, Download, Goto
<1>4. \A v \in Owner : v # o =>
         /\ pc'[v] = pc[v] /\ of'[v] = of[v] /\ key'[v] = key[v]
         /\ due'[v] = due[v] /\ sized'[v] = sized[v] /\ got'[v] = got[v]
  BY DEF SaveType, PrepareGet, TakeSize, Download, Goto
<1>5. PostsFirst' /\ SendsLater' /\ UploadIsThere'
  BY <1>2, <1>3, <1>4 DEF PostsFirst, SendsLater, UploadIsThere
<1>6. WipedAlone' /\ SavedIsServed'
  BY <1>2 DEF WipedAlone, SavedIsServed
<1>7. due'[o] # NoObject => /\ saved[of'[o]] # NoObject
                            /\ key'[o] <= version[of'[o]]
                            /\ objects[<<of'[o], key'[o]>>] = due'[o]
  <2>1. CASE PrepareGet(o, w)
    <3>1. of'[o] = w /\ due'[o] = saved[w]
      BY <2>1 DEF SaveType, PrepareGet
    <3>2. saved[w] # NoObject => version[w] # 0 /\ objects[<<w, version[w]>>] = saved[w]
      BY DEF PostsFirst, SavedIsServed
    <3>3. key'[o] = IF version[w] = 0 THEN 1 ELSE version[w]
      BY <2>1 DEF SaveType, PrepareGet
    <3>4. version[w] \in Nat
      BY VersionFacts DEF SaveType
    <3>5. QED BY <3>1, <3>2, <3>3, <3>4
  <2>2. CASE TakeSize(o) \/ Download(o)
    BY <2>2 DEF SaveType, TakeSize, Download, ReadsFinal
  <2>3. QED BY <2>1, <2>2
<1>8. ReadsFinal'
  BY <1>2, <1>3, <1>4, <1>7 DEF ReadsFinal
<1>9. due'[o] # NoObject => /\ pc'[o] \in {"downloading", "got"} => sized'[o] = due'[o]
                            /\ pc'[o] = "got" => got'[o] = due'[o]
  <2>1. CASE PrepareGet(o, w)
    BY <2>1 DEF SaveType, PrepareGet, Goto
  <2>2. CASE TakeSize(o)
    BY <2>2 DEF SaveType, TakeSize, Goto, ReadsFinal
  <2>3. CASE Download(o)
    BY <2>3 DEF SaveType, Download, Goto, ReadsFinal, SnapshotRead
  <2>4. QED BY <2>1, <2>2, <2>3
<1>10. SnapshotRead'
  BY <1>4, <1>9 DEF SnapshotRead
<1>11. QED BY <1>1, <1>5, <1>6, <1>8, <1>10

\* With the server stopped the scripts find nobody at work; and a clean-up
\* before the first update of a save changes nothing.
LEMMA ScriptSave ==
  ASSUME SaveInv, ~WipeOnline, Cleanup # "any", Script
  PROVE  SaveInv'
<1> USE DEF SaveInv
<1>1. SaveType'
  BY ScriptType
<1>2. CASE WipeRows
  <2>1. /\ UNCHANGED <<objects, doomed>> /\ Forget(Owner) /\ doomed = {}
        /\ version' = [o \in Owner |-> 0] /\ saved' = [o \in Owner |-> NoObject]
    BY <1>2 DEF WipeRows
  <2>2. \A v \in Owner : pc'[v] = "idle" /\ due'[v] = NoObject /\ version'[v] = 0
                        /\ saved'[v] = NoObject
    BY <2>1, Forgotten
  <2>3. PostsFirst' /\ SendsLater' /\ UploadIsThere' /\ ReadsFinal'
    BY <2>2 DEF PostsFirst, SendsLater, UploadIsThere, ReadsFinal
  <2>4. WipedAlone' /\ SavedIsServed' /\ SnapshotRead'
    BY <2>1, <2>2 DEF WipedAlone, SavedIsServed, SnapshotRead
  <2>5. QED BY <1>1, <2>3, <2>4
<1>3. CASE WipeList
  BY <1>1, <1>3 DEF WipeList, console, download, PostsFirst, SendsLater, UploadIsThere,
                    ReadsFinal, WipedAlone, SavedIsServed, SnapshotRead
<1>4. ASSUME NEW f \in File, WipeFile(f) PROVE SaveInv'
  <2>1. UNCHANGED <<version, pc, key, content, of, sized, got, due, saved, wipe>>
        /\ doomed' \subseteq doomed /\ f \in doomed
    BY <1>4 DEF WipeFile, console, download
  <2>2. \A v \in Owner : pc[v] = "idle" /\ version[v] = 0 /\ saved[v] = NoObject
    BY <2>1 DEF WipedAlone, PostsFirst
  <2>3. \A v \in Owner : due[v] = NoObject
    BY <2>2 DEF ReadsFinal
  <2>4. PostsFirst' /\ SendsLater' /\ UploadIsThere' /\ ReadsFinal'
    BY <2>1, <2>2, <2>3 DEF PostsFirst, SendsLater, UploadIsThere, ReadsFinal
  <2>5. WipedAlone' /\ SavedIsServed' /\ SnapshotRead'
    BY <2>1, <2>2, <2>3 DEF WipedAlone, SavedIsServed, SnapshotRead
  <2>6. QED BY <1>1, <2>4, <2>5
<1>5. CASE WipeEnd
  BY <1>1, <1>5 DEF WipeEnd, console, download, PostsFirst, SendsLater, UploadIsThere,
                    ReadsFinal, WipedAlone, SavedIsServed, SnapshotRead
<1>6. CASE CleanupSaves
  <2>1. \A o \in Owner : version[o] <= 1
    BY <1>6, SaveAssumption DEF CleanupSaves
  <2>2. \A o \in Owner : (IF version[o] = 0 THEN 0 ELSE 1) = version[o]
    <3>1. \A n \in Nat : n <= 1 => (IF n = 0 THEN 0 ELSE 1) = n
      OBVIOUS
    <3>2. version \in [Owner -> 0..MaxVersion]
      BY DEF SaveType
    <3>3. \A o \in Owner : version[o] \in Nat
      BY <3>2
    <3>4. QED BY <2>1, <3>1, <3>3
  <2>3. version' = version
    BY <1>6, <2>2 DEF CleanupSaves, SaveType
  <2>4. QED
    BY <1>1, <1>6, <2>3
       DEF CleanupSaves, console, download, script, PostsFirst, SendsLater, UploadIsThere,
           ReadsFinal, WipedAlone, SavedIsServed, SnapshotRead
<1>7. QED BY <1>2, <1>3, <1>4, <1>5, <1>6 DEF Script

LEMMA SaveNext ==
  ASSUME SaveInv, ~WipeOnline, Cleanup # "any", [Next]_vars
  PROVE  SaveInv'
<1>1. ASSUME NEW o \in Owner, Up, Save(o) \/ PreparePostLate(o) \/ Load(o) \/ Leave(o)
      PROVE  SaveInv'
  <2>1. wipe = "off"
    BY <1>1 DEF Up
  <2>2. QED
    BY <1>1, <2>1, PostSave, LateSave, PrepareUpdateSave, UploadSave, CompleteSave, LeaveSave, LoadSave
       DEF Save, Load
<1>2. CASE Script
  BY <1>2, ScriptSave
<1>3. CASE UNCHANGED vars
  <2>1. SaveType'
    BY TypeNext DEF SaveInv
  <2>2. QED
    BY <1>3, <2>1
       DEF vars, console, download, script, SaveInv, PostsFirst, SendsLater, UploadIsThere,
           ReadsFinal, WipedAlone, SavedIsServed, SnapshotRead
<1>4. QED BY <1>1, <1>2, <1>3 DEF Next

\* With the wipe run only while the server is stopped, and no clean-up after a
\* save was updated, the object that the row of a player names is the last save
\* that was completed (PrepareUpdateObject, CompleteUpdateObject, do_POST), and a
\* console that loads a save gets the one that was complete when
\* PrepareGetObject read the row.
THEOREM SavesCorrect ==
  ASSUME ~WipeOnline, Cleanup # "any"
  PROVE  Spec => [](SavedIsServed /\ SnapshotRead)
<1>1. SaveInv /\ [Next]_vars => SaveInv'
  BY SaveNext
<1>2. SaveInv => SavedIsServed /\ SnapshotRead
  BY DEF SaveInv
<1>3. QED BY SaveInit, <1>1, <1>2, PTL DEF Spec

-----------------------------------------------------------------------------
(* The saves are registers *)

\* In a state that satisfies SaveInv what is served is the history of completed
\* saves, and what a load was told and given is what it opened with.
LEMMA Mapped ==
  ASSUME SaveInv
  PROVE  /\ served = saved
         /\ told \in [Owner -> MaybeContent] /\ given \in [Owner -> MaybeContent]
         /\ \A o \in Owner :
              /\ told[o] = IF pc[o] \in {"downloading", "got"} THEN due[o] ELSE NoObject
              /\ given[o] = IF pc[o] = "got" THEN due[o] ELSE NoObject
<1>1. /\ saved \in [Owner -> MaybeContent] /\ due \in [Owner -> MaybeContent]
      /\ NoObject \in MaybeContent
  BY DEF SaveInv, SaveType, MaybeContent
<1>2. \A o \in Owner : served[o] = saved[o]
  BY DEF SaveInv, SavedIsServed, served
<1>3. served = saved
  BY <1>1, <1>2 DEF served
<1>4. \A o \in Owner : /\ told[o] = IF pc[o] \in {"downloading", "got"} THEN due[o] ELSE NoObject
                       /\ given[o] = IF pc[o] = "got" THEN due[o] ELSE NoObject
  BY DEF SaveInv, SnapshotRead, told, given
<1>5. told \in [Owner -> MaybeContent] /\ given \in [Owner -> MaybeContent]
  BY <1>1, <1>4 DEF told, given
<1>6. QED BY <1>3, <1>4, <1>5

LEMMA MappedNext ==
  ASSUME SaveInv'
  PROVE  /\ served' = saved'
         /\ told' \in [Owner -> MaybeContent] /\ given' \in [Owner -> MaybeContent]
         /\ \A o \in Owner :
              /\ told'[o] = IF pc'[o] \in {"downloading", "got"} THEN due'[o] ELSE NoObject
              /\ given'[o] = IF pc'[o] = "got" THEN due'[o] ELSE NoObject
<1>1. /\ saved' \in [Owner -> MaybeContent] /\ due' \in [Owner -> MaybeContent]
      /\ NoObject \in MaybeContent
  BY DEF SaveInv, SaveType, MaybeContent
<1>2. \A o \in Owner : served'[o] = saved'[o]
  BY DEF SaveInv, SavedIsServed, served
<1>3. served' = saved'
  BY <1>1, <1>2 DEF served
<1>4. \A o \in Owner : /\ told'[o] = IF pc'[o] \in {"downloading", "got"} THEN due'[o] ELSE NoObject
                       /\ given'[o] = IF pc'[o] = "got" THEN due'[o] ELSE NoObject
  BY DEF SaveInv, SnapshotRead, told, given
<1>5. told' \in [Owner -> MaybeContent] /\ given' \in [Owner -> MaybeContent]
  BY <1>1, <1>4 DEF told, given
<1>6. QED BY <1>3, <1>4, <1>5

LEMMA InitRegister == Init => Register!Init
<1> SUFFICES ASSUME Init PROVE Register!Init
  OBVIOUS
<1>1. served = Register!Nothing /\ due = Register!Nothing /\ saved = Register!Nothing
  BY DEF Init, served, Register!Nothing
<1>2. told = Register!Nothing /\ given = Register!Nothing
  BY DEF Init, told, given, Register!Nothing
<1>3. QED BY <1>1, <1>2 DEF Register!Init

LEMMA GotoPc ==
  ASSUME SaveType, NEW o \in Owner, NEW from, NEW to, Goto(o, from, to)
  PROVE  pc[o] = from /\ pc'[o] = to /\ \A v \in Owner : v # o => pc'[v] = pc[v]
BY DEF SaveType, Goto

\* Steps that leave completed saves, loads and their places alone are stutters.
LEMMA RegisterStutter ==
  ASSUME SaveInv, SaveInv', saved' = saved, due' = due,
         \A o \in Owner : \/ pc'[o] = pc[o]
                          \/ /\ pc[o] \notin {"downloading", "got"}
                             /\ pc'[o] \notin {"downloading", "got"}
  PROVE  UNCHANGED Register!vars
<1>1. told' = told /\ given' = given
  BY Mapped, MappedNext
<1>2. served' = served
  BY Mapped, MappedNext
<1>3. QED BY <1>1, <1>2 DEF Register!vars

\* A console that forgets: whatever load it had is closed.
LEMMA RegisterForget ==
  ASSUME SaveInv, SaveInv', NEW o \in Owner, Forget({o})
  PROVE  /\ due' = [due EXCEPT ![o] = NoObject]
         /\ told' = [told EXCEPT ![o] = NoObject]
         /\ given' = [given EXCEPT ![o] = NoObject]
<1>1. due \in [Owner -> MaybeContent] /\ pc \in [Owner -> PcStep]
  BY DEF SaveInv, SaveType
<1>2. /\ \A v \in Owner : due'[v] = (IF v = o THEN NoObject ELSE due[v])
      /\ due' = [v \in Owner |-> IF v \in {o} THEN NoObject ELSE due[v]]
      /\ \A v \in Owner : pc'[v] = (IF v = o THEN "idle" ELSE pc[v])
  BY DEF Forget
<1>3. due' = [due EXCEPT ![o] = NoObject]
  BY <1>1, <1>2
<1>4. \A v \in Owner : /\ told'[v] = (IF v = o THEN NoObject ELSE told[v])
                       /\ given'[v] = (IF v = o THEN NoObject ELSE given[v])
  BY <1>2, Mapped, MappedNext
<1>5. told' = [told EXCEPT ![o] = NoObject] /\ given' = [given EXCEPT ![o] = NoObject]
  BY <1>4, Mapped, MappedNext
<1>6. QED BY <1>3, <1>5

LEMMA RegisterNext ==
  ASSUME SaveInv, SaveInv', ~WipeOnline, Cleanup # "any", [Next]_vars
  PROVE  [Register!Next]_(Register!vars)
<1>1. served = saved /\ served' = saved'
  BY Mapped, MappedNext
<1>2. ASSUME NEW o \in Owner,
             GetPersistence(o) \/ PostMeta(o) \/ ChangeMeta(o) \/ PreparePostFound(o)
               \/ PreparePostMissing(o) \/ PreparePostInsert(o) \/ PrepareUpdate(o)
               \/ UploadStart(o) \/ UploadEnd(o)
      PROVE  UNCHANGED Register!vars
  <2>1. PICK from, to : /\ Goto(o, from, to)
                        /\ from \notin {"downloading", "got"} /\ to \notin {"downloading", "got"}
    BY <1>2 DEF GetPersistence, PostMeta, ChangeMeta, PreparePostFound, PreparePostMissing,
                PreparePostInsert, PrepareUpdate, UploadStart, UploadEnd
  <2>2. UNCHANGED <<saved, due>>
    BY <1>2 DEF GetPersistence, PostMeta, ChangeMeta, PreparePostFound, PreparePostMissing,
                PreparePostInsert, PrepareUpdate, UploadStart, UploadEnd, download
  <2>3. pc[o] = from /\ pc'[o] = to /\ \A v \in Owner : v # o => pc'[v] = pc[v]
    BY <2>1, GotoPc DEF SaveInv
  <2>4. QED BY <2>1, <2>2, <2>3, RegisterStutter
<1>3. ASSUME NEW o \in Owner, PreparePostLate(o) PROVE UNCHANGED Register!vars
  BY <1>3, RegisterStutter DEF PreparePostLate, console, download
<1>4. ASSUME NEW o \in Owner, Complete(o) PROVE [Register!Next]_(Register!vars)
  <2>1. content[o] \in Content /\ pc[o] = "uploaded"
    BY <1>4 DEF Complete, SaveInv, SendsLater
  <2>2. due[o] = NoObject /\ told[o] = NoObject /\ given[o] = NoObject
    BY <2>1, Mapped DEF SaveInv, ReadsFinal
  <2>3. UNCHANGED <<due, told, given>>
    <3>1. /\ due' = [due EXCEPT ![o] = NoObject]
          /\ told' = [told EXCEPT ![o] = NoObject]
          /\ given' = [given EXCEPT ![o] = NoObject]
      BY <1>4, RegisterForget DEF Complete
    <3>2. /\ due \in [Owner -> MaybeContent]
          /\ told \in [Owner -> MaybeContent] /\ given \in [Owner -> MaybeContent]
      BY Mapped DEF SaveInv, SaveType
    <3>3. QED BY <2>2, <3>1, <3>2
  <2>4. saved' = saved \/ saved' = [saved EXCEPT ![o] = content[o]]
    BY <1>4 DEF Complete
  <2>5. CASE saved' = saved
    BY <1>1, <2>3, <2>5 DEF Register!vars
  <2>6. CASE saved' = [saved EXCEPT ![o] = content[o]]
    <3>1. Register!Write(o, content[o])
      BY <1>1, <2>3, <2>6 DEF Register!Write
    <3>2. QED BY <2>1, <3>1 DEF Register!Next
  <2>7. QED BY <2>4, <2>5, <2>6
<1>5. ASSUME NEW o \in Owner, Leave(o) PROVE Register!Next
  <2>1. Forget({o}) /\ saved' = saved
    BY <1>5 DEF Leave
  <2>2. Register!Close(o)
    BY <1>1, <2>1, RegisterForget DEF Register!Close
  <2>3. QED BY <2>2 DEF Register!Next
<1>6. ASSUME NEW o \in Owner, NEW w \in Owner, PrepareGet(o, w) PROVE Register!Next
  <2>1. Goto(o, "known", "sizing") /\ saved' = saved /\ due' = [due EXCEPT ![o] = saved[w]]
    BY <1>6 DEF PrepareGet
  <2>2. pc[o] = "known" /\ pc'[o] = "sizing" /\ \A v \in Owner : v # o => pc'[v] = pc[v]
    BY <2>1, GotoPc DEF SaveInv
  <2>3. due[o] = NoObject
    BY <2>2 DEF SaveInv, ReadsFinal
  <2>4. due \in [Owner -> MaybeContent]
    BY DEF SaveInv, SaveType
  <2>5. \A v \in Owner : told'[v] = told[v] /\ given'[v] = given[v]
    BY <2>1, <2>2, <2>4, Mapped, MappedNext
  <2>6. told' = told /\ given' = given
    BY <2>5, Mapped, MappedNext
  <2>7. Register!Open(o, w)
    BY <1>1, <2>1, <2>3, <2>6 DEF Register!Open
  <2>8. QED BY <2>7 DEF Register!Next
<1>7. ASSUME NEW o \in Owner, TakeSize(o) PROVE Register!Next
  <2>1. Goto(o, "sizing", "downloading") /\ saved' = saved /\ due' = due
    BY <1>7 DEF TakeSize
  <2>2. pc[o] = "sizing" /\ pc'[o] = "downloading" /\ \A v \in Owner : v # o => pc'[v] = pc[v]
    BY <2>1, GotoPc DEF SaveInv
  <2>3. /\ told'[o] = due[o] /\ \A v \in Owner : v # o => told'[v] = told[v]
        /\ \A v \in Owner : given'[v] = given[v]
    BY <2>1, <2>2, Mapped, MappedNext
  <2>4. told' = [told EXCEPT ![o] = due[o]] /\ given' = given
    BY <2>3, Mapped, MappedNext
  <2>5. Register!Tell(o)
    BY <1>1, <2>1, <2>4 DEF Register!Tell
  <2>6. QED BY <2>5 DEF Register!Next
<1>8. ASSUME NEW o \in Owner, Download(o) PROVE Register!Next
  <2>1. Goto(o, "downloading", "got") /\ saved' = saved /\ due' = due
    BY <1>8 DEF Download
  <2>2. pc[o] = "downloading" /\ pc'[o] = "got" /\ \A v \in Owner : v # o => pc'[v] = pc[v]
    BY <2>1, GotoPc DEF SaveInv
  <2>3. /\ told[o] = due[o] /\ given'[o] = due[o]
        /\ \A v \in Owner : v # o => given'[v] = given[v]
        /\ \A v \in Owner : told'[v] = told[v]
    BY <2>1, <2>2, Mapped, MappedNext
  <2>4. given' = [given EXCEPT ![o] = due[o]] /\ told' = told
    BY <2>3, Mapped, MappedNext
  <2>5. Register!Give(o)
    BY <1>1, <2>1, <2>3, <2>4 DEF Register!Give
  <2>6. QED BY <2>5 DEF Register!Next
<1>9. CASE WipeRows
  <2>1. /\ saved' = [o \in Owner |-> NoObject]
        /\ due' = [o \in Owner |-> NoObject]
        /\ \A o \in Owner : pc'[o] = "idle"
    BY <1>9 DEF WipeRows, Forget
  <2>2. told' = Register!Nothing /\ given' = Register!Nothing
    BY <2>1, MappedNext DEF Register!Nothing
  <2>3. Register!Wipe
    BY <1>1, <2>1, <2>2 DEF Register!Wipe, Register!Nothing
  <2>4. QED BY <2>3 DEF Register!Next
<1>10. CASE WipeList \/ (\E f \in File : WipeFile(f)) \/ WipeEnd \/ CleanupSaves \/ UNCHANGED vars
  <2>1. UNCHANGED <<saved, due, pc>>
    BY <1>10 DEF WipeList, WipeFile, WipeEnd, CleanupSaves, vars, console, download
  <2>2. QED BY <2>1, RegisterStutter
<1>11. QED
  BY <1>2, <1>3, <1>4, <1>5, <1>6, <1>7, <1>8, <1>9, <1>10 DEF Next, Save, Load, Script

\* Under the same conditions the store implements SaveRegister: only a completing
\* call and the wipe change what is served, each at once, and the size and the
\* file of a load are those of the save that was complete when it began.
THEOREM ImplementsRegister ==
  ASSUME ~WipeOnline, Cleanup # "any"
  PROVE  Spec => RegisterSpec
<1>1. SaveInv /\ [Next]_vars => SaveInv' /\ [Register!Next]_(Register!vars)
  BY SaveNext, RegisterNext
<1>2. QED BY SaveInit, InitRegister, <1>1, PTL DEF Spec, RegisterSpec, Register!Spec

-----------------------------------------------------------------------------
(* The meta binary *)

\* What is on file for a player is what it posted, or what PreparePostObject
\* left; a player without a row, or about to insert one, has posted nothing.
MetaInv ==
  /\ MetaKept
  /\ \A o \in Owner : pc[o] = "inserting" \/ version[o] = 0 => posted[o] = NoMeta

\* Steps that leave the meta binaries alone keep MetaInv, if no row goes and no
\* console comes to insert one that is there.
LEMMA MetaInvKept ==
  ASSUME MetaInv, UNCHANGED <<meta, posted, emptied>>,
         \A o \in Owner : /\ version'[o] = 0 => version[o] = 0
                          /\ pc'[o] = "inserting" => pc[o] = "inserting" \/ version[o] = 0
  PROVE  MetaInv'
BY DEF MetaInv, MetaKept

\* Posting, when the row is there afterwards.
LEMMA StoredKeeps ==
  ASSUME MetaType, MetaInv, NEW o \in Owner, NEW m \in Meta, MetaStored(o, m),
         version'[o] # 0, pc'[o] # "inserting",
         \A v \in Owner : v # o => version'[v] = version[v] /\ pc'[v] = pc[v]
  PROVE  MetaInv'
<1>1. /\ meta'[o] = m /\ posted'[o] = m /\ o \notin emptied'
      /\ \A v \in Owner : v # o => /\ meta'[v] = meta[v] /\ posted'[v] = posted[v]
                                   /\ v \in emptied' <=> v \in emptied
  BY DEF MetaType, MetaStored
<1>2. MetaKept'
  BY <1>1 DEF MetaInv, MetaKept
<1>3. QED BY <1>1, <1>2 DEF MetaInv

\* Emptying, by a PreparePostObject in time or late, when what was posted is
\* marked as emptied.
LEMMA EmptiedKeeps ==
  ASSUME MetaType, MetaInv, NEW o \in Owner, MetaEmptied(o), posted' = posted,
         posted[o] # NoMeta => o \in emptied',
         \A v \in Owner : v # o => (v \in emptied' <=> v \in emptied),
         \A v \in Owner : /\ version'[v] = 0 => version[v] = 0
                          /\ pc'[v] = "inserting" => pc[v] = "inserting"
  PROVE  MetaInv'
<1>1. meta'[o] = Empty /\ \A v \in Owner : v # o => meta'[v] = meta[v]
  BY DEF MetaType, MetaEmptied
<1>2. MetaKept'
  BY <1>1 DEF MetaInv, MetaKept
<1>3. QED BY <1>2 DEF MetaInv

LEMMA RowEnsuredFacts ==
  ASSUME SaveType, NEW o \in Owner, version' = RowEnsured(o)
  PROVE  version'[o] # 0 /\ \A v \in Owner : v # o => version'[v] = version[v]
<1>1. version \in [Owner -> 0..MaxVersion]
  BY DEF SaveType
<1>2. version' = [version EXCEPT ![o] = IF @ = 0 THEN 1 ELSE @]
  BY DEF RowEnsured
<1>3. QED BY <1>1, <1>2

LEMMA MetaInvNext ==
  ASSUME SaveType, MetaType, MetaInv, [Next]_vars
  PROVE  MetaInv'
<1>1. ASSUME NEW o \in Owner, PostMeta(o) \/ ChangeMeta(o) PROVE MetaInv'
  <2>1. PICK m \in Meta : MetaStored(o, m)
    BY <1>1 DEF PostMeta, ChangeMeta
  <2>2. Goto(o, "new", "new") \/ Goto(o, "known", "known")
    BY <1>1 DEF PostMeta, ChangeMeta
  <2>3. pc'[o] # "inserting" /\ \A v \in Owner : v # o => pc'[v] = pc[v]
    BY <2>2, GotoPc
  <2>4. version'[o] # 0 /\ \A v \in Owner : v # o => version'[v] = version[v]
    BY <1>1, RowEnsuredFacts DEF PostMeta, ChangeMeta
  <2>5. QED BY <2>1, <2>3, <2>4, StoredKeeps
<1>2. ASSUME NEW o \in Owner, PreparePostInsert(o) PROVE MetaInv'
  <2>1. /\ Goto(o, "inserting", "sending") /\ version' = RowEnsured(o) /\ MetaEmptied(o)
        /\ UNCHANGED <<posted, emptied>>
    BY <1>2 DEF PreparePostInsert
  <2>2. /\ pc[o] = "inserting" /\ pc'[o] = "sending"
        /\ \A v \in Owner : v # o => pc'[v] = pc[v]
    BY <2>1, GotoPc
  <2>3. version'[o] # 0 /\ \A v \in Owner : v # o => version'[v] = version[v]
    BY <2>1, RowEnsuredFacts
  <2>4. posted[o] = NoMeta
    BY <2>2 DEF MetaInv
  <2>5. QED BY <2>1, <2>2, <2>3, <2>4, EmptiedKeeps
<1>3. ASSUME NEW o \in Owner, PreparePostLate(o) PROVE MetaInv'
  <2>1. /\ version' = RowEnsured(o) /\ MetaEmptied(o) /\ UNCHANGED <<pc, posted>>
        /\ emptied' = IF posted[o] = NoMeta THEN emptied ELSE emptied \cup {o}
    BY <1>3 DEF PreparePostLate, console
  <2>2. version'[o] # 0 /\ \A v \in Owner : v # o => version'[v] = version[v]
    BY <2>1, RowEnsuredFacts
  <2>3. QED BY <2>1, <2>2, EmptiedKeeps
<1>4. ASSUME NEW o \in Owner,
             GetPersistence(o) \/ PreparePostFound(o) \/ PreparePostMissing(o)
               \/ PrepareUpdate(o) \/ UploadStart(o) \/ UploadEnd(o) \/ Load(o)
      PROVE  MetaInv'
  <2>1. UNCHANGED <<version, meta, posted, emptied>>
    BY <1>4 DEF GetPersistence, PreparePostFound, PreparePostMissing, PrepareUpdate, UploadStart,
                UploadEnd, Load, PrepareGet, TakeSize, Download, metas
  <2>2. PICK from, to : /\ Goto(o, from, to)
                        /\ to = "inserting" => version[o] = 0
    BY <1>4 DEF GetPersistence, PreparePostFound, PreparePostMissing, PrepareUpdate, UploadStart,
                UploadEnd, Load, PrepareGet, TakeSize, Download
  <2>3. QED BY <2>1, <2>2, GotoPc, MetaInvKept
<1>5. ASSUME NEW o \in Owner, Complete(o) \/ Leave(o) PROVE MetaInv'
  <2>1. /\ Forget({o}) /\ UNCHANGED <<meta, posted, emptied>>
        /\ \/ version' = version
           \/ version[o] # 0 /\ version' = [version EXCEPT ![o] = key[o]]
    BY <1>5 DEF Complete, Leave, metas
  <2>2. \A v \in Owner : pc'[v] = pc[v] \/ pc'[v] = "idle"
    BY <2>1 DEF Forget
  <2>3. key[o] \in Version
    BY DEF SaveType
  <2>4. key[o] # 0
    BY <2>3 DEF Version
  <2>5. \A v \in Owner : version'[v] = 0 => version[v] = 0
    BY <2>1, <2>4 DEF SaveType
  <2>6. QED BY <2>1, <2>2, <2>5, MetaInvKept
<1>6. CASE WipeRows
  BY <1>6 DEF WipeRows, MetaInv, MetaKept
<1>7. CASE WipeList \/ (\E f \in File : WipeFile(f)) \/ WipeEnd
  BY <1>7, MetaInvKept DEF WipeList, WipeFile, WipeEnd, metas, console
<1>8. CASE CleanupSaves
  <2>1. /\ UNCHANGED <<meta, posted, emptied, pc>>
        /\ \A o \in Owner : version'[o] = 0 => version[o] = 0
    BY <1>8 DEF CleanupSaves, metas, console
  <2>2. QED BY <2>1, MetaInvKept
<1>9. CASE UNCHANGED vars
  BY <1>9, MetaInvKept DEF vars, metas, console
<1>10. QED
  BY <1>1, <1>2, <1>3, <1>4, <1>5, <1>6, <1>7, <1>8, <1>9 DEF Next, Save, Script

\* Whatever the scripts do and handlers that go on without their console, the
\* meta binary a player posted last (PostMetaBinary, ChangeMeta) is on file,
\* until such a PreparePostObject empties it.
THEOREM MetaCorrect == Spec => []MetaKept
<1> DEFINE Inv == SaveType /\ MetaType /\ MetaInv
<1>1. Init => Inv
  <2>1. Init => MetaType /\ MetaInv
    BY DEF Init, MetaType, MetaInv, MetaKept
  <2>2. QED BY <2>1, TypeInit
<1>2. Inv /\ [Next]_vars => Inv'
  BY TypeNext, MetaNext, MetaInvNext
<1>3. Inv => MetaKept
  BY DEF MetaInv
<1>4. QED BY <1>1, <1>2, <1>3, PTL DEF Spec
=============================================================================
