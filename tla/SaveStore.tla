------------------------------- MODULE SaveStore -------------------------------
(***************************************************************************)
(* The save games of the DataStore protocol: the handlers of               *)
(* protocols/secure.py, the user_play_info rows they keep (db.py), the     *)
(* objects a console uploads to the file server (s3_store.py), and the two *)
(* maintenance scripts that work on both (wipe_saves.py,                   *)
(* cleanup_saves.py).                                                      *)
(*                                                                         *)
(* One console per player.  A console calls one method at a time; a save   *)
(* takes two calls with an HTTP upload between them, any of which may be   *)
(* its last, because the console gives up or the server stops.  A step of  *)
(* a handler between two awaits is an action.  A principal id has 32 bits  *)
(* on the wire, so the data id (owner_id & 0xFFFFFFFF) is the owner; the   *)
(* slot is always 0.  A handler goes on when the connection it answers is   *)
(* lost; of those, only PreparePostObject has a write still to come.       *)
(***************************************************************************)
EXTENDS Naturals

CONSTANTS Owner,        \* principal ids of the players
          Content,      \* what a save can contain
          NoObject,     \* there is no file (of a save: none was completed)
          Partial,      \* a file opened for writing and not written out
          Meta,         \* the meta binaries a console posts
          Empty,        \* the one PreparePostObject inserts
          NoMeta,       \* there is no free_play_data row
          Outliving,    \* bound: players whose connection may be lost while
                        \* PreparePostObject waits for its insertion
          MaxVersion,   \* bound: versions of one save
          WipeOnline,   \* TRUE: wipe_saves.py runs beside the server
          Cleanup       \* when cleanup_saves.py may run: "never", "posted"
                        \* (while no save was updated yet), or "any" time

ASSUME SaveAssumption == /\ MaxVersion \in Nat \ {0}
                         /\ NoObject \notin Content /\ Partial \notin Content
                         /\ NoObject # Partial
                         /\ Empty \notin Meta /\ NoMeta \notin Meta \cup {Empty}
                         /\ Outliving \subseteq Owner
                         /\ WipeOnline \in BOOLEAN
                         /\ Cleanup \in {"never", "posted", "any"}

VARIABLES version,  \* user_play_info.version of an owner, 0 without a row
          objects,  \* the files of the file server, by owner and version
          pc,       \* the step each console is at
          of,       \* whose save it works on
          key,      \* the version in the object key it was given
          content,  \* what it uploads
          sized,    \* the file whose size PrepareGetObject told it
          got,      \* what it downloaded
          due,      \* the save completed when PrepareGetObject read the row
          saved,    \* by owner: content of the last save completed
          meta,     \* free_play_data.meta_binary of an owner
          posted,   \* history: the last one it posted
          late,     \* whose PreparePostObject goes on without its console
          emptied,  \* history: since a post, such a call ended
          wipe,     \* the step wipe_saves.py is at
          doomed    \* the files its listdir found and it has not removed

download == <<of, sized, got, due>>
console == <<pc, key, content, download>>
script == <<wipe, doomed>>
metas == <<meta, posted, late, emptied>>
vars == <<version, objects, console, saved, metas, script>>

Version == 1..MaxVersion
File == Owner \X Version

Init ==
  /\ version = [o \in Owner |-> 0]
  /\ objects = [f \in File |-> NoObject]
  /\ pc = [o \in Owner |-> "idle"]
  /\ of = [o \in Owner |-> o]
  /\ key = [o \in Owner |-> 1]
  /\ content = [o \in Owner |-> NoObject]
  /\ sized = [o \in Owner |-> NoObject]
  /\ got = [o \in Owner |-> NoObject]
  /\ due = [o \in Owner |-> NoObject]
  /\ saved = [o \in Owner |-> NoObject]
  /\ meta = [o \in Owner |-> NoMeta]
  /\ posted = [o \in Owner |-> NoMeta]
  /\ late = {} /\ emptied = {}
  /\ wipe = "off" /\ doomed = {}

Goto(o, from, to) == pc[o] = from /\ pc' = [pc EXCEPT ![o] = to]

\* A console at the end of a save or a load keeps nothing of it.
Forget(O) ==
  /\ pc' = [o \in Owner |-> IF o \in O THEN "idle" ELSE pc[o]]
  /\ of' = [o \in Owner |-> IF o \in O THEN o ELSE of[o]]
  /\ key' = [o \in Owner |-> IF o \in O THEN 1 ELSE key[o]]
  /\ content' = [o \in Owner |-> IF o \in O THEN NoObject ELSE content[o]]
  /\ sized' = [o \in Owner |-> IF o \in O THEN NoObject ELSE sized[o]]
  /\ got' = [o \in Owner |-> IF o \in O THEN NoObject ELSE got[o]]
  /\ due' = [o \in Owner |-> IF o \in O THEN NoObject ELSE due[o]]

\* The server is up: it is stopped for wipe_saves.py, unless WipeOnline.
Up == WipeOnline \/ wipe = "off"

\* The file server handles one request at a time.
FileServerFree == \A o \in Owner : pc[o] # "uploading"

-----------------------------------------------------------------------------
(* Saving *)

\* GetPersistenceInfo: has the player a row?  A console without one posts.
GetPersistence(o) ==
  /\ Goto(o, "idle", IF version[o] = 0 THEN "new" ELSE "known")
  /\ UNCHANGED <<version, objects, key, content, download, saved, metas, script>>

\* save_free_play_data: a missing row is inserted, with version 1.
RowEnsured(o) == [version EXCEPT ![o] = IF @ = 0 THEN 1 ELSE @]

\* The meta binary of o is stored.
MetaStored(o, m) ==
  /\ meta' = [meta EXCEPT ![o] = m]
  /\ posted' = [posted EXCEPT ![o] = m]
  /\ emptied' = emptied \ {o}
  /\ UNCHANGED late

\* PostMetaBinary: save_free_play_data inserts or updates.
PostMeta(o) ==
  /\ Goto(o, "new", "new")
  /\ version' = RowEnsured(o)
  /\ \E m \in Meta : MetaStored(o, m)
  /\ UNCHANGED <<objects, key, content, download, saved, script>>

\* Mutant of ChangeMeta: the row is not updated.
ChangeMetaLost(o) ==
  /\ Goto(o, "known", "known")
  /\ \E m \in Meta : posted' = IF version[o] = 0 THEN posted ELSE [posted EXCEPT ![o] = m]
  /\ UNCHANGED <<version, objects, key, content, download, saved, meta, late, emptied, script>>

\* ChangeMeta of the console's own save; no row, no update.
ChangeMeta(o) ==
  /\ Goto(o, "known", "known")
  /\ version[o] # 0
  /\ \E m \in Meta : MetaStored(o, m)
  /\ UNCHANGED <<version, objects, key, content, download, saved, script>>

\* PreparePostObject hands out the key of version 1; a console that has a
\* content to save uploads it there.
PostKeyGiven(o) ==
  /\ key' = [key EXCEPT ![o] = 1]
  /\ \E c \in Content : content' = [content EXCEPT ![o] = c]

\* PreparePostObject, its first await: the row is there.
PreparePostFound(o) ==
  /\ version[o] # 0
  /\ Goto(o, "new", "sending")
  /\ PostKeyGiven(o)
  /\ UNCHANGED <<version, objects, download, saved, metas, script>>

\* PreparePostObject, its first await: there is no row.
PreparePostMissing(o) ==
  /\ version[o] = 0
  /\ Goto(o, "new", "inserting")
  /\ UNCHANGED <<version, objects, key, content, download, saved, metas, script>>

\* save_free_play_data with b"": an inserted row and an updated one get it.
MetaEmptied(o) == meta' = [meta EXCEPT ![o] = Empty]

\* PreparePostObject, its second await.
PreparePostInsert(o) ==
  /\ Goto(o, "inserting", "sending")
  /\ version' = RowEnsured(o)
  /\ MetaEmptied(o)
  /\ PostKeyGiven(o)
  /\ UNCHANGED <<objects, download, saved, posted, late, emptied, script>>

\* Its second await, when the connection was lost: nobody gets the key.  The
\* player may be back, and have posted meanwhile.
PreparePostLate(o) ==
  /\ o \in late
  /\ version' = RowEnsured(o)
  /\ MetaEmptied(o)
  /\ late' = late \ {o}
  /\ emptied' = IF posted[o] = NoMeta THEN emptied ELSE emptied \cup {o}
  /\ UNCHANGED <<objects, console, saved, posted, script>>

\* Mutant of PrepareUpdate: the key of the version in use.
PrepareUpdateInPlace(o) ==
  /\ Goto(o, "known", "sending")
  /\ key' = [key EXCEPT ![o] = version[o]]
  /\ \E c \in Content : content' = [content EXCEPT ![o] = c]
  /\ UNCHANGED <<version, objects, download, saved, metas, script>>

\* PrepareUpdateObject hands out the key of the next version, and reserves
\* nothing.
PrepareUpdate(o) ==
  /\ version[o] < MaxVersion
  /\ Goto(o, "known", "sending")
  /\ key' = [key EXCEPT ![o] = version[o] + 1]
  /\ \E c \in Content : content' = [content EXCEPT ![o] = c]
  /\ UNCHANGED <<version, objects, download, saved, metas, script>>

\* do_POST opens the file of the key for writing, which empties it.
UploadStart(o) ==
  /\ FileServerFree
  /\ Goto(o, "sending", "uploading")
  /\ objects' = [objects EXCEPT ![<<o, key[o]>>] = Partial]
  /\ UNCHANGED <<version, key, content, download, saved, metas, script>>

UploadEnd(o) ==
  /\ Goto(o, "uploading", "uploaded")
  /\ objects' = [objects EXCEPT ![<<o, key[o]>>] = content[o]]
  /\ UNCHANGED <<version, key, content, download, saved, metas, script>>

\* Mutant of Complete: a console may report success before the upload ends.
CompleteEarly(o) ==
  /\ pc[o] \in {"sending", "uploaded"}
  /\ Forget({o})
  /\ version' = [version EXCEPT ![o] = key[o]]
  /\ saved' = [saved EXCEPT ![o] = content[o]]
  /\ UNCHANGED <<objects, metas, script>>

\* CompletePostObject and CompleteUpdateObject with is_success: the row gets
\* version 1, or the one the console was told; no row, no update.
Complete(o) ==
  /\ pc[o] = "uploaded"
  /\ Forget({o})
  /\ IF version[o] = 0
       THEN UNCHANGED <<version, saved>>
       ELSE /\ version' = [version EXCEPT ![o] = key[o]]
            /\ saved' = [saved EXCEPT ![o] = content[o]]
  /\ UNCHANGED <<objects, metas, script>>

-----------------------------------------------------------------------------
(* Loading *)

\* Mutant of PrepareGet: the version as it is in the row, or 0.
PrepareGetRaw(o, w) ==
  /\ Goto(o, "known", "sizing")
  /\ of' = [of EXCEPT ![o] = w]
  /\ key' = [key EXCEPT ![o] = version[w]]
  /\ due' = [due EXCEPT ![o] = saved[w]]
  /\ UNCHANGED <<version, objects, content, sized, got, saved, metas, script>>

\* PrepareGetObject reads the version of anyone's save; 0 becomes 1.
PrepareGet(o, w) ==
  /\ Goto(o, "known", "sizing")
  /\ of' = [of EXCEPT ![o] = w]
  /\ key' = [key EXCEPT ![o] = IF version[w] = 0 THEN 1 ELSE version[w]]
  /\ due' = [due EXCEPT ![o] = saved[w]]
  /\ UNCHANGED <<version, objects, content, sized, got, saved, metas, script>>

\* ... and, after that await, takes the size of the file.
TakeSize(o) ==
  /\ Goto(o, "sizing", "downloading")
  /\ sized' = [sized EXCEPT ![o] = objects[<<of[o], key[o]>>]]
  /\ UNCHANGED <<version, objects, key, content, of, got, due, saved, metas, script>>

\* do_GET.
Download(o) ==
  /\ FileServerFree
  /\ Goto(o, "downloading", "got")
  /\ got' = [got EXCEPT ![o] = objects[<<of[o], key[o]>>]]
  /\ UNCHANGED <<version, objects, key, content, of, sized, due, saved, metas, script>>

\* The console is done with what it got; or gives up, or the connection or the
\* server is lost, at any step of it.  With the connection alone a handler is
\* not lost.  A completing call whose answer is lost is a Complete.
Leave(o) ==
  /\ pc[o] # "idle"
  /\ Forget({o})
  /\ \/ UNCHANGED late
     \/ o \in Outliving /\ pc[o] = "inserting" /\ late' = late \cup {o}
  /\ UNCHANGED <<version, objects, saved, meta, posted, emptied, script>>

-----------------------------------------------------------------------------
(* The maintenance scripts *)

\* wipe_saves.py deletes the rows.  Once: a bound.
WipeRows ==
  /\ wipe = "off" /\ doomed = {}
  /\ \E o \in Owner : version[o] # 0
  /\ wipe' = "rows gone"
  /\ version' = [o \in Owner |-> 0]
  /\ saved' = [o \in Owner |-> NoObject]
  /\ meta' = [o \in Owner |-> NoMeta]
  /\ posted' = [o \in Owner |-> NoMeta]
  /\ emptied' = {}
  /\ Forget(IF WipeOnline THEN {} ELSE Owner)
  /\ late' = IF WipeOnline THEN late ELSE {}
  /\ UNCHANGED <<objects, doomed>>

\* os.listdir.
WipeList ==
  /\ wipe = "rows gone"
  /\ wipe' = "sweeping"
  /\ doomed' = {f \in File : objects[f] # NoObject}
  /\ UNCHANGED <<version, objects, console, saved, metas>>

\* os.remove of the next file.
WipeFile(f) ==
  /\ f \in doomed
  /\ doomed' = doomed \ {f}
  /\ objects' = [objects EXCEPT ![f] = NoObject]
  /\ UNCHANGED <<version, console, saved, metas, wipe>>

WipeEnd ==
  /\ wipe = "sweeping" /\ doomed = {}
  /\ wipe' = "off"
  /\ UNCHANGED <<version, objects, console, saved, metas, doomed>>

\* cleanup_saves.py, one transaction: the only row of an owner is kept, and its
\* version becomes 1.
CleanupSaves ==
  /\ Cleanup # "never"
  /\ Cleanup = "posted" => \A o \in Owner : version[o] <= 1
  /\ version' = [o \in Owner |-> IF version[o] = 0 THEN 0 ELSE 1]
  /\ UNCHANGED <<objects, console, saved, metas, script>>

-----------------------------------------------------------------------------

Save(o) ==
  \/ GetPersistence(o) \/ PostMeta(o) \/ ChangeMeta(o)
  \/ PreparePostFound(o) \/ PreparePostMissing(o) \/ PreparePostInsert(o)
  \/ PrepareUpdate(o) \/ UploadStart(o) \/ UploadEnd(o) \/ Complete(o)

Load(o) == (\E w \in Owner : PrepareGet(o, w)) \/ TakeSize(o) \/ Download(o)

Script == WipeRows \/ WipeList \/ (\E f \in File : WipeFile(f)) \/ WipeEnd \/ CleanupSaves

Next ==
  \/ Up /\ \E o \in Owner : Save(o) \/ PreparePostLate(o) \/ Load(o) \/ Leave(o)
  \/ Script

Spec == Init /\ [][Next]_vars

-----------------------------------------------------------------------------
(* Properties *)

Object == Content \cup {NoObject, Partial}
MaybeContent == Content \cup {NoObject}
PcStep == {"idle", "new", "known", "inserting", "sending", "uploading", "uploaded",
           "sizing", "downloading", "got"}

SaveType ==
  /\ version \in [Owner -> 0..MaxVersion]
  /\ objects \in [File -> Object]
  /\ pc \in [Owner -> PcStep]
  /\ of \in [Owner -> Owner]
  /\ key \in [Owner -> Version]
  /\ content \in [Owner -> MaybeContent]
  /\ sized \in [Owner -> Object]
  /\ got \in [Owner -> Object]
  /\ due \in [Owner -> MaybeContent]
  /\ saved \in [Owner -> MaybeContent]
  /\ wipe \in {"off", "rows gone", "sweeping"}
  /\ doomed \subseteq File

MetaType ==
  /\ meta \in [Owner -> Meta \cup {Empty, NoMeta}]
  /\ posted \in [Owner -> Meta \cup {NoMeta}]
  /\ late \subseteq Owner /\ emptied \subseteq Owner

\* Type correctness of the rows, the files and the consoles.
TypeOK == SaveType /\ MetaType

\* Once a save is completed, the object at the current version is exactly that
\* save, until another one is completed: no upload that is going on, that broke
\* off, or that was never completed, takes its place.
SavedIsServed ==
  \A o \in Owner : saved[o] # NoObject => objects[<<o, version[o]>>] = saved[o]

\* A console that loads a save gets, and was told the size of, the save that
\* was complete when PrepareGetObject read the row, whatever its owner saves
\* between that await and the download.
SnapshotRead ==
  \A o \in Owner :
    due[o] # NoObject => /\ pc[o] \in {"downloading", "got"} => sized[o] = due[o]
                         /\ pc[o] = "got" => got[o] = due[o]

\* The meta binary a player posted last is the one on file, whatever it saves,
\* gives up and posts afterwards: PreparePostObject, which would insert an
\* empty one, finds the row.  Only one that goes on after its connection was
\* lost empties it, until it is posted once more.
MetaKept ==
  \A o \in Owner :
    posted[o] # NoMeta => meta[o] = (IF o \in emptied THEN Empty ELSE posted[o])

\* What a load of each player's save would be given now, if one was completed:
\* the file that the row names.
served == [o \in Owner |-> IF saved[o] = NoObject THEN NoObject
                                                  ELSE objects[<<o, version[o]>>]]

\* The loads, of saves that were complete, that were told a size or given a file.
told == [o \in Owner |-> IF due[o] # NoObject /\ pc[o] \in {"downloading", "got"}
                         THEN sized[o] ELSE NoObject]
given == [o \in Owner |-> IF due[o] # NoObject /\ pc[o] = "got"
                          THEN got[o] ELSE NoObject]

\* Rows, files, handlers and scripts together implement a register for each
\* player: what is served changes only when a save completes, at once, or when
\* all saves are wiped, and a load is of one value throughout.
Register == INSTANCE SaveRegister WITH value <- served, loading <- due
RegisterSpec == Register!Spec
=============================================================================
