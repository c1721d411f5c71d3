------------------------------- MODULE Storage -------------------------------
(***************************************************************************)
(* The two files the client keeps: IdentityStore of e2e.rs (save, remove   *)
(* and load_or_create) and SessionStorage::replace_json of messenger.rs.   *)
(* Both write a temporary file of a fixed name and rename it over the real *)
(* one; only the first syncs.  The file system is external: a name leads   *)
(* to an inode, an open file keeps its inode when the name moves, and a    *)
(* crash may leave any part of what was not synced.                        *)
(***************************************************************************)
EXTENDS Naturals

CONSTANTS
  Calls,   \* calls, each with a content of its own to write
  Hosts    \* the situations a store may be used in

ASSUME StorageAssumption ==
  /\ Calls \subseteq STRING /\ "none" \notin Calls /\ "old" \notin Calls
  /\ Hosts \subseteq [store : {"identity", "session"},
                      kinds : SUBSET {"save", "create", "remove"},
                      exclusive : BOOLEAN,     \* one call runs at a time
                      crashes : Nat]           \* at most so many crashes
  /\ \A h \in Hosts : h.store = "session" => h.kinds = {"save"}

VARIABLES
  host,      \* the situation; never changes
  kind,      \* what each call is
  held,      \* the identity load_or_create has returned
  pc,        \* where each call is
  fd,        \* the inode each call has open
  content,   \* what each inode holds: a first part and a second part
  durable,   \* what of it has been synced
  dir,       \* the names path and temporary: an inode or none
  durDir,    \* the directory as synced
  saved,     \* the content of the last call that returned Ok
  crashes

vars == <<host, kind, held, pc, fd, content, durable, dir, durDir, saved, crashes>>

\* An inode is named after the call that created it.
Inodes == Calls \union {"old"}
Parts == Inodes \union {"none"}
Contents == [first : Parts, second : Parts]
Empty == [first |-> "none", second |-> "none"]

\* IdentityStore syncs what it writes, SessionStorage does not.
Syncs == host.store = "identity"

\* The identity file's first part is a constant; the session file is one text.
Whole(c) ==
  /\ c.first # "none" /\ c.second # "none"
  /\ ~Syncs => c.first = c.second

Init ==
  /\ host \in Hosts
  /\ kind \in [Calls -> host.kinds]
  /\ held = [s \in Calls |-> "none"]
  /\ pc = [s \in Calls |-> "idle"]
  /\ fd = [s \in Calls |-> "none"]
  /\ content = [i \in Inodes |-> IF i = "old" THEN [first |-> i, second |-> i] ELSE Empty]
  /\ durable = content
  /\ dir \in [path : {"old", "none"}, temporary : {"none"}]
  /\ durDir = dir
  /\ saved = dir.path
  /\ crashes = 0

Running == {s \in Calls : pc[s] \notin {"idle", "ok", "error", "dead"}}

Goto(s, from, to) == pc[s] = from /\ pc' = [pc EXCEPT ![s] = to]

Start(s, k) ==
  /\ kind[s] = k
  /\ pc[s] = "idle"
  /\ host.exclusive => Running = {}

\* Mutant: load_or_create takes a file it cannot read for a missing one.
LoadNothing(s) ==
  /\ Start(s, "create")
  /\ pc' = [pc EXCEPT ![s] = "open"]
  /\ UNCHANGED <<host, kind, held, fd, content, durable, dir, durDir, saved, crashes>>

(***************************************************************************)
(* load_or_create: the identity of the file, an error when it is not       *)
(* whole; when there is none, a new identity goes on to save.              *)
(***************************************************************************)
Load(s) ==
  /\ Start(s, "create")
  /\ \/ /\ dir.path = "none"
        /\ pc' = [pc EXCEPT ![s] = "open"]
        /\ held' = held
     \/ /\ dir.path # "none" /\ Whole(content[dir.path])
        /\ pc' = [pc EXCEPT ![s] = "ok"]
        /\ held' = [held EXCEPT ![s] = content[dir.path].second]
     \/ /\ dir.path # "none" /\ ~Whole(content[dir.path])
        /\ pc' = [pc EXCEPT ![s] = "error"]
        /\ held' = held
  /\ UNCHANGED <<host, kind, fd, content, durable, dir, durDir, saved, crashes>>

(***************************************************************************)
(* open: create or truncate the temporary file.                            *)
(***************************************************************************)
MayOpen(s) == Start(s, "save") \/ pc[s] = "open"

Open(s) ==
  /\ MayOpen(s)
  /\ pc' = [pc EXCEPT ![s] = "first"]
  /\ LET inode == IF dir.temporary = "none" THEN s ELSE dir.temporary
     IN  /\ fd' = [fd EXCEPT ![s] = inode]
         /\ dir' = [dir EXCEPT !.temporary = inode]
         /\ content' = [content EXCEPT ![inode] = Empty]
  /\ UNCHANGED <<host, kind, held, durable, durDir, saved, crashes>>

(***************************************************************************)
(* The two writes, at the offsets of the call's own file description.      *)
(***************************************************************************)
WriteFirst(s) ==
  /\ Goto(s, "first", "second")
  /\ content' = [content EXCEPT ![fd[s]].first = s]
  /\ UNCHANGED <<host, kind, held, fd, durable, dir, durDir, saved, crashes>>

WriteSecond(s) ==
  /\ Goto(s, "second", IF Syncs THEN "sync" ELSE "rename")
  /\ content' = [content EXCEPT ![fd[s]].second = s]
  /\ UNCHANGED <<host, kind, held, fd, durable, dir, durDir, saved, crashes>>

SyncFile(s) ==
  /\ Goto(s, "sync", "rename")
  /\ durable' = [durable EXCEPT ![fd[s]] = content[fd[s]]]
  /\ UNCHANGED <<host, kind, held, fd, content, dir, durDir, saved, crashes>>

(***************************************************************************)
(* rename: whatever the temporary name leads to now.  It fails when        *)
(* another call has already moved it.  replace_json then sets its values   *)
(* and returns; save goes on to sync the directory.                        *)
(***************************************************************************)
Renamed == dir' = [path |-> dir.temporary, temporary |-> "none"]

Rename(s) ==
  /\ dir.temporary # "none"
  /\ Goto(s, "rename", IF Syncs THEN "syncdir" ELSE "ok")
  /\ Renamed
  /\ saved' = IF Syncs THEN saved ELSE s
  /\ UNCHANGED <<host, kind, held, fd, content, durable, durDir, crashes>>

\* Mutant: a failed rename cleans up the real file instead of the temporary.
RenameFailsCleans(s) ==
  /\ dir.temporary = "none"
  /\ Goto(s, "rename", "error")
  /\ dir' = [dir EXCEPT !.path = "none"]
  /\ UNCHANGED <<host, kind, held, fd, content, durable, durDir, saved, crashes>>

RenameFails(s) ==
  /\ dir.temporary = "none"
  /\ Goto(s, "rename", "error")
  /\ UNCHANGED <<host, kind, held, fd, content, durable, dir, durDir, saved, crashes>>

\* What the file is once the call is done.
Leaves(s) == IF kind[s] = "remove" THEN "none" ELSE s

\* Mutant: save returns before the directory is synced.
SyncParentLater(s) ==
  /\ Goto(s, "syncdir", "ok")
  /\ saved' = Leaves(s)
  /\ held' = [held EXCEPT ![s] = IF kind[s] = "create" THEN s ELSE @]
  /\ UNCHANGED <<host, kind, fd, content, durable, dir, durDir, crashes>>

SyncParent(s) ==
  /\ Goto(s, "syncdir", "ok")
  /\ durDir' = dir
  /\ saved' = Leaves(s)
  /\ held' = [held EXCEPT ![s] = IF kind[s] = "create" THEN s ELSE @]
  /\ UNCHANGED <<host, kind, fd, content, durable, dir, crashes>>

(***************************************************************************)
(* remove.  A file that is not there is Ok at once, and says nothing of    *)
(* whether its removal has reached the disk.                               *)
(***************************************************************************)
Remove(s) ==
  /\ Start(s, "remove")
  /\ pc' = [pc EXCEPT ![s] = IF dir.path = "none" THEN "ok" ELSE "syncdir"]
  /\ dir' = [dir EXCEPT !.path = "none"]
  /\ UNCHANGED <<host, kind, held, fd, content, durable, durDir, saved, crashes>>

(***************************************************************************)
(* A step fails: the call returns the error and leaves what it has done.   *)
(***************************************************************************)
Fails(s) ==
  /\ s \in Running
  /\ pc' = [pc EXCEPT ![s] = "error"]
  /\ UNCHANGED <<host, kind, held, fd, content, durable, dir, durDir, saved, crashes>>

(***************************************************************************)
(* A crash ends every call.  Each part of a file is as synced or as        *)
(* written, and the directory likewise.                                    *)
(***************************************************************************)
Unsynced == {i \in Inodes : content[i] # durable[i]}

Crash ==
  /\ crashes < host.crashes
  /\ crashes' = crashes + 1
  /\ pc' = [s \in Calls |-> IF s \in Running THEN "dead" ELSE pc[s]]
  /\ dir' \in {dir, durDir}
  /\ durDir' = dir'
  /\ \E F \in SUBSET Unsynced, S \in SUBSET Unsynced :
       content' = [i \in Inodes |->
                     [first  |-> IF i \in F THEN content[i].first ELSE durable[i].first,
                      second |-> IF i \in S THEN content[i].second ELSE durable[i].second]]
  /\ durable' = content'
  /\ UNCHANGED <<host, kind, held, fd, saved>>

Next ==
  \/ \E s \in Calls :
       \/ Load(s) \/ Remove(s) \/ Open(s) \/ WriteFirst(s) \/ WriteSecond(s) \/ SyncFile(s)
       \/ Rename(s) \/ RenameFails(s) \/ SyncParent(s) \/ Fails(s)
  \/ Crash

Spec == Init /\ [][Next]_vars

-----------------------------------------------------------------------------
(***************************************************************************)
(* Types.                                                                  *)
(***************************************************************************)
TypeOK ==
  /\ kind \in [Calls -> host.kinds]
  /\ held \in [Calls -> Parts]
  /\ pc \in [Calls -> {"idle", "open", "first", "second", "sync", "rename", "syncdir",
                        "ok", "error", "dead"}]
  /\ fd \in [Calls -> Parts]
  /\ \A s \in Calls : pc[s] \in {"first", "second", "sync"} => fd[s] # "none"
  /\ content \in [Inodes -> Contents] /\ durable \in [Inodes -> Contents]
  /\ dir \in [path : Parts, temporary : Parts] /\ durDir \in [path : Parts, temporary : Parts]
  /\ saved \in Parts

\* Calls exclude each other, and a crash finds what is in place synced.
Protected == host.exclusive /\ (Syncs \/ crashes = 0)

(***************************************************************************)
(* "Atomic": as long as one call runs at a time, whoever opens the         *)
(* identity file, at any moment and after any crash, finds none or a whole *)
(* one; of the session file, which is not synced, this holds until a       *)
(* crash.                                                                  *)
(***************************************************************************)
WholeFile == Protected /\ dir.path # "none" => Whole(content[dir.path])

(***************************************************************************)
(* Once a call has returned Ok, the file is what it left, or what a later  *)
(* call had done when it failed or crashed: no crash brings back an older  *)
(* content of the identity file.                                           *)
(***************************************************************************)
Stored == IF dir.path = "none" THEN "none" ELSE content[dir.path].second

KeepsSaved ==
  Protected =>
    Stored \in {saved} \union {Leaves(s) : s \in {c \in Calls : pc[c] \in {"syncdir", "error", "dead"}}}

(***************************************************************************)
(* Two calls that share the temporary name may each lose it, but a file    *)
(* that is there never disappears, unless it is removed or a crash undoes  *)
(* what had made it.                                                       *)
(***************************************************************************)
NeverVanishes ==
  [][dir.path # "none" /\ dir'.path = "none" =>
       (\E s \in Calls : kind[s] = "remove") \/ crashes' # crashes]_vars

(***************************************************************************)
(* As long as nothing but load_or_create touches the file, every           *)
(* load_or_create that returns gives the same identity, also after calls   *)
(* that failed or that a crash cut short.  Not after both: a call whose    *)
(* directory sync fails leaves a file that the next one returns and that a *)
(* crash can still take back.                                              *)
(***************************************************************************)
OneIdentity ==
  /\ host.exclusive /\ (\A s \in Calls : kind[s] = "create")
  /\ crashes = 0 \/ \A s \in Calls : pc[s] # "error"
  => \A s, c \in Calls : held[s] # "none" /\ held[c] # "none" => held[s] = held[c]

(***************************************************************************)
(* The variables keep their types, and the file is whole and what the last *)
(* successful call left, at any moment and after any crash, as far as the  *)
(* store protects it.                                                      *)
(***************************************************************************)
SavedWhole == TypeOK /\ WholeFile /\ KeepsSaved
=============================================================================
