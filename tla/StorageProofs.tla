---------------------------- MODULE StorageProofs -----------------------------
(***************************************************************************)
(* The identity and the session file, for any number of calls, failures    *)
(* and crashes.                                                            *)
(*                                                                         *)
(* While calls exclude each other, the temporary file is never the one     *)
(* that the path leads to, in the directory as it is and as it is on disk  *)
(* (Apart), so that a file in place is not written any more: it is whole,  *)
(* and the identity file is on disk (InPlace).  A call that is writing has *)
(* the temporary file to itself (Written).                                 *)
(***************************************************************************)
EXTENDS Storage, TLAPS

\* One call runs at a time, and only IdentityStore syncs or removes.
Stages ==
  /\ host.exclusive => \A s, c \in Running : s = c
  /\ \A s \in Calls :
       /\ pc[s] \in {"open", "first", "second", "sync", "rename"} => kind[s] # "remove"
       /\ pc[s] \in {"sync", "syncdir"} => Syncs

Places == {dir.path, durDir.path}

Apart ==
  /\ dir.temporary # "none" => dir.temporary \notin Places
  /\ durDir.temporary # "none" => durDir.temporary # durDir.path
  /\ \A s \in Calls : pc[s] \in {"idle", "open"} =>
       s \notin Places \union {dir.temporary, durDir.temporary}

InPlace ==
  \A i \in Inodes : i \in Places => Whole(content[i]) /\ (Syncs => content[i] = durable[i])

SecondOf(i) == IF i = "none" THEN "none" ELSE content[i].second

Unfinished == {c \in Calls : pc[c] \in {"syncdir", "error", "dead"}}
Allowed == {saved} \union {Leaves(s) : s \in Unfinished}

Kept ==
  /\ SecondOf(dir.path) \in Allowed
  /\ Syncs => SecondOf(durDir.path) \in Allowed

Written ==
  \A s \in Calls :
    /\ pc[s] \in {"first", "second", "sync", "rename"} =>
         fd[s] = dir.temporary /\ dir.temporary # "none"
    /\ pc[s] \in {"second", "sync", "rename"} => content[fd[s]].first = s
    /\ pc[s] \in {"sync", "rename"} => content[fd[s]].second = s
    /\ pc[s] = "rename" /\ Syncs => durable[fd[s]] = content[fd[s]]
    /\ pc[s] = "syncdir" => SecondOf(dir.path) = Leaves(s)

Guarded == Protected => Apart /\ InPlace /\ Kept /\ Written

\* What OneIdentity is about: once an identity has been handed out it is in
\* place, and nothing is being written.
OnlyCreate ==
  /\ host.exclusive /\ (\A s \in Calls : kind[s] = "create")
  /\ crashes = 0 \/ \A s \in Calls : pc[s] # "error"

HandedOut ==
  OnlyCreate =>
    /\ dir.path # durDir.path => \E s \in Calls : pc[s] \in {"syncdir", "error"}
    /\ \A s \in Running : /\ \A c \in Calls : held[c] = "none"
                          /\ pc[s] # "syncdir" => dir.path = "none"
    /\ \A s \in Calls : held[s] # "none" => held[s] = Stored

IInv ==
  /\ TypeOK /\ host \in Hosts /\ crashes \in Nat
  /\ Stages /\ Guarded /\ HandedOut
-------------------------------------------------------------------------------
(* Names and stages.                                                       *)

\* No call is named as an inode that is not its own.
LEMMA Names ==
  /\ \A s \in Calls : s # "none" /\ s # "old" /\ s \in Inodes /\ s \in Parts
  /\ "none" \notin Inodes
  /\ \A i \in Parts : i # "none" => i \in Inodes
BY StorageAssumption DEF Inodes, Parts

\* The session file is only saved.
LEMMA SessionSaves ==
  ASSUME IInv, NEW s \in Calls, kind[s] # "save"
  PROVE  Syncs
<1>1. kind[s] \in host.kinds
  BY DEF IInv, TypeOK
<1>2. host.store \in {"identity", "session"} /\ (host.store = "session" => host.kinds = {"save"})
  BY StorageAssumption DEF IInv
<1> QED BY <1>1, <1>2 DEF Syncs

\* Only one call is running while calls exclude each other.
LEMMA Alone ==
  ASSUME IInv, host.exclusive, NEW s \in Calls, NEW c \in Calls, c # s,
         s \in Running \/ (\E k \in {"save", "create", "remove"} : Start(s, k))
  PROVE  pc[c] \in {"idle", "ok", "error", "dead"}
BY DEF IInv, Stages, Running, Start

\* Where a call goes: the others stay, and it is still the only one.
LEMMA StagesStep ==
  ASSUME IInv, NEW s \in Calls, NEW to,
         host' = host, kind' = kind, pc' = [pc EXCEPT ![s] = to],
         s \in Running \/ (\E k \in {"save", "create", "remove"} : Start(s, k)),
         to \in {"open", "first", "second", "sync", "rename"} => kind[s] # "remove",
         to \in {"sync", "syncdir"} => Syncs
  PROVE  /\ Stages'
         /\ pc'[s] = to /\ \A c \in Calls : c # s => pc'[c] = pc[c]
<1>1. pc'[s] = to /\ \A c \in Calls : c # s => pc'[c] = pc[c]
  BY DEF IInv, TypeOK
<1>2. ASSUME host.exclusive, NEW a \in Running', NEW b \in Running'
      PROVE  a = b
  <2>1. ASSUME NEW c \in Calls, c # s PROVE c \notin Running'
    BY <1>1, <1>2, <2>1, Alone DEF Running
  <2> QED BY <2>1 DEF Running
<1>3. \A c \in Calls :
        /\ pc'[c] \in {"open", "first", "second", "sync", "rename"} => kind[c] # "remove"
        /\ pc'[c] \in {"sync", "syncdir"} => Syncs
  BY <1>1 DEF IInv, Stages
<1> QED BY <1>1, <1>2, <1>3 DEF Stages, Syncs

\* A call that only moves on, or returns without having done anything more,
\* leaves the files as they are protected.
LEMMA QuietStep ==
  ASSUME IInv, NEW s \in Calls, NEW to,
         host' = host, kind' = kind, fd' = fd, content' = content, durable' = durable,
         dir' = dir, durDir' = durDir, saved' = saved, crashes' = crashes,
         pc' = [pc EXCEPT ![s] = to],
         \/ pc[s] = "idle" /\ to \in {"open", "ok"}
         \/ to = "error"
  PROVE  Guarded'
<1>1. pc'[s] = to /\ \A c \in Calls : c # s => pc'[c] = pc[c]
  BY DEF IInv, TypeOK
<1> SUFFICES ASSUME Protected'
             PROVE  Apart' /\ InPlace' /\ Kept' /\ Written'
  BY DEF Guarded
<1>2. Protected /\ Apart /\ InPlace /\ Kept /\ Written
  BY DEF IInv, Guarded, Protected, Syncs
<1>3. Apart'
  BY <1>1, <1>2 DEF Apart, Places
<1>4. InPlace'
  BY <1>2 DEF InPlace, Places, Whole, Syncs
<1>5. Kept'
  <2>1. Unfinished \subseteq Unfinished'
    BY <1>1 DEF Unfinished
  <2>2. Allowed \subseteq Allowed'
    BY <2>1 DEF Allowed, Leaves
  <2> QED BY <1>2, <2>2 DEF Kept, SecondOf, Syncs
<1>6. Written'
  BY <1>1, <1>2 DEF Written, SecondOf, Leaves, Syncs
<1> QED BY <1>3, <1>4, <1>5, <1>6

-------------------------------------------------------------------------------
(* load_or_create, and calls that fail.                                    *)

\* load_or_create: what it returns is in place.
LEMMA LoadStep ==
  ASSUME IInv, NEW s \in Calls, Load(s)
  PROVE  IInv'
<1>1. /\ Start(s, "create") /\ pc[s] = "idle" /\ kind[s] = "create"
      /\ host' = host /\ kind' = kind /\ fd' = fd /\ content' = content /\ durable' = durable
      /\ dir' = dir /\ durDir' = durDir /\ saved' = saved /\ crashes' = crashes
  BY DEF Load, Start
<1>2. PICK to \in {"open", "ok", "error"} :
        /\ pc' = [pc EXCEPT ![s] = to]
        /\ to = "open" => dir.path = "none" /\ held' = held
        /\ to = "ok" => dir.path # "none" /\ held' = [held EXCEPT ![s] = content[dir.path].second]
        /\ to = "error" => held' = held
  <2>1. CASE dir.path = "none"
    BY <2>1 DEF Load
  <2>2. CASE dir.path # "none" /\ Whole(content[dir.path])
    BY <2>2 DEF Load
  <2>3. CASE dir.path # "none" /\ ~Whole(content[dir.path])
    BY <2>3 DEF Load
  <2> QED BY <2>1, <2>2, <2>3
<1>3. dir.path \in Parts /\ (dir.path # "none" => content[dir.path].second \in Parts)
  BY Names DEF IInv, TypeOK, Contents
<1>4. TypeOK'
  <2>1. held' \in [Calls -> Parts]
    BY <1>2, <1>3 DEF IInv, TypeOK
  <2>2. pc' \in [Calls -> {"idle", "open", "first", "second", "sync", "rename", "syncdir",
                           "ok", "error", "dead"}]
    BY <1>2 DEF IInv, TypeOK
  <2>3. \A c \in Calls : pc'[c] \in {"first", "second", "sync"} => fd'[c] # "none"
    BY <1>1, <1>2 DEF IInv, TypeOK
  <2> QED BY <1>1, <2>1, <2>2, <2>3 DEF IInv, TypeOK
<1>5. Stages' /\ pc'[s] = to /\ \A c \in Calls : c # s => pc'[c] = pc[c]
  BY <1>1, <1>2, StagesStep, ZenonT(30)
<1>6. Guarded'
  BY <1>1, <1>2, QuietStep, ZenonT(30)
<1>7. HandedOut'
  <2> SUFFICES ASSUME OnlyCreate'
               PROVE  /\ dir'.path # durDir'.path => \E c \in Calls : pc'[c] \in {"syncdir", "error"}
                      /\ \A r \in Running' : /\ \A c \in Calls : held'[c] = "none"
                                             /\ pc'[r] # "syncdir" => dir'.path = "none"
                      /\ \A c \in Calls : held'[c] # "none" => held'[c] = Stored'
    BY DEF HandedOut
  <2>1. OnlyCreate /\ host.exclusive
    BY <1>1, <1>5 DEF OnlyCreate
  <2>2. /\ dir.path # durDir.path => \E c \in Calls : pc[c] \in {"syncdir", "error"}
        /\ \A c \in Calls : held[c] # "none" => held[c] = Stored
    BY <2>1 DEF IInv, HandedOut
  <2>3. \A r \in Running' : r = s /\ to = "open"
    BY <1>1, <1>5, <2>1, Alone DEF Running
  <2>4. Stored' = Stored
    BY <1>1 DEF Stored
  <2>5. dir'.path # durDir'.path => \E c \in Calls : pc'[c] \in {"syncdir", "error"}
    BY <1>1, <1>5, <2>2
  <2>6. \A c \in Calls : held'[c] # "none" => held'[c] = Stored'
    BY <1>2, <2>2, <2>4 DEF IInv, TypeOK, Stored
  <2>7. to = "open" => dir'.path = "none" /\ \A c \in Calls : held'[c] = "none"
    BY <1>1, <1>2, <2>6 DEF Stored
  <2> QED BY <2>3, <2>5, <2>6, <2>7
<1> QED BY <1>1, <1>4, <1>5, <1>6, <1>7 DEF IInv

\* A call that fails leaves what it has done.
LEMMA FailStep ==
  ASSUME IInv, NEW s \in Calls, Fails(s) \/ RenameFails(s)
  PROVE  IInv'
<1>1. /\ s \in Running /\ pc' = [pc EXCEPT ![s] = "error"]
      /\ host' = host /\ kind' = kind /\ held' = held /\ fd' = fd /\ content' = content
      /\ durable' = durable /\ dir' = dir /\ durDir' = durDir /\ saved' = saved /\ crashes' = crashes
  BY DEF Fails, RenameFails, Goto, Running
<1>2. TypeOK'
  BY <1>1 DEF IInv, TypeOK
<1>3. Stages' /\ pc'[s] = "error" /\ \A c \in Calls : c # s => pc'[c] = pc[c]
  BY <1>1, StagesStep, ZenonT(30)
<1>4. Guarded'
  BY <1>1, QuietStep, ZenonT(30)
<1>5. HandedOut'
  <2>1. OnlyCreate' => OnlyCreate
    BY <1>1, <1>3 DEF OnlyCreate
  <2>2. Running' \subseteq Running /\ \A r \in Running' : pc'[r] = pc[r]
    BY <1>3 DEF Running
  <2> QED BY <1>1, <1>3, <2>1, <2>2 DEF IInv, HandedOut, Stored
<1> QED BY <1>1, <1>2, <1>3, <1>4, <1>5 DEF IInv

-------------------------------------------------------------------------------
(* Writing the temporary file.                                             *)

\* Opening it truncates no file in place.
LEMMA OpenStep ==
  ASSUME IInv, NEW s \in Calls, Open(s)
  PROVE  IInv'
<1>1. PICK i : i = IF dir.temporary = "none" THEN s ELSE dir.temporary
  OBVIOUS
<1>2. /\ pc' = [pc EXCEPT ![s] = "first"] /\ fd' = [fd EXCEPT ![s] = i]
      /\ dir' = [dir EXCEPT !.temporary = i] /\ content' = [content EXCEPT ![i] = Empty]
      /\ host' = host /\ kind' = kind /\ held' = held /\ durable' = durable
      /\ durDir' = durDir /\ saved' = saved /\ crashes' = crashes
      /\ Start(s, "save") \/ pc[s] = "open"
  BY <1>1 DEF Open, MayOpen
<1>3. i \in Inodes /\ i # "none" /\ i \in Parts
  BY <1>1, Names DEF IInv, TypeOK
<1>4. /\ dir' = [path |-> dir.path, temporary |-> i]
      /\ fd'[s] = i /\ \A c \in Calls : c # s => fd'[c] = fd[c]
      /\ \A j \in Inodes : content'[j] = IF j = i THEN Empty ELSE content[j]
  BY <1>2, <1>3 DEF IInv, TypeOK
<1>5. TypeOK'
  <2>1. content' \in [Inodes -> Contents]
    BY <1>2, <1>3 DEF IInv, TypeOK, Contents, Empty, Parts
  <2>2. fd' \in [Calls -> Parts] /\ dir' \in [path : Parts, temporary : Parts]
    BY <1>2, <1>3, <1>4 DEF IInv, TypeOK
  <2>3. pc' \in [Calls -> {"idle", "open", "first", "second", "sync", "rename", "syncdir",
                           "ok", "error", "dead"}]
    BY <1>2 DEF IInv, TypeOK
  <2>4. \A c \in Calls : pc'[c] \in {"first", "second", "sync"} => fd'[c] # "none"
    BY <1>2, <1>3 DEF IInv, TypeOK
  <2> QED BY <1>2, <2>1, <2>2, <2>3, <2>4 DEF IInv, TypeOK
<1>6. Stages' /\ pc'[s] = "first" /\ \A c \in Calls : c # s => pc'[c] = pc[c]
  <2>1. s \in Running \/ Start(s, "save")
    BY <1>2 DEF Running
  <2>2. kind[s] # "remove"
    BY <1>2 DEF IInv, Stages, Start
  <2> QED BY <1>2, <2>1, <2>2, StagesStep, ZenonT(30)
<1>7. host.exclusive => \A c \in Calls : c # s => pc[c] \in {"idle", "ok", "error", "dead"}
  BY <1>2, Alone DEF Running
<1>8. Guarded'
  <2> SUFFICES ASSUME Protected' PROVE Apart' /\ InPlace' /\ Kept' /\ Written'
    BY DEF Guarded
  <2>1. Protected /\ Apart /\ InPlace /\ Kept /\ Written /\ host.exclusive
    BY <1>2 DEF IInv, Guarded, Protected, Syncs
  <2>2. pc[s] \in {"idle", "open"}
    BY <1>2 DEF Start
  <2>3. i \notin Places
    BY <1>1, <2>1, <2>2 DEF Apart
  <2>4. Apart'
    BY <1>1, <1>2, <1>4, <1>6, <2>1, <2>2, <2>3 DEF Apart, Places
  <2>5. InPlace'
    BY <1>2, <1>4, <2>1, <2>3 DEF InPlace, Places, Whole, Syncs
  <2>6. Kept'
    <3>1. Unfinished' = Unfinished
      BY <1>6, <2>2 DEF Unfinished
    <3>2. Allowed' = Allowed
      BY <1>2, <3>1 DEF Allowed, Leaves
    <3>3. SecondOf(dir.path)' = SecondOf(dir.path) /\ SecondOf(durDir.path)' = SecondOf(durDir.path)
      BY <1>2, <1>4, <2>3, Names DEF SecondOf, Places, IInv, TypeOK
    <3> QED BY <1>2, <2>1, <3>2, <3>3 DEF Kept, Syncs
  <2>7. Written'
    BY <1>3, <1>4, <1>6, <1>7, <2>1 DEF Written
  <2> QED BY <2>4, <2>5, <2>6, <2>7
<1>9. HandedOut'
  <2> SUFFICES ASSUME OnlyCreate'
               PROVE  /\ dir'.path # durDir'.path => \E c \in Calls : pc'[c] \in {"syncdir", "error"}
                      /\ \A r \in Running' : /\ \A c \in Calls : held'[c] = "none"
                                             /\ pc'[r] # "syncdir" => dir'.path = "none"
                      /\ \A c \in Calls : held'[c] # "none" => held'[c] = Stored'
    BY DEF HandedOut
  <2>1. OnlyCreate /\ s \in Running /\ pc[s] = "open"
    BY <1>2, <1>6 DEF OnlyCreate, Running, Start
  <2>2. dir.path = "none" /\ \A c \in Calls : held[c] = "none"
    BY <2>1 DEF IInv, HandedOut
  <2>3. dir.path # durDir.path => \E c \in Calls : pc[c] \in {"syncdir", "error"}
    BY <2>1 DEF IInv, HandedOut
  <2> QED BY <1>2, <1>4, <1>6, <2>1, <2>2, <2>3
<1> QED BY <1>2, <1>5, <1>6, <1>8, <1>9 DEF IInv

\* The writes and the sync of the file are to the temporary file.
LEMMA WriteStep ==
  ASSUME IInv, NEW s \in Calls, WriteFirst(s) \/ WriteSecond(s) \/ SyncFile(s)
  PROVE  IInv'
<1>1. PICK f \in Inodes : f = fd[s]
  BY Names DEF WriteFirst, WriteSecond, SyncFile, Goto, IInv, TypeOK
<1>2. PICK to \in {"second", "sync", "rename"} :
        /\ pc' = [pc EXCEPT ![s] = to]
        /\ to = "sync" => Syncs
        /\ \/ /\ pc[s] = "first" /\ to = "second"
              /\ content' = [content EXCEPT ![f].first = s] /\ durable' = durable
           \/ /\ pc[s] = "second" /\ to = IF Syncs THEN "sync" ELSE "rename"
              /\ content' = [content EXCEPT ![f].second = s] /\ durable' = durable
           \/ /\ pc[s] = "sync" /\ to = "rename"
              /\ durable' = [durable EXCEPT ![f] = content[f]] /\ content' = content
  BY <1>1 DEF WriteFirst, WriteSecond, SyncFile, Goto
<1>3. /\ host' = host /\ kind' = kind /\ held' = held /\ fd' = fd
      /\ dir' = dir /\ durDir' = durDir /\ saved' = saved /\ crashes' = crashes
  BY DEF WriteFirst, WriteSecond, SyncFile
<1>4. s \in Running /\ kind[s] # "remove" /\ pc[s] \in {"first", "second", "sync"}
  BY <1>2 DEF Running, IInv, Stages
<1>5. \A j \in Inodes : j # f => content'[j] = content[j] /\ durable'[j] = durable[j]
  BY <1>2 DEF IInv, TypeOK
<1>6. TypeOK'
  <2>1. s \in Parts
    BY Names
  <2>2. content' \in [Inodes -> Contents]
    <3>1. content[f] \in Contents
      BY DEF IInv, TypeOK
    <3>2. [content[f] EXCEPT !.first = s] \in Contents /\ [content[f] EXCEPT !.second = s] \in Contents
      BY <2>1, <3>1 DEF Contents
    <3>3. content' = content \/ content' = [content EXCEPT ![f] = [content[f] EXCEPT !.first = s]]
            \/ content' = [content EXCEPT ![f] = [content[f] EXCEPT !.second = s]]
      BY <1>2
    <3> QED BY <3>2, <3>3 DEF IInv, TypeOK
  <2>3. durable' \in [Inodes -> Contents]
    BY <1>2 DEF IInv, TypeOK
  <2>4. pc' \in [Calls -> {"idle", "open", "first", "second", "sync", "rename", "syncdir",
                           "ok", "error", "dead"}]
    BY <1>2 DEF IInv, TypeOK
  <2>5. \A c \in Calls : pc'[c] \in {"first", "second", "sync"} => fd'[c] # "none"
    BY <1>2, <1>3, <1>4 DEF IInv, TypeOK
  <2> QED BY <1>3, <2>2, <2>3, <2>4, <2>5 DEF IInv, TypeOK
<1>7. Stages' /\ pc'[s] = to /\ \A c \in Calls : c # s => pc'[c] = pc[c]
  BY <1>2, <1>3, <1>4, StagesStep, ZenonT(30)
<1>8. Guarded'
  <2> SUFFICES ASSUME Protected' PROVE Apart' /\ InPlace' /\ Kept' /\ Written'
    BY DEF Guarded
  <2>1. Protected /\ Apart /\ InPlace /\ Kept /\ Written /\ host.exclusive
    BY <1>3, ZenonT(30) DEF IInv, Guarded, Protected, Syncs
  <2>2. f = dir.temporary /\ f # "none" /\ f \notin Places
    BY <1>1, <1>4, <2>1 DEF Written, Apart
  <2>3. Apart'
    BY <1>2, <1>3, <1>7, <2>1 DEF Apart, Places
  <2>4. InPlace'
    BY <1>3, <1>5, <2>1, <2>2 DEF InPlace, Places, Whole, Syncs
  <2>5. SecondOf(dir.path)' = SecondOf(dir.path) /\ SecondOf(durDir.path)' = SecondOf(durDir.path)
    BY <1>3, <1>5, <2>2, Names DEF SecondOf, Places, IInv, TypeOK
  <2>6. Kept'
    <3>1. Unfinished' = Unfinished
      BY <1>2, <1>4, <1>7 DEF Unfinished
    <3>2. Allowed' = Allowed
      BY <1>3, <3>1 DEF Allowed, Leaves
    <3> QED BY <1>3, <2>1, <2>5, <3>2 DEF Kept, Syncs
  <2>7. Written'
    <3>1. \A c \in Calls : c # s => pc'[c] \in {"idle", "ok", "error", "dead"}
      BY <1>4, <1>7, <2>1, Alone
    <3>2. content[f] \in Contents
      BY DEF IInv, TypeOK
    <3>3. /\ content'[f].first = s
          /\ to \in {"sync", "rename"} => content'[f].second = s
          /\ to = "rename" /\ Syncs => durable'[f] = content'[f]
      <4>1. CASE pc[s] = "first"
        BY <1>2, <3>2, <4>1 DEF Contents, IInv, TypeOK
      <4>2. CASE pc[s] = "second"
        <5>1. content[f].first = s
          BY <1>1, <2>1, <4>2 DEF Written
        <5> QED BY <1>2, <3>2, <4>2, <5>1 DEF Contents, IInv, TypeOK
      <4>3. CASE pc[s] = "sync"
        <5>1. content[f].first = s /\ content[f].second = s
          BY <1>1, <2>1, <4>3 DEF Written
        <5> QED BY <1>2, <4>3, <5>1 DEF IInv, TypeOK
      <4> QED BY <1>4, <4>1, <4>2, <4>3
    <3> QED BY <1>1, <1>2, <1>3, <1>7, <2>2, <3>1, <3>3, ZenonT(30) DEF Written, Syncs
  <2> QED BY <2>3, <2>4, <2>6, <2>7
<1>9. HandedOut'
  <2> SUFFICES ASSUME OnlyCreate'
               PROVE  /\ dir'.path # durDir'.path => \E c \in Calls : pc'[c] \in {"syncdir", "error"}
                      /\ \A r \in Running' : /\ \A c \in Calls : held'[c] = "none"
                                             /\ pc'[r] # "syncdir" => dir'.path = "none"
                      /\ \A c \in Calls : held'[c] # "none" => held'[c] = Stored'
    BY DEF HandedOut
  <2>1. OnlyCreate
    BY <1>3, <1>4, <1>7 DEF OnlyCreate
  <2>2. dir.path = "none" /\ \A c \in Calls : held[c] = "none"
    BY <1>4, <2>1 DEF IInv, HandedOut
  <2>3. dir.path # durDir.path => \E c \in Calls : pc[c] \in {"syncdir", "error"}
    BY <2>1 DEF IInv, HandedOut
  <2> QED BY <1>3, <1>4, <1>7, <2>2, <2>3
<1> QED BY <1>3, <1>6, <1>7, <1>8, <1>9 DEF IInv

-------------------------------------------------------------------------------
(* Moving the file into place, and removing it.                            *)

\* What is renamed is whole, and of the identity file on disk.
LEMMA RenameStep ==
  ASSUME IInv, NEW s \in Calls, Rename(s)
  PROVE  IInv'
<1>1. PICK f \in Inodes : f = dir.temporary
  BY Names DEF Rename, IInv, TypeOK
<1>2. /\ f # "none" /\ pc[s] = "rename" /\ pc' = [pc EXCEPT ![s] = IF Syncs THEN "syncdir" ELSE "ok"]
      /\ dir' = [path |-> f, temporary |-> "none"] /\ saved' = IF Syncs THEN saved ELSE s
      /\ host' = host /\ kind' = kind /\ held' = held /\ fd' = fd /\ content' = content
      /\ durable' = durable /\ durDir' = durDir /\ crashes' = crashes
  BY <1>1 DEF Rename, Renamed, Goto
<1>3. s \in Running /\ kind[s] # "remove" /\ s \in Parts /\ f \in Parts
  BY <1>2, Names DEF Running, IInv, Stages, Inodes, Parts
<1>4. TypeOK'
  <2>1. dir' \in [path : Parts, temporary : Parts] /\ saved' \in Parts
    BY <1>2, <1>3 DEF IInv, TypeOK, Parts
  <2>2. pc' \in [Calls -> {"idle", "open", "first", "second", "sync", "rename", "syncdir",
                           "ok", "error", "dead"}]
    BY <1>2 DEF IInv, TypeOK
  <2>3. \A c \in Calls : pc'[c] \in {"first", "second", "sync"} => fd'[c] # "none"
    BY <1>2 DEF IInv, TypeOK
  <2> QED BY <1>2, <2>1, <2>2, <2>3 DEF IInv, TypeOK
<1>5. /\ Stages' /\ pc'[s] = IF Syncs THEN "syncdir" ELSE "ok"
      /\ \A c \in Calls : c # s => pc'[c] = pc[c]
  <2>1. PICK to : to = IF Syncs THEN "syncdir" ELSE "ok"
    OBVIOUS
  <2>2. Stages' /\ pc'[s] = to /\ \A c \in Calls : c # s => pc'[c] = pc[c]
    BY <1>2, <1>3, <2>1, StagesStep, ZenonT(30)
  <2> QED BY <2>1, <2>2
<1>6. ASSUME Protected
      PROVE  /\ Apart /\ InPlace /\ Kept /\ Written
             /\ f = fd[s] /\ content[f].first = s /\ content[f].second = s
             /\ Syncs => durable[f] = content[f]
             /\ \A c \in Calls : c # s => pc[c] \in {"idle", "ok", "error", "dead"}
  <2>1. Apart /\ InPlace /\ Kept /\ Written /\ host.exclusive
    BY <1>6, ZenonT(30) DEF IInv, Guarded, Protected
  <2>2. f = fd[s] /\ content[f].first = s /\ content[f].second = s /\ (Syncs => durable[f] = content[f])
    BY <1>1, <1>2, <2>1 DEF Written
  <2> QED BY <1>3, <2>1, <2>2, Alone
<1>7. Guarded'
  <2> SUFFICES ASSUME Protected' PROVE Apart' /\ InPlace' /\ Kept' /\ Written'
    BY DEF Guarded
  <2>1. Protected
    BY <1>2 DEF Protected, Syncs
  <2>2. Apart'
    BY <1>1, <1>2, <1>5, <1>6, <2>1, Names DEF Apart, Places
  <2>3. InPlace'
    <3>1. Whole(content[f])
      BY <1>6, <2>1, Names DEF Whole
    <3>2. \A i \in Inodes : i \in Places => Whole(content[i]) /\ (Syncs => content[i] = durable[i])
      BY <1>6, <2>1 DEF InPlace
    <3>3. \A i : i \in Places' => i = f \/ i \in Places
      BY <1>2 DEF Places
    <3> QED BY <1>2, <1>6, <2>1, <3>1, <3>2, <3>3 DEF InPlace, Whole, Syncs
  <2>4. Leaves(s) = s /\ SecondOf(dir.path)' = s
    BY <1>2, <1>3, <1>6, <2>1 DEF Leaves, SecondOf
  <2>5. Kept'
    <3>1. CASE Syncs
      <4>1. Unfinished' = Unfinished \union {s}
        BY <1>5, <3>1 DEF Unfinished
      <4>2. Allowed' = Allowed \union {s}
        BY <1>2, <2>4, <3>1, <4>1 DEF Allowed, Leaves
      <4>3. SecondOf(durDir.path)' = SecondOf(durDir.path)
        BY <1>2 DEF SecondOf
      <4> QED BY <1>2, <1>6, <2>1, <2>4, <4>2, <4>3 DEF Kept, Syncs
    <3>2. CASE ~Syncs
      BY <1>2, <2>4, <3>2, ZenonT(30) DEF Kept, Allowed, Syncs
    <3> QED BY <3>1, <3>2
  <2>6. Written'
    BY <1>2, <1>5, <1>6, <2>1, <2>4 DEF Written, Leaves
  <2> QED BY <2>2, <2>3, <2>5, <2>6
<1>8. HandedOut'
  <2> SUFFICES ASSUME OnlyCreate'
               PROVE  /\ dir'.path # durDir'.path => \E c \in Calls : pc'[c] \in {"syncdir", "error"}
                      /\ \A r \in Running' : /\ \A c \in Calls : held'[c] = "none"
                                             /\ pc'[r] # "syncdir" => dir'.path = "none"
                      /\ \A c \in Calls : held'[c] # "none" => held'[c] = Stored'
    BY DEF HandedOut
  <2>1. OnlyCreate /\ host.exclusive
    BY <1>2, <1>5 DEF OnlyCreate
  <2>2. \A c \in Calls : held[c] = "none"
    BY <1>3, <2>1 DEF IInv, HandedOut
  <2>3. Syncs
    BY <2>1, SessionSaves DEF OnlyCreate
  <2>4. \A r \in Running' : r = s
    BY <1>3, <1>5, <2>1, Alone DEF Running
  <2> QED BY <1>2, <1>5, <2>2, <2>3, <2>4, ZenonT(30)
<1> QED BY <1>2, <1>4, <1>5, <1>7, <1>8 DEF IInv

\* Once the directory is synced, the file is what the call has left.
LEMMA SyncParentStep ==
  ASSUME IInv, NEW s \in Calls, SyncParent(s)
  PROVE  IInv'
<1>1. /\ pc[s] = "syncdir" /\ pc' = [pc EXCEPT ![s] = "ok"]
      /\ durDir' = dir /\ saved' = Leaves(s)
      /\ held' = [held EXCEPT ![s] = IF kind[s] = "create" THEN s ELSE held[s]]
      /\ host' = host /\ kind' = kind /\ fd' = fd /\ content' = content
      /\ durable' = durable /\ dir' = dir /\ crashes' = crashes
  BY DEF SyncParent, Goto
<1>2. s \in Running /\ Syncs /\ s \in Parts /\ Leaves(s) \in Parts
  BY <1>1, Names DEF Running, IInv, Stages, Leaves, Parts
<1>3. TypeOK'
  <2>1. held' \in [Calls -> Parts] /\ saved' \in Parts
    BY <1>1, <1>2 DEF IInv, TypeOK
  <2>2. pc' \in [Calls -> {"idle", "open", "first", "second", "sync", "rename", "syncdir",
                           "ok", "error", "dead"}]
    BY <1>1 DEF IInv, TypeOK
  <2>3. \A c \in Calls : pc'[c] \in {"first", "second", "sync"} => fd'[c] # "none"
    BY <1>1 DEF IInv, TypeOK
  <2> QED BY <1>1, <2>1, <2>2, <2>3 DEF IInv, TypeOK
<1>4. Stages' /\ pc'[s] = "ok" /\ \A c \in Calls : c # s => pc'[c] = pc[c]
  BY <1>1, <1>2, StagesStep, ZenonT(30)
<1>5. ASSUME Protected
      PROVE  /\ Apart /\ InPlace /\ Kept /\ Written /\ SecondOf(dir.path) = Leaves(s)
             /\ \A c \in Calls : c # s => pc[c] \in {"idle", "ok", "error", "dead"}
  <2>1. Apart /\ InPlace /\ Kept /\ Written /\ host.exclusive
    BY <1>5 DEF IInv, Guarded, Protected
  <2> QED BY <1>1, <1>2, <2>1, Alone DEF Written
<1>6. Guarded'
  <2> SUFFICES ASSUME Protected' PROVE Apart' /\ InPlace' /\ Kept' /\ Written'
    BY DEF Guarded
  <2>1. Protected
    BY <1>1 DEF Protected, Syncs
  <2>2. Apart'
    BY <1>1, <1>4, <1>5, <2>1 DEF Apart, Places
  <2>3. InPlace'
    BY <1>1, <1>5, <2>1 DEF InPlace, Places, Whole, Syncs
  <2>4. Kept'
    BY <1>1, <1>5, <2>1, ZenonT(30) DEF Kept, Allowed, SecondOf
  <2>5. Written'
    BY <1>1, <1>4, <1>5, <2>1, ZenonT(30) DEF Written
  <2> QED BY <2>2, <2>3, <2>4, <2>5
<1>7. HandedOut'
  <2> SUFFICES ASSUME OnlyCreate'
               PROVE  /\ \A r \in Running' : FALSE
                      /\ \A c \in Calls : held'[c] # "none" => held'[c] = Stored'
    BY <1>1 DEF HandedOut
  <2>1. OnlyCreate /\ host.exclusive /\ kind[s] = "create"
    BY <1>1, <1>4 DEF OnlyCreate
  <2>2. \A c \in Calls : held[c] = "none"
    BY <1>2, <2>1 DEF IInv, HandedOut
  <2>3. \A r \in Running' : FALSE
    BY <1>2, <1>4, <2>1, Alone DEF Running
  <2>4. Stored' = s
    <3>1. SecondOf(dir.path) = s
      BY <1>2, <1>5, <2>1 DEF Leaves, Protected
    <3> QED BY <1>1, <3>1 DEF SecondOf, Stored
  <2> QED BY <1>1, <2>2, <2>3, <2>4 DEF IInv, TypeOK
<1> QED BY <1>1, <1>3, <1>4, <1>6, <1>7 DEF IInv

\* Only the name goes, and what the disk still has is what was saved.
LEMMA RemoveStep ==
  ASSUME IInv, NEW s \in Calls, Remove(s)
  PROVE  IInv'
<1>1. PICK to : to = IF dir.path = "none" THEN "ok" ELSE "syncdir"
  OBVIOUS
<1>2. /\ pc[s] = "idle" /\ kind[s] = "remove" /\ pc' = [pc EXCEPT ![s] = to]
      /\ dir' = [path |-> "none", temporary |-> dir.temporary]
      /\ host' = host /\ kind' = kind /\ held' = held /\ fd' = fd /\ content' = content
      /\ durable' = durable /\ durDir' = durDir /\ saved' = saved /\ crashes' = crashes
  BY <1>1 DEF Remove, Start, IInv, TypeOK
<1>3. Syncs /\ Start(s, "remove")
  BY <1>2, SessionSaves DEF Remove
<1>4. TypeOK'
  <2>1. dir' \in [path : Parts, temporary : Parts]
    BY <1>2 DEF IInv, TypeOK, Parts
  <2>2. pc' \in [Calls -> {"idle", "open", "first", "second", "sync", "rename", "syncdir",
                           "ok", "error", "dead"}]
    BY <1>1, <1>2 DEF IInv, TypeOK
  <2>3. \A c \in Calls : pc'[c] \in {"first", "second", "sync"} => fd'[c] # "none"
    BY <1>1, <1>2 DEF IInv, TypeOK
  <2> QED BY <1>2, <2>1, <2>2, <2>3 DEF IInv, TypeOK
<1>5. Stages' /\ pc'[s] = to /\ \A c \in Calls : c # s => pc'[c] = pc[c]
  <2>1. to \in {"ok", "syncdir"}
    BY <1>1
  <2> QED BY <1>2, <1>3, <2>1, StagesStep, ZenonT(30)
<1>6. ASSUME Protected
      PROVE  /\ Apart /\ InPlace /\ Kept /\ Written
             /\ \A c \in Calls : c # s => pc[c] \in {"idle", "ok", "error", "dead"}
  <2>1. Apart /\ InPlace /\ Kept /\ Written /\ host.exclusive
    BY <1>6 DEF IInv, Guarded, Protected
  <2> QED BY <1>3, <2>1, Alone
<1>7. Guarded'
  <2> SUFFICES ASSUME Protected' PROVE Apart' /\ InPlace' /\ Kept' /\ Written'
    BY DEF Guarded
  <2>1. Protected
    BY <1>2 DEF Protected, Syncs
  <2>2. Apart'
    BY <1>1, <1>2, <1>5, <1>6, <2>1, Names, ZenonT(30) DEF Apart, Places
  <2>3. InPlace'
    BY <1>2, <1>6, <2>1, Names DEF InPlace, Places, Whole, Syncs
  <2>4. Leaves(s) = "none" /\ SecondOf(dir.path)' = "none" /\ SecondOf(durDir.path)' = SecondOf(durDir.path)
    BY <1>2 DEF Leaves, SecondOf
  <2>5. Kept'
    <3>1. CASE dir.path = "none"
      <4>1. Unfinished' = Unfinished
        BY <1>1, <1>2, <1>5, <3>1 DEF Unfinished
      <4>2. Allowed' = Allowed
        BY <1>2, <4>1 DEF Allowed, Leaves
      <4>3. SecondOf(dir.path) = "none"
        BY <3>1 DEF SecondOf
      <4> QED BY <1>6, <2>1, <2>4, <4>2, <4>3, <1>3 DEF Kept
    <3>2. CASE dir.path # "none"
      <4>1. Unfinished' = Unfinished \union {s}
        BY <1>1, <1>5, <3>2 DEF Unfinished
      <4>2. Allowed' = Allowed \union {"none"}
        BY <1>2, <2>4, <4>1, ZenonT(30) DEF Allowed, Leaves
      <4> QED BY <1>6, <2>1, <2>4, <4>2, <1>3 DEF Kept
    <3> QED BY <3>1, <3>2, ZenonT(30)
  <2>6. Written'
    BY <1>1, <1>2, <1>5, <1>6, <2>1, <2>4 DEF Written, Leaves
  <2> QED BY <2>2, <2>3, <2>5, <2>6
<1>8. HandedOut'
  BY <1>2 DEF HandedOut, OnlyCreate
<1> QED BY <1>2, <1>4, <1>5, <1>7, <1>8 DEF IInv
-------------------------------------------------------------------------------
(* A crash.                                                                *)

\* A crash finds what is in place on disk: it leaves one of two whole files.
LEMMA CrashStep ==
  ASSUME IInv, Crash
  PROVE  IInv'
<1>1. /\ host' = host /\ kind' = kind /\ held' = held /\ fd' = fd /\ saved' = saved
      /\ crashes' = crashes + 1 /\ dir' \in {dir, durDir} /\ durDir' = dir' /\ durable' = content'
      /\ pc' = [s \in Calls |-> IF s \in Running THEN "dead" ELSE pc[s]]
  BY DEF Crash
<1>2. PICK F \in SUBSET Unsynced, S \in SUBSET Unsynced :
        content' = [i \in Inodes |->
                     [first  |-> IF i \in F THEN content[i].first ELSE durable[i].first,
                      second |-> IF i \in S THEN content[i].second ELSE durable[i].second]]
  BY ZenonT(30) DEF Crash
<1>3. \A s \in Calls : pc'[s] = IF s \in Running THEN "dead" ELSE pc[s]
  BY <1>1
<1>4. \A s \in Calls : pc'[s] \in {"idle", "ok", "error", "dead"} /\ (pc'[s] # "dead" => pc'[s] = pc[s])
  BY <1>3 DEF Running
<1>5. \A i \in Inodes : content[i] = durable[i] => content'[i] = content[i]
  <2> TAKE i \in Inodes
  <2> HAVE content[i] = durable[i]
  <2>1. content'[i] = [first |-> content[i].first, second |-> content[i].second]
    BY <1>2
  <2>2. content[i] \in Contents
    BY ZenonT(30) DEF IInv, TypeOK
  <2> QED BY <2>1, <2>2 DEF Contents
<1>6. TypeOK'
  <2>1. content' \in [Inodes -> Contents]
    <3> SUFFICES ASSUME NEW i \in Inodes PROVE content'[i] \in Contents
      BY <1>2
    <3>1. content[i] \in Contents /\ durable[i] \in Contents
      BY DEF IInv, TypeOK
    <3>2. content'[i] = [first  |-> IF i \in F THEN content[i].first ELSE durable[i].first,
                         second |-> IF i \in S THEN content[i].second ELSE durable[i].second]
      BY <1>2
    <3> QED BY <3>1, <3>2 DEF Contents
  <2>2. dir' \in [path : Parts, temporary : Parts] /\ durDir' \in [path : Parts, temporary : Parts]
    BY <1>1 DEF IInv, TypeOK
  <2>3. pc' \in [Calls -> {"idle", "open", "first", "second", "sync", "rename", "syncdir",
                           "ok", "error", "dead"}]
    BY <1>1, <1>4
  <2> QED BY <1>1, <1>4, <2>1, <2>2, <2>3, ZenonT(30) DEF IInv, TypeOK
<1>7. Stages' /\ Running' = {}
  BY <1>4 DEF Stages, Running
<1>8. crashes' \in Nat /\ crashes' # 0
  BY <1>1 DEF IInv
<1>9. Guarded'
  <2> SUFFICES ASSUME Protected' PROVE Apart' /\ InPlace' /\ Kept' /\ Written'
    BY DEF Guarded
  <2>1. Syncs /\ Protected
    BY <1>1, <1>8 DEF Protected, Syncs
  <2>2. Apart /\ InPlace /\ Kept
    BY <2>1 DEF IInv, Guarded
  <2>3. Apart'
    <3>1. \A s \in Calls : pc'[s] \in {"idle", "open"} => pc[s] \in {"idle", "open"}
      BY <1>4
    <3> QED BY <1>1, <2>2, <3>1 DEF Apart, Places
  <2>4. \A i \in Inodes : i \in Places => content'[i] = content[i]
    BY <1>5, <2>1, <2>2 DEF InPlace
  <2>5. InPlace'
    BY <1>1, <2>1, <2>2, <2>4 DEF InPlace, Places, Whole, Syncs
  <2>6. Unfinished \subseteq Unfinished'
    BY <1>3 DEF Unfinished
  <2>7. Allowed \subseteq Allowed'
    BY <1>1, <2>6 DEF Allowed, Leaves
  <2>8. \A i \in Parts : i \in Places => (IF i = "none" THEN "none" ELSE content'[i].second) \in Allowed
    BY <2>1, <2>2, <2>4, Names DEF Kept, SecondOf, Places
  <2>9. Kept'
    BY <1>1, <2>7, <2>8, ZenonT(30) DEF Kept, SecondOf, Places, IInv, TypeOK
  <2>10. Written'
    BY <1>4 DEF Written
  <2> QED BY <2>3, <2>5, <2>9, <2>10
<1>10. HandedOut'
  <2> SUFFICES ASSUME OnlyCreate', NEW s \in Calls, held'[s] # "none"
               PROVE  held'[s] = Stored'
    BY <1>1, <1>7 DEF HandedOut
  <2>1. host.exclusive /\ OnlyCreate /\ \A c \in Calls : kind[c] = "create" /\ pc[c] # "error"
    BY <1>1, <1>3, <1>8 DEF OnlyCreate, Running
  <2>2. Running = {} /\ held[s] = Stored
    BY <1>1, <2>1 DEF IInv, HandedOut
  <2>3. dir'.path = dir.path
    BY <1>1, <2>1, <2>2 DEF IInv, HandedOut, Running
  <2>4. Syncs
    BY <2>1, SessionSaves
  <2>5. InPlace
    BY <2>1, <2>4, ZenonT(30) DEF IInv, Guarded, Protected
  <2>6. dir.path # "none" => content'[dir.path] = content[dir.path]
    BY <1>5, <2>4, <2>5, Names, ZenonT(30) DEF InPlace, Places, IInv, TypeOK
  <2> QED BY <1>1, <2>2, <2>3, <2>6 DEF Stored
<1> QED BY <1>1, <1>6, <1>7, <1>8, <1>9, <1>10, ZenonT(30) DEF IInv
-------------------------------------------------------------------------------
(* The theorems.                                                           *)

\* Whatever file there is at the start is whole and on disk.
LEMMA InitInv == Init => IInv
<1> SUFFICES ASSUME Init PROVE IInv
  OBVIOUS
<1>1. /\ host \in Hosts /\ crashes = 0 /\ kind \in [Calls -> host.kinds] /\ durDir = dir
      /\ held = [s \in Calls |-> "none"] /\ pc = [s \in Calls |-> "idle"]
      /\ fd = [s \in Calls |-> "none"] /\ durable = content /\ saved = dir.path
      /\ content = [i \in Inodes |-> IF i = "old" THEN [first |-> i, second |-> i] ELSE Empty]
  BY DEF Init
<1>2. dir.path \in {"old", "none"} /\ dir.temporary = "none" /\ dir \in [path : Parts, temporary : Parts]
  BY ZenonT(30) DEF Init, Parts, Inodes
<1>3. TypeOK
  <2>1. content \in [Inodes -> Contents]
    BY <1>1 DEF Contents, Parts, Empty, Inodes
  <2> QED BY <1>1, <1>2, <2>1 DEF TypeOK, Parts
<1>4. Stages
  BY <1>1 DEF Stages, Running
<1>5. Apart
  BY <1>1, <1>2, Names DEF Apart, Places
<1>6. InPlace
  <2>1. \A i \in Inodes : i \in Places => i = "old" /\ content[i] = [first |-> "old", second |-> "old"]
    BY <1>1, <1>2, Names DEF Places
  <2> QED BY <1>1, <2>1, ZenonT(30) DEF InPlace, Whole
<1>7. Kept
  <2>1. dir.path = "old" => content[dir.path].second = "old"
    BY <1>1 DEF Inodes
  <2> QED BY <1>1, <1>2, <2>1 DEF Kept, Allowed, SecondOf
<1>8. Written
  BY <1>1 DEF Written
<1>9. HandedOut
  BY <1>1 DEF HandedOut, Running
<1> QED BY <1>1, <1>3, <1>4, <1>5, <1>6, <1>7, <1>8, <1>9 DEF IInv, Guarded

\* A step that changes nothing keeps everything.
LEMMA Stutter == IInv /\ UNCHANGED vars => IInv'
<1> SUFFICES ASSUME IInv, UNCHANGED vars PROVE IInv'
  OBVIOUS
<1>1. /\ host' = host /\ kind' = kind /\ held' = held /\ fd' = fd /\ pc' = pc /\ saved' = saved
      /\ content' = content /\ durable' = durable /\ dir' = dir /\ durDir' = durDir
      /\ crashes' = crashes
  BY DEF vars
<1>2. TypeOK' /\ Stages'
  BY <1>1, ZenonT(30) DEF IInv, TypeOK, Stages, Running, Syncs
<1>3. Guarded'
  BY <1>1 DEF IInv, Guarded, Protected, Apart, Places, InPlace, Whole, Kept, Allowed, Unfinished,
              SecondOf, Leaves, Written, Syncs
<1>4. HandedOut'
  BY <1>1, ZenonT(30) DEF IInv, HandedOut, OnlyCreate, Running, Stored
<1> QED BY <1>1, <1>2, <1>3, <1>4 DEF IInv

LEMMA Inductive == IInv /\ [Next]_vars => IInv'
BY LoadStep, RemoveStep, OpenStep, WriteStep, RenameStep, FailStep, SyncParentStep, CrashStep, Stutter
   DEF Next

\* The inductive invariant holds in every reachable state.
THEOREM StorageInvariance == Spec => []IInv
BY InitInv, Inductive, PTL DEF Spec

\* The file is whole and what the last successful call left, for any number
\* of calls, failures and crashes, as far as IdentityStore::save and
\* replace_json protect it.
THEOREM FilesAreKept == Spec => []SavedWhole
<1>1. IInv => SavedWhole
  <2> SUFFICES ASSUME IInv PROVE WholeFile /\ KeepsSaved
    BY ZenonT(30) DEF SavedWhole, IInv
  <2>1. WholeFile
    BY Names DEF IInv, TypeOK, Guarded, InPlace, Places, WholeFile
  <2>2. KeepsSaved
    BY ZenonT(30) DEF IInv, Guarded, Kept, SecondOf, Allowed, Unfinished, Stored, KeepsSaved
  <2> QED BY <2>1, <2>2
<1> QED BY <1>1, StorageInvariance, PTL

\* Any number of load_or_create calls give the same identity, unless one has
\* failed and there has been a crash.
THEOREM IdentityIsOne == Spec => []OneIdentity
<1>1. IInv => OneIdentity
  BY DEF IInv, HandedOut, OnlyCreate, OneIdentity
<1> QED BY <1>1, StorageInvariance, PTL

\* No step of save, load_or_create or replace_json, of calls that exclude each
\* other or not, makes the file disappear.
THEOREM FilesNeverVanish == Spec => NeverVanishes
<1> DEFINE Vanishing == dir.path # "none" /\ dir'.path = "none" =>
                          (\E s \in Calls : kind[s] = "remove") \/ crashes' # crashes
<1>1. IInv /\ [Next]_vars => [Vanishing]_vars
  <2> SUFFICES ASSUME IInv, Next PROVE Vanishing
    OBVIOUS
  <2>1. ASSUME NEW s \in Calls, Load(s) \/ WriteFirst(s) \/ WriteSecond(s) \/ SyncFile(s)
                                \/ RenameFails(s) \/ SyncParent(s) \/ Fails(s)
        PROVE  dir' = dir
    BY <2>1 DEF Load, WriteFirst, WriteSecond, SyncFile, RenameFails, SyncParent, Fails
  <2>2. ASSUME NEW s \in Calls, Open(s) PROVE dir'.path = dir.path
    BY <2>2 DEF Open, IInv, TypeOK
  <2>3. ASSUME NEW s \in Calls, Rename(s) PROVE dir'.path # "none"
    BY <2>3 DEF Rename, Renamed
  <2>4. ASSUME NEW s \in Calls, Remove(s) PROVE kind[s] = "remove"
    BY <2>4 DEF Remove, Start
  <2>5. Crash => crashes' # crashes
    BY DEF Crash, IInv
  <2> QED BY <2>1, <2>2, <2>3, <2>4, <2>5 DEF Next
<1> QED BY <1>1, StorageInvariance, PTL DEF Spec, NeverVanishes
===============================================================================
