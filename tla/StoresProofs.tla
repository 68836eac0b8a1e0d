---------------------------- MODULE StoresProofs ----------------------------
(***************************************************************************)
(* What holds of the publisher's repository and its watcher, whatever the  *)
(* tree of directories, and of the earlier implementation's product-store, *)
(* its receivers and its backlogger, whatever the products, remotes and    *)
(* their number.                                                           *)
(***************************************************************************)
EXTENDS PubRepo, Receiving, Backlog, ListsProofs, WellFoundedInduction

-----------------------------------------------------------------------------
(* The events that wait in inotify's queue or in the watcher's buffer, and *)
(* the tasks of the watcher.                                               *)
Queued == Elems(events) \cup Elems(buffer)
Tasks == Elems(todo)

(* The watcher will come to a directory, or is at work on it. *)
Awaited(d) ==
    \/ d # Root /\ At(Parent[d], d, "isdir") \in Queued
    \/ \E t \in Tasks : t.path = d

(* A directory that is not watched will be: it is awaited, or one above it *)
(* is.                                                                     *)
DirInv ==
    watcher # "failed" /\ ~Lost =>
        \A d \in Dir : dir[d] = "there" /\ d \notin kernel => \E a \in Up(d) : Awaited(a)

(* Nothing is published before the constructor returns, and its tasks are  *)
(* done by then.  Directories are watched and then listed, and nothing     *)
(* else.                                                                   *)
TaskInv ==
    /\ watcher = "starting" => \A f \in File : file[f] \notin {"closed", "link"}
    /\ watcher \in {"idle", "looping"} => \A t \in Tasks : t.add /\ t.path # Root
    /\ \A t \in Tasks : t.op \in {"watch", "list"} => t.path \in Dir
    /\ \A t \in Tasks : t.op = "list" => t.path \in kernel \/ dir[t.path] = "removed"

(* What exists is in a directory that exists, as does what is watched. *)
TreeInv ==
    /\ dir[Root] = "there"
    /\ \A d \in kernel : dir[d] = "there"
    /\ \A p \in (Dir \cup File) \ {Root} : Exists(p) => dir[Parent[p]] = "there"

(* The kernel's queue is not too long unless it has an event that ends the *)
(* watcher, and a new directory is reported by the one it is in.           *)
EventInv ==
    /\ (\A e \in Elems(events) : e.kind \notin Fatal) => Len(events) =< MaxEvents
    /\ \A e \in Queued : e.kind = "isdir" => e.name \in Dir \ {Root} /\ e.dir = Parent[e.name]

WatcherInv == WatcherTypeOK /\ TreeInv /\ EventInv /\ TaskInv /\ DirInv

(* An event or a task will lead to the file, or to a directory above it.   *)
Coming(f) ==
    \/ At(Parent[f], f, IF IsLink(f) THEN "create" ELSE "close_write") \in Queued
    \/ \E t \in Tasks : t.path = f /\ t.add
    \/ \E d \in Above(Parent[f]) :
          \/ At(Parent[d], d, "isdir") \in Queued
          \/ \E t \in Tasks : t.path = d /\ t.add

(* The file at hand is the one that has the index. *)
SenderInv ==
    /\ sender.at \in {"top", "getting"} => sender.file = NoFile
    /\ sender.at \in {"opened", "loop", "using"} => sender.file \in File
    /\ sender.at \in {"loop", "using"} => prodIndex # 0 /\ prodFiles[prodIndex] = sender.file
    /\ sender.at \in {"getting", "opened"} => prodIndex # 0

-----------------------------------------------------------------------------
(* What is above a directory. *)
LEMMA UpProperties ==
  ASSUME NEW d \in Dir
  PROVE  /\ d \in Up(d) /\ Up(d) \subseteq Dir
         /\ d # Root => Parent[d] \in Dir /\ Up(Parent[d]) \subseteq Up(d)
         /\ \A S \in SUBSET Dir : d \in S /\ HasParents(S) => Up(d) \subseteq S
<1>1. d \in Up(d) /\ Up(d) \subseteq Dir
  BY DEF Up
<1>2. \A S \in SUBSET Dir : d \in S /\ HasParents(S) => Up(d) \subseteq S
  BY DEF Up
<1>3. d # Root => Parent[d] \in Dir
  BY WatcherAssumption
<1>4. d # Root => Up(Parent[d]) \subseteq Up(d)
  BY <1>3 DEF Up, HasParents
<1>5. QED
  BY <1>1, <1>2, <1>3, <1>4

(* The directories above one have their parents among them. *)
LEMMA UpHasParents ==
  ASSUME NEW d \in Dir
  PROVE  HasParents(Up(d))
<1> SUFFICES ASSUME NEW a \in Up(d), a # Root PROVE Parent[a] \in Up(d)
  BY DEF HasParents
<1>1. a \in Dir /\ Parent[a] \in Dir
  BY WatcherAssumption DEF Up
<1>2. \A S \in SUBSET Dir : d \in S /\ HasParents(S) => Parent[a] \in S
  BY <1>1 DEF Up, HasParents
<1>3. QED
  BY <1>1, <1>2 DEF Up

(* Whatever is above a directory, and is not it, has a child that is it or *)
(* is above it.                                                            *)
LEMMA UpHasChild ==
  ASSUME NEW d \in Dir, NEW a \in Up(d), a # d
  PROVE  \E c \in Up(d) \ {Root} : Parent[c] = a
<1> DEFINE S == {d} \cup {Parent[c] : c \in Up(d) \ {Root}}
<1>1. S \subseteq Up(d)
  BY UpHasParents, UpProperties DEF HasParents
<1>2. HasParents(S)
  BY <1>1 DEF HasParents
<1>3. S \in SUBSET Dir /\ d \in S
  BY <1>1, UpProperties
<1> HIDE DEF S
<1>4. a \in S
  BY <1>2, <1>3, UpProperties
<1>5. QED
  BY <1>4 DEF S

(* Everything above a directory that exists does. *)
LEMMA UpExists ==
  ASSUME WatcherTypeOK, TreeInv, NEW d \in Dir, dir[d] = "there"
  PROVE  \A a \in Up(d) : dir[a] = "there"
<1> DEFINE S == {a \in Dir : dir[a] = "there"}
<1>1. HasParents(S)
  <2> SUFFICES ASSUME NEW a \in S, a # Root PROVE Parent[a] \in S
    BY DEF HasParents
  <2>1. Exists(a) /\ Parent[a] \in Dir
    BY WatcherAssumption DEF Exists
  <2>2. QED
    BY <2>1 DEF TreeInv
<1>2. QED
  BY <1>1, UpProperties

-----------------------------------------------------------------------------
(* An event that is queued joins the others; or the watcher will find out  *)
(* that one was lost.                                                      *)
LEMMA EnqueueGrows ==
  ASSUME events \in Seq(Event), NEW new \in Seq(Event), Enqueue(new),
         (\A e \in Elems(events) : e.kind \notin Fatal) => Len(events) =< MaxEvents
  PROVE  /\ events' \in Seq(Event) /\ Elems(events) \subseteq Elems(events')
         /\ Elems(events') \subseteq Elems(events) \cup Elems(new) \cup {At(Root, Root, "overflow")}
         /\ \/ Elems(new) \subseteq Elems(events')
            \/ \E e \in Elems(events') : e.kind \in Fatal
         /\ (\A e \in Elems(events') : e.kind \notin Fatal) => Len(events') =< MaxEvents
<1> DEFINE room == MaxEvents - Len(events)
           over == At(Root, Root, "overflow")
<1>1. /\ MaxEvents \in Nat /\ Len(events) \in Nat /\ Len(new) \in Nat
      /\ over \in Event /\ over.kind \in Fatal
  BY WatcherAssumption DEF Event, At, EventKind, Fatal
<1>2. CASE Len(new) =< room
  <2>1. events' = events \o new
    BY <1>2 DEF Enqueue
  <2>2. QED
    BY <1>1, <1>2, <2>1, ConcatElems
<1>3. CASE Len(new) > room /\ room < 0
  <2>1. events' = events
    BY <1>1, <1>3 DEF Enqueue
  <2>2. ~(Len(events) =< MaxEvents)
    BY <1>1, <1>3
  <2>3. QED
    BY <2>1, <2>2
<1>4. CASE Len(new) > room /\ room >= 0
  <2> DEFINE part == SubSeq(new, 1, room)
  <2>1. part \in Seq(Event) /\ Elems(part) \subseteq Elems(new)
    <3>1. room \in 0 .. Len(new)
      BY <1>1, <1>4
    <3>2. QED
      BY <3>1, PrefixElems
  <2>2. events' = events \o part \o <<over>>
    BY <1>1, <1>4 DEF Enqueue
  <2>3. <<over>> \in Seq(Event) /\ Elems(<<over>>) = {over}
    BY <1>1, ShortLists
  <2> HIDE DEF part, over
  <2>4. events \o part \in Seq(Event) /\ Elems(events \o part) = Elems(events) \cup Elems(part)
    BY <2>1, ConcatElems
  <2>5. events' \in Seq(Event) /\ Elems(events') = Elems(events) \cup Elems(part) \cup {over}
    <3> DEFINE first == events \o part
               last == <<over>>
    <3>1. first \in Seq(Event) /\ last \in Seq(Event) /\ events' = first \o last
      BY <2>2, <2>3, <2>4
    <3>2. Elems(first) = Elems(events) \cup Elems(part) /\ Elems(last) = {over}
      BY <2>3, <2>4
    <3> HIDE DEF first, last
    <3>3. first \o last \in Seq(Event) /\ Elems(first \o last) = Elems(first) \cup Elems(last)
      BY <3>1, ConcatElems
    <3>4. QED
      BY <3>1, <3>2, <3>3
  <2>6. QED
    BY <1>1, <2>1, <2>5 DEF over
<1>5. QED
  BY <1>1, <1>2, <1>3, <1>4

(* What the queues are for, when events are queued and nothing else. *)
LEMMA QueuedGrows ==
  ASSUME WatcherInv, NEW new \in Seq(Event), Enqueue(new), buffer' = buffer,
         \A e \in Elems(new) :
            e.kind = "isdir" => e.name \in Dir \ {Root} /\ e.dir = Parent[e.name]
  PROVE  /\ events' \in Seq(Event) /\ EventInv' /\ Queued \subseteq Queued'
         /\ Elems(new) \subseteq Queued' \/ Lost'
<1>1. /\ events' \in Seq(Event) /\ Elems(events) \subseteq Elems(events')
      /\ Elems(events') \subseteq Elems(events) \cup Elems(new) \cup {At(Root, Root, "overflow")}
      /\ \/ Elems(new) \subseteq Elems(events')
         \/ \E e \in Elems(events') : e.kind \in Fatal
      /\ (\A e \in Elems(events') : e.kind \notin Fatal) => Len(events') =< MaxEvents
  BY EnqueueGrows DEF WatcherInv, WatcherTypeOK, EventInv
<1>2. At(Root, Root, "overflow").kind # "isdir"
  BY DEF At
<1>3. QED
  BY <1>1, <1>2 DEF WatcherInv, EventInv, Queued, Lost

(* The same of an event on a directory's member. *)
LEMMA NotifyGrows ==
  ASSUME WatcherInv, buffer' = buffer,
         NEW p \in (Dir \cup File) \ {Root}, NEW kind \in EventKind, Notify(p, kind),
         kind = "isdir" => p \in Dir
  PROVE  /\ events' \in Seq(Event) /\ EventInv' /\ Queued \subseteq Queued'
         /\ Parent[p] \in kernel => At(Parent[p], p, kind) \in Queued' \/ Lost'
<1>1. CASE Parent[p] \in kernel
  <2> DEFINE e == At(Parent[p], p, kind)
  <2>1. e \in Event /\ e.kind = kind /\ e.name = p /\ e.dir = Parent[p]
    BY WatcherAssumption DEF At, Event
  <2>2. Enqueue(<<e>>)
    BY <1>1 DEF Notify
  <2> HIDE DEF e
  <2>3. <<e>> \in Seq(Event) /\ Elems(<<e>>) = {e}
    BY <2>1, ShortLists
  <2>4. QED
    BY <2>1, <2>2, <2>3, QueuedGrows DEF e
<1>2. CASE Parent[p] \notin kernel
  BY <1>2 DEF Notify, WatcherInv, WatcherTypeOK, EventInv, Queued
<1>3. QED
  BY <1>1, <1>2

(* Users do nothing to the watcher but cause events. *)
LEMMA UserGrows ==
  ASSUME WatcherInv, UserStep
  PROVE  /\ events' \in Seq(Event) /\ EventInv' /\ Queued \subseteq Queued'
         /\ UNCHANGED watcherVars
<1>1. ASSUME NEW f \in File, NEW from, NEW to, NEW kind \in EventKind \ {"isdir"},
             SetFile(f, from, to, kind)
      PROVE  /\ events' \in Seq(Event) /\ EventInv' /\ Queued \subseteq Queued'
             /\ UNCHANGED watcherVars
  <2>1. Notify(f, kind) /\ UNCHANGED watcherVars /\ f # Root
    BY <1>1, WatcherAssumption DEF SetFile
  <2>2. QED
    BY <2>1, NotifyGrows DEF watcherVars
<1>2. ASSUME NEW f \in File, CreateFile(f) \/ CloseFile(f) \/ MoveFileIn(f) \/ LinkFile(f)
      PROVE  /\ events' \in Seq(Event) /\ EventInv' /\ Queued \subseteq Queued'
             /\ UNCHANGED watcherVars
  BY <1>1, <1>2 DEF CreateFile, CloseFile, MoveFileIn, LinkFile, EventKind
<1>3. ASSUME NEW f \in File, RemoveFile(f)
      PROVE  /\ events' \in Seq(Event) /\ EventInv' /\ Queued \subseteq Queued'
             /\ UNCHANGED watcherVars
  BY <1>3 DEF RemoveFile, watcherVars, WatcherInv, WatcherTypeOK, EventInv, Queued
<1>4. ASSUME NEW d \in Dir \ {Root}, AddDir(d)
      PROVE  /\ events' \in Seq(Event) /\ EventInv' /\ Queued \subseteq Queued'
             /\ UNCHANGED watcherVars
  <2>1. Notify(d, "isdir") /\ UNCHANGED watcherVars /\ "isdir" \in EventKind
    BY <1>4 DEF AddDir, EventKind
  <2>2. QED
    BY <2>1, NotifyGrows DEF watcherVars
<1>5. ASSUME NEW d \in Dir \ {Root}, RemoveDir(d)
      PROVE  /\ events' \in Seq(Event) /\ EventInv' /\ Queued \subseteq Queued'
             /\ UNCHANGED watcherVars
  <2> DEFINE e == At(d, d, "delete_self")
             g == At(d, d, "ignored")
  <2>1. e \in Event /\ e.kind # "isdir" /\ g \in Event /\ g.kind # "isdir"
    BY DEF At, Event, EventKind
  <2>2. (d \in kernel /\ Enqueue(<<e, g>>)) \/ events' = events
    BY <1>5 DEF RemoveDir
  <2>3. UNCHANGED watcherVars
    BY <1>5 DEF RemoveDir
  <2> HIDE DEF e, g
  <2>4. <<e, g>> \in Seq(Event) /\ Elems(<<e, g>>) = {e, g}
    <3>1. \A x, y \in Event : <<x, y>> \in Seq(Event) /\ Elems(<<x, y>>) = {x, y}
      BY ShortLists
    <3>2. QED
      BY <2>1, <3>1
  <2>5. CASE Enqueue(<<e, g>>)
    BY <2>1, <2>3, <2>4, <2>5, QueuedGrows DEF watcherVars
  <2>6. CASE events' = events
    BY <2>3, <2>6 DEF watcherVars, WatcherInv, WatcherTypeOK, EventInv, Queued
  <2>7. QED
    BY <2>2, <2>5, <2>6
<1>6. ASSUME Unmount
      PROVE  /\ events' \in Seq(Event) /\ EventInv' /\ Queued \subseteq Queued'
             /\ UNCHANGED watcherVars
  <2> DEFINE e == At(Root, Root, "unmount")
  <2>1. e \in Event /\ e.kind # "isdir"
    BY WatcherAssumption DEF At, Event, EventKind, Fatal
  <2>2. Enqueue(<<e>>) /\ UNCHANGED watcherVars
    BY <1>6 DEF Unmount
  <2> HIDE DEF e
  <2>3. <<e>> \in Seq(Event) /\ Elems(<<e>>) = {e}
    BY <2>1, ShortLists
  <2>4. QED
    BY <2>1, <2>2, <2>3, QueuedGrows DEF watcherVars
<1>7. QED
  BY <1>2, <1>3, <1>4, <1>5, <1>6 DEF UserStep

(* What users do to files and directories: nothing that is closed or a     *)
(* link changes unless it is removed, and what is there has been made.     *)
LEMMA UserTypes ==
  ASSUME WatcherInv, UserStep
  PROVE  WatcherTypeOK' /\ TreeInv' /\ TaskInv'
<1>1. UNCHANGED watcherVars /\ events' \in Seq(Event)
  BY UserGrows
<1>2. ASSUME NEW f \in File, NEW from \in FileState, NEW to \in FileState, NEW kind,
             to \notin {"unborn", "removed"}, watcher = "starting" => to \notin {"closed", "link"},
             SetFile(f, from, to, kind)
      PROVE  WatcherTypeOK' /\ TreeInv' /\ TaskInv'
  BY <1>1, <1>2, WatcherAssumption
  DEF WatcherInv, WatcherTypeOK, TreeInv, TaskInv, SetFile, watcherVars, Exists, Tasks
<1>3. ASSUME NEW f \in File, CreateFile(f) \/ CloseFile(f) \/ MoveFileIn(f) \/ LinkFile(f)
      PROVE  WatcherTypeOK' /\ TreeInv' /\ TaskInv'
  <2>1. PICK from \in FileState, to \in FileState, kind \in EventKind :
           /\ to \notin {"unborn", "removed"}
           /\ watcher = "starting" => to \notin {"closed", "link"}
           /\ SetFile(f, from, to, kind)
    <3>1. CASE CreateFile(f)
      BY <3>1 DEF CreateFile, FileState, EventKind
    <3>2. CASE CloseFile(f)
      BY <3>2 DEF CloseFile, FileState, New, EventKind
    <3>3. CASE MoveFileIn(f)
      BY <3>3 DEF MoveFileIn, FileState, New, EventKind
    <3>4. CASE LinkFile(f)
      BY <3>4 DEF LinkFile, FileState, New, EventKind
    <3>5. QED
      BY <1>3, <3>1, <3>2, <3>3, <3>4
  <2>2. QED
    BY <1>2, <2>1
<1>4. ASSUME NEW f \in File, RemoveFile(f)
      PROVE  WatcherTypeOK' /\ TreeInv' /\ TaskInv'
  BY <1>1, <1>4, WatcherAssumption
  DEF WatcherInv, WatcherTypeOK, TreeInv, TaskInv, RemoveFile, watcherVars, Exists, Tasks, FileState
<1>5. ASSUME NEW d \in Dir \ {Root}, AddDir(d)
      PROVE  WatcherTypeOK' /\ TreeInv' /\ TaskInv'
  <2>1. New("closed") \in FileState /\ (watcher = "starting" => New("closed") = "old")
    BY DEF New, FileState
  <2>2. file' = file \/ file' = [f \in File |-> IF Parent[f] = d THEN New("closed") ELSE file[f]]
    BY <1>5 DEF AddDir
  <2>3. file' \in [File -> FileState] /\ dir' = [dir EXCEPT ![d] = "there"]
    BY <1>5, <2>1, <2>2 DEF AddDir, WatcherInv, WatcherTypeOK
  <2>4. WatcherTypeOK'
    BY <1>1, <1>5, <2>3 DEF AddDir, WatcherInv, WatcherTypeOK, watcherVars, DirState
  <2>5. TaskInv'
    <3>1. /\ kernel' = kernel /\ dir[d] = "unborn"
          /\ \A e \in Dir : dir[e] = "removed" => dir'[e] = "removed"
      BY <1>5, <2>3 DEF AddDir, WatcherInv, WatcherTypeOK
    <3>2. QED
      BY <1>1, <2>1, <2>2, <3>1 DEF WatcherInv, TaskInv, watcherVars, Tasks
  <2>6. TreeInv'
    <3>1. Exists(Parent[d])
      BY <1>5 DEF AddDir
    <3>2. \A e \in Dir : dir[e] = "there" => dir'[e] = "there"
      BY <2>3 DEF WatcherInv, WatcherTypeOK
    <3>3. dir'[d] = "there" /\ \A e \in Dir \ {d} : dir'[e] = dir[e]
      BY <2>3 DEF WatcherInv, WatcherTypeOK
    <3>4. ASSUME NEW p \in (Dir \cup File) \ {Root}, Exists(p)' PROVE dir'[Parent[p]] = "there"
      <4>1. Parent[p] \in Dir
        BY WatcherAssumption
      <4>2. CASE p = d
        BY <3>1, <3>2, <4>1, <4>2 DEF Exists
      <4>3. CASE p \in Dir \ {d}
        BY <3>2, <3>3, <3>4, <4>1, <4>3 DEF Exists, WatcherInv, TreeInv
      <4>4. CASE p \in File /\ Parent[p] # d
        <5>1. file'[p] = file[p] /\ p \notin Dir
          BY <2>2, <4>4, WatcherAssumption
        <5>2. QED
          BY <3>2, <3>4, <4>1, <4>4, <5>1 DEF Exists, WatcherInv, TreeInv
      <4>5. CASE Parent[p] = d
        BY <3>3, <4>5
      <4>6. QED
        BY <4>2, <4>3, <4>4, <4>5
    <3>5. kernel' = kernel /\ kernel \subseteq Dir
      BY <1>5 DEF AddDir, WatcherInv, WatcherTypeOK
    <3>6. QED
      BY <3>2, <3>4, <3>5, WatcherAssumption DEF WatcherInv, TreeInv
  <2>7. QED
    BY <2>4, <2>5, <2>6
<1>6. ASSUME NEW d \in Dir \ {Root}, RemoveDir(d)
      PROVE  WatcherTypeOK' /\ TreeInv' /\ TaskInv'
  <2>1. /\ dir' = [dir EXCEPT ![d] = "removed"] /\ file' = file /\ kernel' \subseteq Dir
        /\ \A p \in DOMAIN Parent : Parent[p] = d => ~Exists(p)
    BY <1>6 DEF RemoveDir, Entries, WatcherInv, WatcherTypeOK
  <2>2. WatcherTypeOK' /\ TaskInv'
    <3>1. WatcherTypeOK'
      BY <1>1, <2>1 DEF WatcherInv, WatcherTypeOK, watcherVars, DirState
    <3>2. /\ kernel' = kernel \ {d} /\ dir'[d] = "removed"
          /\ \A e \in Dir : dir[e] = "removed" => dir'[e] = "removed"
      BY <1>6, <2>1 DEF RemoveDir, WatcherInv, WatcherTypeOK
    <3>3. QED
      BY <1>1, <2>1, <3>1, <3>2 DEF WatcherInv, TaskInv, watcherVars, Tasks
  <2>3. dir' \in [Dir -> DirState] /\ \A e \in Dir : dir'[e] = IF e = d THEN "removed" ELSE dir[e]
    BY <2>1, <2>2 DEF WatcherInv, WatcherTypeOK
  <2>4. ASSUME NEW p \in (Dir \cup File) \ {Root}, Exists(p)' PROVE dir'[Parent[p]] = "there"
    <3>1. Parent[p] \in Dir /\ p \in DOMAIN Parent
      BY WatcherAssumption
    <3>2. Exists(p)
      BY <2>1, <2>3, <2>4 DEF Exists
    <3>3. QED
      BY <2>1, <2>3, <3>1, <3>2 DEF WatcherInv, TreeInv
  <2>5. kernel' = kernel \ {d} /\ kernel \subseteq Dir
    BY <1>6 DEF RemoveDir, WatcherInv, WatcherTypeOK
  <2>6. QED
    BY <2>2, <2>3, <2>4, <2>5, WatcherAssumption DEF WatcherInv, TreeInv
<1>7. ASSUME Unmount
      PROVE  WatcherTypeOK' /\ TreeInv' /\ TaskInv'
  BY <1>1, <1>7 DEF Unmount, WatcherInv, WatcherTypeOK, TreeInv, TaskInv, Exists, watcherVars, Tasks
<1>8. QED
  BY <1>3, <1>4, <1>5, <1>6, <1>7 DEF UserStep

(* What was awaited while users act still is. *)
LEMMA UserDirInv ==
  ASSUME WatcherInv, UserStep
  PROVE  DirInv'
<1>1. Queued \subseteq Queued' /\ UNCHANGED watcherVars /\ (Lost => Lost')
  BY UserGrows DEF Queued, Lost, watcherVars
<1>2. \A a \in Dir : Awaited(a) => Awaited(a)'
  BY <1>1 DEF Awaited, watcherVars, Tasks
<1> SUFFICES ASSUME watcher # "failed", ~Lost', NEW d \in Dir, dir'[d] = "there", d \notin kernel'
             PROVE  \E a \in Up(d) : Awaited(a)'
  BY <1>1 DEF DirInv, watcherVars
<1>3. CASE dir[d] = "there" /\ d \notin kernel
  BY <1>1, <1>2, <1>3, UpProperties DEF WatcherInv, DirInv
<1>4. CASE dir[d] # "there" \/ d \in kernel
  <2>1. PICK c \in Dir \ {Root} : (AddDir(c) \/ RemoveDir(c)) /\ c = d
    BY <1>4 DEF UserStep, WatcherInv, WatcherTypeOK, AddDir, RemoveDir, CreateFile, CloseFile,
       MoveFileIn, LinkFile, SetFile, RemoveFile, Unmount
  <2>2. AddDir(d) /\ d # Root
    BY <2>1 DEF RemoveDir, WatcherInv, WatcherTypeOK
  <2>3. Parent[d] \in Dir /\ dir[Parent[d]] = "there"
    BY <2>2, WatcherAssumption DEF AddDir, Exists
  <2>4. CASE Parent[d] \in kernel
    <3>1. At(Parent[d], d, "isdir") \in Queued'
      <4>1. Notify(d, "isdir") /\ "isdir" \in EventKind /\ buffer' = buffer
        BY <1>1, <2>2 DEF AddDir, EventKind, watcherVars
      <4>2. QED
        BY <2>2, <2>4, <4>1, NotifyGrows
    <3>2. QED
      BY <2>2, <3>1, UpProperties DEF Awaited
  <2>5. CASE Parent[d] \notin kernel
    <3>1. PICK a \in Up(Parent[d]) : Awaited(a)
      BY <1>1, <2>3, <2>5 DEF WatcherInv, DirInv
    <3>2. a \in Up(d) /\ a \in Dir
      BY <2>2, <2>3, UpProperties
    <3>3. QED
      BY <1>2, <3>1, <3>2
  <2>6. QED
    BY <2>4, <2>5
<1>5. QED
  BY <1>3, <1>4

-----------------------------------------------------------------------------
(* A task at its next stage. *)
LEMMA TaskAtStage ==
  ASSUME NEW t \in Task, NEW op \in {"watch", "list", "entry"}
  PROVE  /\ [t EXCEPT !.op = op] \in Task
         /\ [t EXCEPT !.op = op].op = op /\ [t EXCEPT !.op = op].path = t.path
         /\ [t EXCEPT !.op = op].add = t.add
BY DEF Task

(* The tasks when the first one is replaced. *)
LEMMA TasksReplaced ==
  ASSUME todo \in Seq(Task), todo # <<>>, NEW new \in Seq(Task), todo' = new \o Tail(todo)
  PROVE  /\ todo' \in Seq(Task) /\ Head(todo) \in Task /\ Head(todo) \in Tasks
         /\ Tasks' = Elems(new) \cup Elems(Tail(todo))
         /\ Tasks = {Head(todo)} \cup Elems(Tail(todo))
<1> DEFINE rest == Tail(todo)
<1>1. /\ Head(todo) \in Task /\ rest \in Seq(Task) /\ Head(todo) \in Elems(todo)
      /\ Elems(todo) = {Head(todo)} \cup Elems(rest)
  BY HeadTailElems
<1> HIDE DEF rest
<1>2. new \o rest \in Seq(Task) /\ Elems(new \o rest) = Elems(new) \cup Elems(rest)
  BY <1>1, ConcatElems
<1>3. todo' = new \o rest
  BY DEF rest
<1>4. QED
  BY <1>1, <1>2, <1>3 DEF Tasks, rest

(* watch() registers its watch: the directory is still awaited, until it   *)
(* has been listed.                                                        *)
LEMMA AddWatchInv ==
  ASSUME WatcherInv, AddWatch
  PROVE  WatcherInv'
<1> DEFINE d == Head(todo).path
           next == [Head(todo) EXCEPT !.op = "list"]
<1>1. CASE Fails
  BY <1>1 DEF Fails, fsVars, WatcherInv, WatcherTypeOK, TreeInv, EventInv, TaskInv, DirInv,
     Exists, Tasks, Queued
<1>2. CASE ~Fails
  <2>1. /\ todo # <<>> /\ Head(todo).op = "watch" /\ Exists(d)
        /\ kernel' = kernel \cup {d} /\ dirPaths' = dirPaths \cup {d}
        /\ todo' = <<next>> \o Tail(todo)
        /\ UNCHANGED <<dir, file, events, buffer, regFiles, watcher>>
    BY <1>2 DEF AddWatch
  <2>2. todo \in Seq(Task) /\ Head(todo) \in Task /\ Head(todo) \in Tasks
    BY <2>1, HeadTailElems DEF WatcherInv, WatcherTypeOK, Tasks
  <2>3. next \in Task /\ next.op = "list" /\ next.path = d /\ next.add = Head(todo).add
    BY <2>2, TaskAtStage
  <2>4. <<next>> \in Seq(Task) /\ Elems(<<next>>) = {next}
    BY <2>3, ShortLists
  <2>5. d \in Dir
    BY <2>1, <2>2 DEF WatcherInv, TaskInv
  <2> HIDE DEF next
  <2>6. /\ todo' \in Seq(Task)
        /\ Tasks' = {next} \cup Elems(Tail(todo)) /\ Tasks = {Head(todo)} \cup Elems(Tail(todo))
    BY <2>1, <2>2, <2>4, TasksReplaced
  <2>7. WatcherTypeOK' /\ TreeInv' /\ EventInv'
    BY <2>1, <2>5, <2>6 DEF WatcherInv, WatcherTypeOK, TreeInv, EventInv, Exists, Queued
  <2>8. TaskInv'
    BY <2>1, <2>3, <2>5, <2>6 DEF WatcherInv, TaskInv
  <2>9. \A a \in Dir : Awaited(a) => Awaited(a)'
    BY <2>1, <2>3, <2>6 DEF Awaited, Queued
  <2>10. DirInv'
    BY <2>1, <2>9, UpProperties DEF WatcherInv, DirInv, Lost
  <2>11. QED
    BY <2>7, <2>8, <2>10 DEF WatcherInv
<1>3. QED
  BY <1>1, <1>2

(* A directory is listed: it is no longer at the head of the tasks, and    *)
(* its entries are.                                                        *)
LEMMA ReadDirTasks ==
  ASSUME WatcherInv, ReadDir, ~Fails
  PROVE  LET d == Head(todo).path IN
         /\ d \in Dir /\ dir[d] = "there" /\ d \in kernel
         /\ Entries(d) \subseteq (Dir \cup File) \ {Root}
         /\ todo' \in Seq(Task) /\ Head(todo) \in Tasks
         /\ \A t \in Tasks : t # Head(todo) => t \in Tasks'
         /\ \A t \in Tasks' : \/ t \in Tasks
                              \/ t.op = "entry" /\ t.add = Head(todo).add /\ t.path \in Entries(d)
         /\ \A q \in Entries(d) : \E t \in Tasks' : t.path = q /\ t.add = Head(todo).add
         /\ UNCHANGED <<fsVars, dirPaths, buffer, regFiles, watcher>>
<1> DEFINE d == Head(todo).path
<1>1. /\ todo # <<>> /\ Head(todo).op = "list" /\ Exists(d)
      /\ UNCHANGED <<fsVars, dirPaths, buffer, regFiles, watcher>>
  BY DEF ReadDir
<1>2. PICK names \in [1..Cardinality(Entries(d)) -> Entries(d)] :
         /\ Elems(names) = Entries(d)
         /\ todo' = [i \in DOMAIN names |->
                [op |-> "entry", path |-> names[i], add |-> Head(todo).add]] \o Tail(todo)
  BY DEF ReadDir
<1>3. /\ todo \in Seq(Task) /\ Head(todo) \in Task /\ Head(todo) \in Tasks
      /\ Head(todo).add \in BOOLEAN
  <2>1. todo \in Seq(Task) /\ Head(todo) \in Task /\ Head(todo) \in Tasks
    BY <1>1, HeadTailElems DEF WatcherInv, WatcherTypeOK, Tasks
  <2>2. QED
    BY <2>1 DEF Task
<1>4. d \in Dir /\ dir[d] = "there" /\ d \in kernel
  BY <1>1, <1>3 DEF WatcherInv, TaskInv, Exists
<1>5. Cardinality(Entries(d)) \in Nat /\ Entries(d) \subseteq Dir \cup File
  <2>1. Entries(d) \in SUBSET {path \in DOMAIN Parent : Parent[path] = d}
    BY DEF Entries
  <2>2. IsFiniteSet(Entries(d))
    BY <1>4, <2>1, WatcherAssumption, FS_Subset
  <2>3. QED
    BY <2>1, <2>2, FS_CardinalityType, WatcherAssumption
<1> DEFINE new == [i \in DOMAIN names |->
                [op |-> "entry", path |-> names[i], add |-> Head(todo).add]]
<1>6. /\ new \in Seq(Task)
      /\ \A t \in Elems(new) : t.op = "entry" /\ t.add = Head(todo).add /\ t.path \in Entries(d)
      /\ \A p \in Entries(d) : \E t \in Elems(new) : t.path = p
  <2> DEFINE D == Entries(d)
             n == Cardinality(Entries(d))
             add == Head(todo).add
  <2>1. D \subseteq Dir \cup File /\ n \in Nat /\ names \in [1..n -> D] /\ add \in BOOLEAN
    BY <1>2, <1>3, <1>5
  <2>2. Elems(names) = D
    BY <1>2
  <2>3. /\ new \in [1..n -> Task]
        /\ \A i \in 1..n : new[i] = [op |-> "entry", path |-> names[i], add |-> add]
    BY <2>1 DEF Task
  <2> HIDE DEF new, D, n, add
  <2>4. /\ new \in Seq(Task)
        /\ \A t \in Elems(new) : t.op = "entry" /\ t.add = add /\ t.path \in Elems(names)
        /\ \A p \in Elems(names) : \E t \in Elems(new) : t.path = p
    <3>1. /\ DOMAIN names = 1..n /\ DOMAIN new = 1..n
          /\ \A i \in 1..n : new[i].op = "entry" /\ new[i].path = names[i] /\ new[i].add = add
      BY <2>1, <2>3
    <3>2. new \in Seq(Task)
      BY <2>1, <2>3
    <3>3. QED
      BY <3>1, <3>2 DEF Elems
  <2>5. QED
    BY <2>2, <2>4 DEF D, add
<1>7. todo' = new \o Tail(todo)
  BY <1>2
<1> HIDE DEF new
<1>8. /\ todo' \in Seq(Task)
      /\ Tasks' = Elems(new) \cup Elems(Tail(todo)) /\ Tasks = {Head(todo)} \cup Elems(Tail(todo))
  BY <1>1, <1>3, <1>6, <1>7, TasksReplaced
<1>9. Entries(d) \subseteq (Dir \cup File) \ {Root}
  BY WatcherAssumption DEF Entries
<1>10. QED
  BY <1>1, <1>3, <1>4, <1>6, <1>8, <1>9

(* A directory is listed: the one above another that is not watched gives  *)
(* way to the next below it.                                               *)
LEMMA ReadDirInv ==
  ASSUME WatcherInv, ReadDir
  PROVE  WatcherInv'
<1> DEFINE d == Head(todo).path
<1>1. CASE Fails
  BY <1>1 DEF Fails, fsVars, WatcherInv, WatcherTypeOK, TreeInv, EventInv, TaskInv, DirInv,
     Exists, Tasks, Queued
<1>2. CASE ~Fails
  <2>1. /\ d \in Dir /\ dir[d] = "there" /\ d \in kernel
        /\ Entries(d) \subseteq (Dir \cup File) \ {Root}
        /\ todo' \in Seq(Task) /\ Head(todo) \in Tasks
    BY <1>2, ReadDirTasks
  <2>2. /\ \A t \in Tasks : t # Head(todo) => t \in Tasks'
        /\ \A t \in Tasks' : \/ t \in Tasks
                             \/ t.op = "entry" /\ t.add = Head(todo).add /\ t.path \in Entries(d)
        /\ \A q \in Entries(d) : \E t \in Tasks' : t.path = q /\ t.add = Head(todo).add
    BY <1>2, ReadDirTasks
  <2>3. UNCHANGED <<fsVars, dirPaths, buffer, regFiles, watcher>>
    BY <1>2, ReadDirTasks
  <2>4. WatcherTypeOK' /\ TreeInv' /\ EventInv'
    BY <2>1, <2>3 DEF WatcherInv, WatcherTypeOK, TreeInv, EventInv, Exists, Queued, fsVars
  <2>5. TaskInv'
    BY <2>1, <2>2, <2>3 DEF WatcherInv, TaskInv, fsVars
  <2>6. \A a \in Dir \ {d} : Awaited(a) => Awaited(a)'
    BY <2>2, <2>3 DEF Awaited, Queued, fsVars
  <2>7. \A q \in Entries(d) : Awaited(q)'
    BY <2>2 DEF Awaited
  <2>8. DirInv'
    <3> SUFFICES ASSUME watcher # "failed", ~Lost, NEW x \in Dir, dir[x] = "there", x \notin kernel
                 PROVE  \E a \in Up(x) : Awaited(a)'
      BY <2>3 DEF DirInv, Lost, fsVars
    <3>1. PICK a \in Up(x) : Awaited(a)
      BY DEF WatcherInv, DirInv
    <3>2. CASE a # d
      BY <2>6, <3>1, <3>2, UpProperties
    <3>3. CASE a = d
      <4>1. PICK c \in Up(x) \ {Root} : Parent[c] = d
        BY <2>1, <3>1, <3>3, UpHasChild
      <4>2. c \in Dir /\ dir[c] = "there"
        BY <4>1, UpProperties, UpExists DEF WatcherInv
      <4>3. c \in Entries(d)
        BY <4>1, <4>2, WatcherAssumption DEF Entries, Exists
      <4>4. QED
        BY <2>7, <4>1, <4>3
    <3>4. QED
      BY <3>2, <3>3
  <2>9. QED
    BY <2>4, <2>5, <2>8 DEF WatcherInv
<1>3. QED
  BY <1>1, <1>2

(* An entry is looked at: a directory will be watched. *)
LEMMA VisitEntryInv ==
  ASSUME WatcherInv, VisitEntry
  PROVE  WatcherInv'
<1> DEFINE e == Head(todo)
<1>1. CASE Fails
  BY <1>1 DEF Fails, fsVars, WatcherInv, WatcherTypeOK, TreeInv, EventInv, TaskInv, DirInv,
     Exists, Tasks, Queued
<1>2. CASE ~Fails
  <2>1. /\ todo # <<>> /\ e.op = "entry" /\ Exists(e.path)
        /\ UNCHANGED <<fsVars, dirPaths, buffer, watcher>>
    BY <1>2 DEF VisitEntry
  <2>2. /\ todo \in Seq(Task) /\ e \in Task /\ e \in Tasks /\ Tail(todo) \in Seq(Task)
        /\ Tasks = {e} \cup Elems(Tail(todo)) /\ e.path \in Dir \cup File
    <3>1. /\ todo \in Seq(Task) /\ e \in Task /\ e \in Tasks /\ Tail(todo) \in Seq(Task)
          /\ Tasks = {e} \cup Elems(Tail(todo))
      BY <2>1, HeadTailElems DEF WatcherInv, WatcherTypeOK, Tasks
    <3>2. QED
      BY <3>1 DEF Task
  <2>3. CASE e.path \in Dir
    <3> DEFINE next == [e EXCEPT !.op = "watch"]
    <3>1. todo' = <<next>> \o Tail(todo) /\ regFiles' = regFiles
      BY <1>2, <2>3 DEF VisitEntry
    <3>2. next \in Task /\ next.op = "watch" /\ next.path = e.path /\ next.add = e.add
      BY <2>2, TaskAtStage
    <3>3. <<next>> \in Seq(Task) /\ Elems(<<next>>) = {next}
      BY <3>2, ShortLists
    <3> HIDE DEF next
    <3>4. todo' \in Seq(Task) /\ Tasks' = {next} \cup Elems(Tail(todo))
      BY <2>1, <2>2, <3>1, <3>3, TasksReplaced
    <3>5. WatcherTypeOK' /\ TreeInv' /\ EventInv'
      BY <2>1, <3>1, <3>4 DEF WatcherInv, WatcherTypeOK, TreeInv, EventInv, Exists, Queued, fsVars
    <3>6. TaskInv'
      BY <2>1, <2>2, <2>3, <3>2, <3>4 DEF WatcherInv, TaskInv, fsVars
    <3>7. \A a \in Dir : Awaited(a) => Awaited(a)'
      BY <2>1, <2>2, <3>2, <3>4 DEF Awaited, Queued, fsVars
    <3>8. DirInv'
      BY <2>1, <3>7, UpProperties DEF WatcherInv, DirInv, Lost, fsVars
    <3>9. QED
      BY <3>5, <3>6, <3>8 DEF WatcherInv
  <2>4. CASE e.path \notin Dir
    <3>1. /\ todo' = Tail(todo) /\ e.path \in File
          /\ regFiles' = IF e.add THEN Append(regFiles, e.path) ELSE regFiles
      BY <1>2, <2>2, <2>4 DEF VisitEntry
    <3>2. Tasks' = Elems(Tail(todo))
      BY <3>1 DEF Tasks
    <3>3. regFiles' \in Seq(File)
      BY <3>1, AppendElems DEF WatcherInv, WatcherTypeOK
    <3>4. WatcherTypeOK' /\ TreeInv' /\ EventInv'
      BY <2>1, <2>2, <3>1, <3>3
      DEF WatcherInv, WatcherTypeOK, TreeInv, EventInv, Exists, Queued, fsVars
    <3>5. TaskInv'
      BY <2>1, <2>2, <3>2 DEF WatcherInv, TaskInv, fsVars
    <3>6. \A a \in Dir : Awaited(a) => Awaited(a)'
      BY <2>1, <2>2, <2>4, <3>2 DEF Awaited, Queued, fsVars
    <3>7. DirInv'
      BY <2>1, <3>6, UpProperties DEF WatcherInv, DirInv, Lost, fsVars
    <3>8. QED
      BY <3>4, <3>5, <3>7 DEF WatcherInv
  <2>5. QED
    BY <2>3, <2>4
<1>3. QED
  BY <1>1, <1>2

(* The events are read.  The constructor returns, or getEvent() does. *)
LEMMA OtherStepsInv ==
  ASSUME WatcherInv,
         ConstructorReturns \/ ReadEvents \/ CallGetEvent \/ \E f \in File : ReturnEvent(f)
  PROVE  WatcherInv'
<1>1. CASE ReadEvents
  <2>1. /\ events' = <<>> /\ buffer' = events /\ Queued' = Queued /\ Len(events') = 0
        /\ UNCHANGED <<dir, file, kernel, dirPaths, todo, regFiles, watcher>>
    <3>1. buffer = <<>> /\ events' = <<>> /\ Elems(<<>>) = {}
      BY <1>1 DEF ReadEvents, Elems
    <3>2. QED
      BY <1>1, <3>1 DEF ReadEvents, Queued
  <2>2. WatcherTypeOK' /\ TreeInv'
    BY <2>1 DEF WatcherInv, WatcherTypeOK, TreeInv, Exists
  <2>3. EventInv'
    BY <2>1, WatcherAssumption DEF WatcherInv, EventInv
  <2>4. TaskInv' /\ (Lost => Lost')
    BY <2>1 DEF WatcherInv, TaskInv, Tasks, Lost, Queued
  <2>5. DirInv'
    BY <2>1, <2>4 DEF WatcherInv, DirInv, Awaited, Tasks
  <2>6. QED
    BY <2>2, <2>3, <2>4, <2>5 DEF WatcherInv
<1>2. CASE ConstructorReturns \/ CallGetEvent \/ \E f \in File : ReturnEvent(f)
  <2>1. /\ UNCHANGED <<dir, file, kernel, events, dirPaths, buffer, todo>>
        /\ watcher # "failed" /\ watcher' \in {"idle", "looping"} /\ regFiles' \in Seq(File)
        /\ watcher = "starting" => todo = <<>>
    <3>1. CASE ConstructorReturns
      BY <3>1 DEF ConstructorReturns, fsVars, WatcherInv, WatcherTypeOK
    <3>2. CASE CallGetEvent
      BY <3>2 DEF CallGetEvent, fsVars, WatcherInv, WatcherTypeOK
    <3>3. CASE \E f \in File : ReturnEvent(f)
      BY <3>3, HeadTailElems DEF ReturnEvent, fsVars, WatcherInv, WatcherTypeOK
    <3>4. QED
      BY <1>2, <3>1, <3>2, <3>3
  <2>2. WatcherTypeOK' /\ TreeInv' /\ EventInv' /\ DirInv'
    BY <2>1
    DEF WatcherInv, WatcherTypeOK, TreeInv, EventInv, DirInv, Exists, Queued, Lost, Awaited, Tasks
  <2>3. TaskInv'
    <3>1. todo = <<>> => Tasks = {}
      BY DEF Tasks, Elems
    <3>2. watcher \in {"idle", "looping"} \/ Tasks = {}
      BY <2>1, <3>1 DEF WatcherInv, WatcherTypeOK
    <3>3. Tasks' = Tasks
      BY <2>1 DEF Tasks
    <3>4. QED
      BY <2>1, <3>2, <3>3 DEF WatcherInv, TaskInv
  <2>4. QED
    BY <2>2, <2>3 DEF WatcherInv
<1>3. QED
  BY <1>1, <1>2

(* An event is processed: a new directory will be watched. *)
LEMMA ProcessEventInv ==
  ASSUME WatcherInv, ProcessEvent
  PROVE  WatcherInv'
<1> DEFINE e == Head(buffer)
<1>1. CASE Fails
  BY <1>1 DEF Fails, fsVars, WatcherInv, WatcherTypeOK, TreeInv, EventInv, TaskInv, DirInv,
     Exists, Tasks, Queued
<1>2. CASE ~Fails
  <2>1. /\ buffer # <<>> /\ todo = <<>> /\ watcher = "looping" /\ e.kind \notin Fatal
        /\ buffer' = Tail(buffer)
        /\ dirPaths' = IF e.kind = "delete_self" THEN dirPaths \ {e.dir} ELSE dirPaths
        /\ todo' = IF e.kind = "isdir"
                   THEN <<[op |-> "watch", path |-> e.name, add |-> TRUE]>> ELSE <<>>
        /\ regFiles' = IF /\ e.name \in File
                          /\ e.kind = IF IsLink(e.name) THEN "create" ELSE "close_write"
                       THEN Append(regFiles, e.name) ELSE regFiles
        /\ UNCHANGED <<dir, file, kernel, events, watcher>>
    BY <1>2 DEF ProcessEvent, fsVars
  <2>2. /\ buffer \in Seq(Event) /\ e \in Event /\ e \in Queued /\ Tail(buffer) \in Seq(Event)
        /\ Elems(buffer) = {e} \cup Elems(Tail(buffer))
    BY <2>1, HeadTailElems DEF WatcherInv, WatcherTypeOK, Queued
  <2>3. Queued = {e} \cup Queued'
    BY <2>1, <2>2 DEF Queued
  <2>4. Lost => Lost'
    BY <2>1, <2>2 DEF Lost
  <2>5. Tasks = {}
    BY <2>1 DEF Tasks, Elems
  <2>6. regFiles' \in Seq(File)
    BY <2>1, AppendElems DEF WatcherInv, WatcherTypeOK
  <2>7. CASE e.kind = "isdir"
    <3> DEFINE t == [op |-> "watch", path |-> e.name, add |-> TRUE]
    <3>1. e.name \in Dir \ {Root} /\ e.dir = Parent[e.name]
      BY <2>2, <2>7 DEF WatcherInv, EventInv
    <3>2. t \in Task /\ t.op = "watch" /\ t.path = e.name /\ t.add
      BY <3>1 DEF Task
    <3>3. todo' = <<t>>
      BY <2>1, <2>7
    <3> HIDE DEF t
    <3>4. <<t>> \in Seq(Task) /\ Elems(<<t>>) = {t}
      BY <3>2, ShortLists
    <3>5. todo' \in Seq(Task) /\ Tasks' = {t}
      BY <3>3, <3>4 DEF Tasks
    <3>6. WatcherTypeOK' /\ TreeInv' /\ EventInv'
      BY <2>1, <2>2, <2>3, <2>6, <3>5 DEF WatcherInv, WatcherTypeOK, TreeInv, EventInv, Exists
    <3>7. TaskInv'
      BY <2>1, <3>1, <3>2, <3>5 DEF WatcherInv, TaskInv
    <3>8. \A a \in Dir : Awaited(a) => Awaited(a)'
      <4> SUFFICES ASSUME NEW a \in Dir, Awaited(a) PROVE Awaited(a)'
        OBVIOUS
      <4>1. a # Root /\ At(Parent[a], a, "isdir") \in Queued
        BY <2>5 DEF Awaited
      <4>2. CASE At(Parent[a], a, "isdir") = e
        <5>1. e.name = a
          BY <4>2 DEF At
        <5>2. QED
          BY <3>2, <3>5, <5>1 DEF Awaited
      <4>3. CASE At(Parent[a], a, "isdir") # e
        BY <2>3, <4>1, <4>3 DEF Awaited
      <4>4. QED
        BY <4>2, <4>3
    <3>9. DirInv'
      BY <2>1, <2>4, <3>8, UpProperties DEF WatcherInv, DirInv
    <3>10. QED
      BY <3>6, <3>7, <3>9 DEF WatcherInv
  <2>8. CASE e.kind # "isdir"
    <3>1. todo' = <<>> /\ Tasks' = {}
      BY <2>1, <2>8 DEF Tasks, Elems
    <3>2. WatcherTypeOK' /\ TreeInv' /\ EventInv'
      BY <2>1, <2>2, <2>3, <2>6, <3>1 DEF WatcherInv, WatcherTypeOK, TreeInv, EventInv, Exists
    <3>3. TaskInv'
      BY <2>1, <3>1 DEF WatcherInv, TaskInv
    <3>4. \A a \in Dir : Awaited(a) => Awaited(a)'
      <4> SUFFICES ASSUME NEW a \in Dir, Awaited(a) PROVE Awaited(a)'
        OBVIOUS
      <4>1. a # Root /\ At(Parent[a], a, "isdir") \in Queued
        BY <2>5 DEF Awaited
      <4>2. At(Parent[a], a, "isdir") # e
        BY <2>8 DEF At
      <4>3. QED
        BY <2>3, <4>1, <4>2 DEF Awaited
    <3>5. DirInv'
      BY <2>1, <2>4, <3>4, UpProperties DEF WatcherInv, DirInv
    <3>6. QED
      BY <3>2, <3>3, <3>5 DEF WatcherInv
  <2>9. QED
    BY <2>7, <2>8
<1>3. QED
  BY <1>1, <1>2

(* In the beginning the root-directory is there, and its watch a task. *)
LEMMA WatcherInitInv ==
  ASSUME WatcherInit
  PROVE  WatcherInv /\ Tasks = {[op |-> "watch", path |-> Root, add |-> FALSE]}
<1> DEFINE t == [op |-> "watch", path |-> Root, add |-> FALSE]
<1>1. t \in Task /\ t.op = "watch" /\ t.path = Root
  BY WatcherAssumption DEF Task
<1>2. todo = <<t>>
  BY DEF WatcherInit
<1> HIDE DEF t
<1>3. <<t>> \in Seq(Task) /\ Elems(<<t>>) = {t}
  BY <1>1, ShortLists
<1>4. Tasks = {t} /\ Queued = {}
  <2>1. events = <<>> /\ buffer = <<>> /\ Elems(<<>>) = {}
    BY DEF WatcherInit, Elems
  <2>2. QED
    BY <1>2, <1>3, <2>1 DEF Tasks, Queued
<1>5. WatcherTypeOK
  <2>1. dir \in [Dir -> DirState] /\ file \in [File -> FileState]
    BY DEF WatcherInit, DirState, FileState
  <2>2. /\ kernel = {} /\ dirPaths = {} /\ watcher = "starting"
        /\ events \in Seq(Event) /\ buffer \in Seq(Event) /\ regFiles \in Seq(File)
    BY DEF WatcherInit
  <2>3. todo \in Seq(Task)
    BY <1>2, <1>3
  <2>4. QED
    BY <2>1, <2>2, <2>3 DEF WatcherTypeOK
<1>6. \A p \in (Dir \cup File) \ {Root} : ~Exists(p)
  BY WatcherAssumption DEF WatcherInit, Exists
<1>7. TreeInv /\ EventInv /\ TaskInv
  BY <1>1, <1>4, <1>6, WatcherAssumption DEF WatcherInit, TreeInv, EventInv, TaskInv
<1>8. DirInv
  <2>1. \A d \in Dir : dir[d] = "there" => d = Root
    BY DEF WatcherInit
  <2>2. Root \in Up(Root) /\ Awaited(Root)
    BY <1>1, <1>4, UpProperties, WatcherAssumption DEF Awaited
  <2>3. QED
    BY <2>1, <2>2 DEF DirInv
<1>9. QED
  BY <1>4, <1>5, <1>7, <1>8 DEF WatcherInv, t

(* Every step of the publisher is one of users, of its watcher, or one     *)
(* that leaves both as they are.                                           *)
LEMMA WatcherPart ==
  ASSUME [Next]_vars
  PROVE  \/ UserStep \/ WatcherStep \/ CallGetEvent
         \/ \E f \in File : ReturnEvent(f)
         \/ UNCHANGED wVars
<1>1. CASE SenderStep
  BY <1>1 DEF SenderStep, GetNextProd, GetEventFails, AddProdFile, GetMemSeg, SendSegment,
     EndOfProduct, OpenProdFile
<1>2. CASE \E r \in Reader : PeerSent(r) \/ \E i \in Index : PeerGets(r, i)
  BY <1>2 DEF PeerSent, PeerGets
<1>3. QED
  BY <1>1, <1>2 DEF Next, vars

(* The watcher's part of the invariant. *)
LEMMA WatcherInvariant ==
  ASSUME WatcherInv, [Next]_vars
  PROVE  WatcherInv'
<1>1. CASE UserStep
  BY <1>1, UserGrows, UserTypes, UserDirInv DEF WatcherInv
<1>2. CASE WatcherStep
  BY <1>2, AddWatchInv, ReadDirInv, VisitEntryInv, OtherStepsInv, ProcessEventInv DEF WatcherStep
<1>3. CASE CallGetEvent \/ \E f \in File : ReturnEvent(f)
  BY <1>3, OtherStepsInv
<1>4. CASE UNCHANGED wVars
  BY <1>4 DEF wVars, fsVars, watcherVars, WatcherInv, WatcherTypeOK, TreeInv, EventInv, TaskInv,
     DirInv, Exists, Tasks, Queued, Lost, Awaited
<1>5. QED
  BY <1>1, <1>2, <1>3, <1>4, WatcherPart

-----------------------------------------------------------------------------
(* What NoFileIsMissed says of a file, in the terms above. *)
LEMMA ComingMeans ==
  ASSUME NEW f \in File
  PROVE  Coming(f) <=>
           \/ InQueue(f, IF IsLink(f) THEN "create" ELSE "close_write")
           \/ ToVisit(f)
           \/ \E d \in Above(Parent[f]) : InQueue(d, "isdir") \/ ToVisit(d)
<1>1. \A p : ToVisit(p) <=> \E t \in Tasks : t.path = p /\ t.add
  BY DEF ToVisit, Tasks, Elems
<1>2. \A p, kind : InQueue(p, kind) <=> At(Parent[p], p, kind) \in Queued
  BY DEF InQueue, Queued
<1>3. QED
  BY <1>1, <1>2 DEF Coming

(* Users' steps: a file that they close or link is reported, or there is   *)
(* a directory above it of which the watcher will hear.                    *)
LEMMA UserComing ==
  ASSUME WatcherInv, UserStep, NEW f \in File, file'[f] \in {"closed", "link"},
         watcher # "failed", ~Lost'
  PROVE  \/ Coming(f)'
         \/ file'[f] = file[f] /\ (Coming(f) => Coming(f)')
<1>1. Queued \subseteq Queued' /\ Tasks' = Tasks /\ watcher' = watcher /\ buffer' = buffer
  BY UserGrows DEF watcherVars, Tasks
<1>2. WatcherInv'
  BY UserGrows, UserTypes, UserDirInv DEF WatcherInv
<1>3. CASE file'[f] = file[f]
  <2>1. IsLink(f)' = IsLink(f)
    BY <1>3 DEF IsLink
  <2>2. Coming(f) => Coming(f)'
    BY <1>1, <2>1 DEF Coming
  <2>3. QED
    BY <1>3, <2>2
<1>4. CASE file'[f] # file[f]
  <2> DEFINE p == Parent[f]
             e == At(p, f, IF IsLink(f)' THEN "create" ELSE "close_write")
  <2>1. p \in Dir /\ f \notin Dir /\ f # Root
    BY WatcherAssumption
  <2>2. p \in Dir /\ dir'[p] = "there"
    BY <1>2, <2>1 DEF WatcherInv, TreeInv, Exists
  <2>3. watcher \in {"idle", "looping"}
    BY <1>1, <1>2 DEF WatcherInv, WatcherTypeOK, TaskInv
  <2>4. CASE p \notin kernel'
    <3>1. PICK a \in Up(p) : Awaited(a)'
      BY <1>1, <1>2, <2>2, <2>4 DEF WatcherInv, DirInv
    <3>2. a # Root /\ \A t \in Tasks' : t.add
      BY <1>1, <1>2, <2>3, <3>1 DEF WatcherInv, TaskInv, Awaited
    <3>3. a \in Above(p)
      BY <3>1, <3>2 DEF Above
    <3>4. At(Parent[a], a, "isdir") \in Queued' \/ \E t \in Tasks' : t.path = a /\ t.add
      BY <3>1, <3>2 DEF Awaited
    <3>5. QED
      BY <3>3, <3>4 DEF Coming
  <2>5. CASE p \in kernel'
    <3>1. CASE \E d \in Dir \ {Root} : AddDir(d)
      <4>1. PICK d \in Dir \ {Root} : AddDir(d)
        BY <3>1
      <4>2. p = d /\ kernel' = kernel /\ dir[d] = "unborn"
        BY <1>4, <4>1 DEF AddDir, WatcherInv, WatcherTypeOK
      <4>3. QED
        BY <2>5, <4>2 DEF WatcherInv, TreeInv
    <3>2. CASE CloseFile(f) \/ LinkFile(f)
      <4>1. /\ Notify(f, IF IsLink(f)' THEN "create" ELSE "close_write")
            /\ kernel' = kernel
        <5>1. CASE CloseFile(f)
          <6>1. SetFile(f, "open", "closed", "close_write")
            BY <2>3, <5>1 DEF CloseFile, New
          <6>2. file'[f] = "closed"
            BY <6>1 DEF SetFile, WatcherInv, WatcherTypeOK
          <6>3. QED
            BY <6>1, <6>2 DEF SetFile, IsLink
        <5>2. CASE LinkFile(f)
          <6>1. SetFile(f, "unborn", "link", "create")
            BY <2>3, <5>2 DEF LinkFile, New
          <6>2. file'[f] = "link"
            BY <6>1 DEF SetFile, WatcherInv, WatcherTypeOK
          <6>3. QED
            BY <6>1, <6>2 DEF SetFile, IsLink
        <5>3. QED
          BY <3>2, <5>1, <5>2
      <4>2. PICK kind \in EventKind \ {"isdir"} :
              kind = IF IsLink(f)' THEN "create" ELSE "close_write"
        BY DEF EventKind
      <4>3. At(p, f, kind) \in Queued'
        BY <1>1, <2>1, <2>5, <4>1, <4>2, NotifyGrows
      <4>4. QED
        BY <4>2, <4>3 DEF Coming
    <3>3. QED
      <4>1. ASSUME NEW g \in File, CreateFile(g) \/ CloseFile(g) \/ MoveFileIn(g) \/ LinkFile(g)
            PROVE  CloseFile(f) \/ LinkFile(f)
        <5>1. \A h \in File : file'[h] # file[h] => h = g
          BY <4>1
          DEF CreateFile, CloseFile, MoveFileIn, LinkFile, SetFile, WatcherInv, WatcherTypeOK
        <5>2. f = g
          BY <1>4, <5>1
        <5>3. ~CreateFile(f) /\ ~MoveFileIn(f)
          BY <2>3 DEF CreateFile, MoveFileIn, SetFile, New, WatcherInv, WatcherTypeOK
        <5>4. QED
          BY <4>1, <5>2, <5>3
      <4>2. ASSUME NEW g \in File PROVE ~RemoveFile(g)
        BY <1>4 DEF RemoveFile, WatcherInv, WatcherTypeOK
      <4>3. ~Unmount /\ \A d \in Dir : ~RemoveDir(d)
        BY <1>4 DEF Unmount, RemoveDir
      <4>4. QED
        BY <3>1, <3>2, <4>1, <4>2, <4>3 DEF UserStep
  <2>6. QED
    BY <2>4, <2>5
<1>5. QED
  BY <1>3, <1>4

(* The watcher's steps: what is coming comes nearer, down to the list of   *)
(* files to be published.                                                  *)
LEMMA WatcherComing ==
  ASSUME WatcherInv, WatcherStep, watcher' # "failed",
         NEW f \in File, file[f] \in {"closed", "link"}, Coming(f)
  PROVE  Coming(f)' \/ f \in Elems(regFiles')
<1> DEFINE p == Parent[f]
<1>1. p \in Dir /\ f \notin Dir /\ f \in DOMAIN Parent /\ Exists(f) /\ dir[p] = "there"
  <2>1. p \in Dir /\ f \notin Dir /\ f \in DOMAIN Parent /\ f # Root
    BY WatcherAssumption
  <2>2. Exists(f)
    BY <2>1 DEF Exists
  <2>3. QED
    BY <2>1, <2>2 DEF WatcherInv, TreeInv
<1>2. ~Fails /\ todo \in Seq(Task)
  BY DEF Fails, WatcherInv, WatcherTypeOK
<1>3. Above(p) \subseteq Dir \ {Root}
  BY <1>1, UpProperties DEF Above
<1>4. CASE AddWatch
  <2> DEFINE next == [Head(todo) EXCEPT !.op = "list"]
  <2>1. todo # <<>> /\ todo' = <<next>> \o Tail(todo) /\ UNCHANGED <<file, events, buffer>>
    BY <1>2, <1>4 DEF AddWatch
  <2>2. Head(todo) \in Task
    BY <1>2, <2>1, HeadTailElems
  <2>3. next \in Task /\ next.path = Head(todo).path /\ next.add = Head(todo).add
    BY <2>2, TaskAtStage
  <2>4. <<next>> \in Seq(Task) /\ Elems(<<next>>) = {next}
    BY <2>3, ShortLists
  <2> HIDE DEF next
  <2>5. Tasks' = {next} \cup Elems(Tail(todo)) /\ Tasks = {Head(todo)} \cup Elems(Tail(todo))
    BY <1>2, <2>1, <2>4, TasksReplaced
  <2>6. QED
    BY <2>1, <2>3, <2>5 DEF Coming, Queued, IsLink
<1>5. CASE ReadDir
  <2> DEFINE d == Head(todo).path
  <2>1. /\ d \in Dir /\ Head(todo) \in Tasks /\ UNCHANGED <<fsVars, buffer>>
        /\ \A t \in Tasks : t # Head(todo) => t \in Tasks'
    BY <1>2, <1>5, ReadDirTasks
  <2>2. \A q \in Entries(d) : \E t \in Tasks' : t.path = q /\ t.add = Head(todo).add
    BY <1>2, <1>5, ReadDirTasks
  <2>4. Queued' = Queued /\ IsLink(f)' = IsLink(f)
    BY <2>1 DEF Queued, IsLink, fsVars
  <2>5. CASE ~(Head(todo).add /\ d \in Above(p))
    BY <1>1, <2>1, <2>4, <2>5 DEF Coming
  <2>6. CASE Head(todo).add /\ d = p
    <3>1. f \in Entries(d)
      BY <1>1, <2>6 DEF Entries
    <3>2. QED
      BY <2>2, <2>6, <3>1 DEF Coming
  <2>7. CASE Head(todo).add /\ d \in Above(p) /\ d # p
    <3>1. PICK c \in Up(p) \ {Root} : Parent[c] = d
      BY <1>1, <2>7, UpHasChild DEF Above
    <3>2. c \in Dir /\ dir[c] = "there"
      BY <1>1, <3>1, UpProperties, UpExists DEF WatcherInv
    <3>3. c \in Entries(d) /\ c \in Above(p)
      BY <3>1, <3>2, WatcherAssumption DEF Entries, Exists, Above
    <3>4. QED
      BY <2>2, <2>7, <3>3 DEF Coming
  <2>8. QED
    BY <2>5, <2>6, <2>7
<1>6. CASE VisitEntry
  <2> DEFINE e == Head(todo)
  <2>1. todo # <<>> /\ UNCHANGED fsVars /\ UNCHANGED buffer
    BY <1>2, <1>6 DEF VisitEntry
  <2>2. e \in Task /\ Tail(todo) \in Seq(Task) /\ Tasks = {e} \cup Elems(Tail(todo))
    BY <1>2, <2>1, HeadTailElems DEF Tasks
  <2>3. Queued' = Queued /\ IsLink(f)' = IsLink(f)
    BY <2>1 DEF Queued, IsLink, fsVars
  <2>4. CASE e.path \in Dir
    <3> DEFINE next == [e EXCEPT !.op = "watch"]
    <3>1. todo' = <<next>> \o Tail(todo)
      BY <1>2, <1>6, <2>4 DEF VisitEntry
    <3>2. next \in Task /\ next.path = e.path /\ next.add = e.add
      BY <2>2, TaskAtStage
    <3>3. <<next>> \in Seq(Task) /\ Elems(<<next>>) = {next}
      BY <3>2, ShortLists
    <3> HIDE DEF next
    <3>4. Tasks' = {next} \cup Elems(Tail(todo))
      BY <1>2, <2>1, <3>1, <3>3, TasksReplaced
    <3>5. QED
      BY <2>2, <2>3, <3>2, <3>4 DEF Coming
  <2>5. CASE e.path \notin Dir
    <3>1. /\ todo' = Tail(todo)
          /\ regFiles' = IF e.add THEN Append(regFiles, e.path) ELSE regFiles
      BY <1>2, <1>6, <2>5 DEF VisitEntry
    <3>2. Tasks' = Elems(Tail(todo))
      BY <3>1 DEF Tasks
    <3>3. CASE e.path = f /\ e.add
      <4>1. f \in Elems(Append(regFiles, f))
        BY AppendElems DEF WatcherInv, WatcherTypeOK
      <4>2. QED
        BY <3>1, <3>3, <4>1
    <3>4. CASE ~(e.path = f /\ e.add)
      BY <1>3, <2>2, <2>3, <2>5, <3>2, <3>4 DEF Coming
    <3>5. QED
      BY <3>3, <3>4
  <2>6. QED
    BY <2>4, <2>5
<1>7. CASE ConstructorReturns
  BY <1>7 DEF ConstructorReturns, Coming, Queued, Tasks, IsLink, fsVars
<1>8. CASE ReadEvents
  <2>1. Elems(<<>>) = {}
    BY DEF Elems
  <2>2. Queued' = Queued /\ Tasks' = Tasks /\ IsLink(f)' = IsLink(f)
    BY <1>8, <2>1 DEF ReadEvents, Queued, Tasks, IsLink
  <2>3. QED
    BY <2>2 DEF Coming
<1>9. CASE ProcessEvent
  <2> DEFINE e == Head(buffer)
             kind == IF IsLink(f) THEN "create" ELSE "close_write"
  <2>1. /\ buffer # <<>> /\ todo = <<>> /\ buffer' = Tail(buffer) /\ UNCHANGED fsVars
        /\ todo' = IF e.kind = "isdir"
                   THEN <<[op |-> "watch", path |-> e.name, add |-> TRUE]>> ELSE <<>>
        /\ regFiles' = IF /\ e.name \in File
                          /\ e.kind = IF IsLink(e.name) THEN "create" ELSE "close_write"
                       THEN Append(regFiles, e.name) ELSE regFiles
    BY <1>2, <1>9 DEF ProcessEvent
  <2>2. /\ buffer \in Seq(Event) /\ e \in Event
        /\ Elems(buffer) = {e} \cup Elems(Tail(buffer))
    BY <2>1, HeadTailElems DEF WatcherInv, WatcherTypeOK
  <2>3. Queued = {e} \cup Queued' /\ IsLink(f)' = IsLink(f)
    BY <2>1, <2>2 DEF Queued, fsVars, IsLink
  <2>4. Tasks = {}
    BY <2>1 DEF Tasks, Elems
  <2>5. CASE At(p, f, kind) = e
    <3>1. e.name = f /\ e.kind = kind
      BY <2>5 DEF At
    <3>2. regFiles' = Append(regFiles, f)
      BY <2>1, <3>1
    <3>3. f \in Elems(Append(regFiles, f))
      BY AppendElems DEF WatcherInv, WatcherTypeOK
    <3>4. QED
      BY <3>2, <3>3
  <2>6. ASSUME NEW d \in Above(p), At(Parent[d], d, "isdir") = e
        PROVE  Coming(f)'
    <3> DEFINE t == [op |-> "watch", path |-> d, add |-> TRUE]
    <3>1. e.name = d /\ e.kind = "isdir"
      BY <2>6 DEF At
    <3>2. todo' = <<t>> /\ t.path = d /\ t.add /\ t \in Task
      BY <1>3, <2>1, <3>1 DEF Task
    <3> HIDE DEF t
    <3>3. Elems(<<t>>) = {t}
      BY <3>2, ShortLists
    <3>4. Tasks' = {t}
      BY <3>2, <3>3 DEF Tasks
    <3>5. QED
      BY <3>2, <3>4 DEF Coming
  <2>7. QED
    BY <2>3, <2>4, <2>5, <2>6 DEF Coming
<1>10. QED
  BY <1>4, <1>5, <1>6, <1>7, <1>8, <1>9 DEF WatcherStep

-----------------------------------------------------------------------------
(* ensureRoom(): what stays open is what is not evicted, and leaves room   *)
(* for one more.                                                           *)
LEMMA RoomProperties ==
  ASSUME openFiles \in Seq(Index), Distinct(openFiles)
  PROVE  /\ Room \in Seq(Index) /\ Distinct(Room)
         /\ Elems(Room) = Elems(openFiles) \ Evicted
         /\ Len(Room) =< MaxOpenFiles - 1
<1> DEFINE n == Len(openFiles)
           s == openFiles
<1>1. /\ n \in Nat /\ DOMAIN s = 1..n /\ MaxOpenFiles \in Nat \ {0} /\ Excess \in Int
      /\ Excess = n - (MaxOpenFiles - 1)
  BY PubRepoAssumption DEF Excess
<1>2. CASE ~(Excess > 0)
  BY <1>1, <1>2 DEF Room, Evicted
<1>3. CASE Excess > 0
  <2> DEFINE x == Excess
             before == SubSeq(s, 1, x)
             after == SubSeq(s, x + 1, n)
  <2>1. x \in 1..n /\ Room = after /\ Evicted = Elems(before)
    BY <1>1, <1>3 DEF Room, Evicted
  <2> HIDE DEF x
  <2>2. /\ before \in Seq(Index) /\ Len(before) = x /\ \A i \in 1..x : before[i] = s[i]
    BY <1>1, <2>1
  <2>3. /\ after \in Seq(Index) /\ Len(after) = n - x
        /\ \A i \in 1..(n - x) : after[i] = s[x + i]
    <3>1. x + 1 \in Int /\ n \in Int /\ \A i \in (x + 1)..n : s[i] \in Index
      BY <1>1, <2>1
    <3>2. /\ SubSeq(s, x + 1, n) \in Seq(Index)
          /\ Len(SubSeq(s, x + 1, n)) = IF x + 1 <= n THEN n - (x + 1) + 1 ELSE 0
          /\ \A i \in 1..(n - (x + 1) + 1) : SubSeq(s, x + 1, n)[i] = s[x + 1 + i - 1]
      BY <3>1, SubSeqProperties
    <3>3. Len(after) = n - x
      <4>1. Len(after) = IF x + 1 <= n THEN n - (x + 1) + 1 ELSE 0
        BY <3>2
      <4>2. x \in Int /\ n \in Int /\ x =< n
        BY <1>1, <2>1
      <4> HIDE DEF n, after
      <4>3. QED
        BY <4>1, <4>2
    <3>4. \A i \in 1..(n - x) : i \in 1..(n - (x + 1) + 1) /\ x + 1 + i - 1 = x + i
      BY <1>1, <2>1
    <3>5. QED
      BY <3>2, <3>3, <3>4
  <2> HIDE DEF before, after
  <2>4. DOMAIN before = 1..x /\ DOMAIN after = 1..(n - x)
    BY <2>2, <2>3
  <2>5. /\ \A i \in 1..(n - x) : x + i \in DOMAIN s
        /\ \A i, j \in 1..(n - x) : x + i = x + j => i = j
    BY <1>1, <2>1
  <2>a. Distinct(after)
    BY <2>3, <2>4, <2>5 DEF Distinct
  <2>b. Elems(after) \subseteq Elems(s)
    BY <2>3, <2>4, <2>5 DEF Elems
  <2>c. \A i \in 1..(n - x), j \in 1..x : j \in DOMAIN s /\ x + i # j
    BY <1>1, <2>1
  <2>6. Elems(after) \subseteq Elems(s) \ Elems(before)
    <3>1. \A i \in 1..(n - x), j \in 1..x : after[i] # before[j]
      BY <2>2, <2>3, <2>5, <2>c DEF Distinct
    <3>2. QED
      BY <2>4, <2>b, <3>1 DEF Elems
  <2>7. Elems(s) \subseteq Elems(before) \cup Elems(after)
    <3> SUFFICES ASSUME NEW i \in 1..n PROVE s[i] \in Elems(before) \cup Elems(after)
      BY <1>1 DEF Elems
    <3>1. CASE i =< x
      BY <1>1, <2>1, <2>2, <2>4, <3>1 DEF Elems
    <3>2. CASE i > x
      <4>1. i - x \in 1..(n - x) /\ after[i - x] = s[i]
        BY <1>1, <2>1, <2>3, <3>2
      <4>2. QED
        BY <2>4, <4>1 DEF Elems
    <3>3. QED
      BY <1>1, <2>1, <3>1, <3>2
  <2>8. Len(after) =< MaxOpenFiles - 1
    BY <1>1, <2>3 DEF x
  <2>9. QED
    BY <2>1, <2>3, <2>a, <2>6, <2>7, <2>8
<1>4. QED
  BY <1>1, <1>2, <1>3

(* What is evicted was open. *)
LEMMA EvictedAreOpen ==
  ASSUME openFiles \in Seq(Index)
  PROVE  Evicted \subseteq Elems(openFiles)
<1>1. CASE ~(Excess > 0)
  BY <1>1 DEF Evicted
<1>2. CASE Excess > 0
  <2>1. Excess \in 0 .. Len(openFiles)
    BY <1>2, PubRepoAssumption DEF Excess
  <2>2. QED
    BY <1>2, <2>1, PrefixElems DEF Evicted
<1>3. QED
  BY <1>1, <1>2

(* What the list and the mappings are once a product's file has been       *)
(* opened.                                                                 *)
OpenInv ==
    /\ openFiles \in Seq(Index) /\ Distinct(openFiles)
    /\ mapped = Elems(openFiles)
    /\ Len(openFiles) =< MaxOpenFiles

(* A file is opened that was closed. *)
LEMMA OpenNew ==
  ASSUME OpenInv, NEW i \in Index, i \notin Elems(openFiles),
         openFiles' = Append(Room, i), mapped' = (mapped \cup {i}) \ Evicted
  PROVE  OpenInv' /\ mapped' \subseteq mapped \cup {i}
<1>1. /\ Room \in Seq(Index) /\ Distinct(Room) /\ Elems(Room) = Elems(openFiles) \ Evicted
      /\ Len(Room) =< MaxOpenFiles - 1
  BY RoomProperties DEF OpenInv
<1>2. Evicted \subseteq Elems(openFiles)
  BY EvictedAreOpen DEF OpenInv
<1>3. i \notin Elems(Room) /\ i \notin Evicted
  BY <1>1, <1>2
<1>4. /\ Append(Room, i) \in Seq(Index) /\ Elems(Append(Room, i)) = Elems(Room) \cup {i}
      /\ Distinct(Append(Room, i))
  BY <1>1, <1>3, AppendElems
<1>5. Len(Append(Room, i)) =< MaxOpenFiles
  BY <1>1, PubRepoAssumption
<1>6. QED
  BY <1>1, <1>3, <1>4, <1>5 DEF OpenInv

(* A file is opened, or was open and is used again. *)
LEMMA OpenAny ==
  ASSUME OpenInv, NEW i \in Index, GetProdFile(i)
  PROVE  OpenInv' /\ mapped' \subseteq mapped \cup {i}
<1>1. CASE i \notin Elems(openFiles)
  BY <1>1, OpenNew DEF GetProdFile
<1>2. CASE i \in Elems(openFiles)
  <2> DEFINE rest == Without(openFiles, i)
  <2>1. openFiles' = Append(rest, i) /\ mapped' = mapped
    BY <1>2 DEF GetProdFile
  <2>2. rest \in Seq(Index) /\ Distinct(rest) /\ Elems(rest) = Elems(openFiles) \ {i}
    BY WithoutProperties, WithoutKeeps DEF OpenInv
  <2> HIDE DEF rest
  <2>3. /\ openFiles' \in Seq(Index) /\ Distinct(openFiles')
        /\ Elems(openFiles') = Elems(rest) \cup {i}
    BY <2>1, <2>2, AppendElems
  <2>4. Elems(openFiles') = Elems(openFiles)
    BY <1>2, <2>2, <2>3
  <2>5. Len(openFiles') = Len(openFiles)
    BY <2>3, <2>4, DistinctCardinality DEF OpenInv
  <2>6. QED
    BY <2>1, <2>3, <2>4, <2>5 DEF OpenInv
<1>3. QED
  BY <1>1, <1>2

(* The repository's part of the invariant: its types, and that every open  *)
(* product-file is that of a product.                                      *)
RepoInv ==
    /\ prodIndex \in 0..IndexMax
    /\ prodFiles \in [Index -> File \cup {NoFile}] /\ prodSize \in [Index -> Nat]
    /\ OpenInv
    /\ \A i \in mapped : prodFiles[i] # NoFile
    /\ sender \in [at : SenderAt, file : File \cup {NoFile}, size : Nat] /\ sending \in Nat
    /\ reader \in [Reader -> 0..IndexMax] /\ sent \in [File -> SUBSET Index]
    /\ SenderInv

(* The repository's part of the invariant, in the beginning ... *)
LEMMA RepoInit ==
  ASSUME Init
  PROVE  RepoInv
<1>1. openFiles \in Seq(Index) /\ Len(openFiles) = 0 /\ Elems(openFiles) = {} /\ Distinct(openFiles)
  BY DEF Init, Elems, Distinct
<1>2. OpenInv
  BY <1>1, PubRepoAssumption DEF OpenInv, Init
<1>3. QED
  BY <1>2, PubRepoAssumption DEF Init, RepoInv, SenderInv, SenderAt

(* ... and with every step of the publisher. *)
LEMMA RepoInvariant ==
  ASSUME RepoInv, [Next]_vars
  PROVE  RepoInv'
<1>1. /\ IndexMax \in Nat \ {0} /\ NoFile \notin File /\ Index = 1..IndexMax
  BY PubRepoAssumption DEF Index
<1>2. ASSUME UNCHANGED <<prodIndex, prodFiles, prodSize, openFiles, mapped>>, UNCHANGED threadVars
      PROVE  RepoInv'
  BY <1>2 DEF RepoInv, threadVars, OpenInv, SenderInv
<1>3. CASE GetNextProd
  <2>1. /\ sender.at = "top" /\ sender' = [sender EXCEPT !.at = "getting"]
        /\ prodIndex' = NextIndex
        /\ UNCHANGED <<prodFiles, prodSize, openFiles, mapped, sending, reader, sent>>
    BY <1>3 DEF GetNextProd
  <2>2. prodIndex' \in Index
    BY <1>1, <2>1 DEF NextIndex, RepoInv
  <2>3. /\ sender' \in [at : SenderAt, file : File \cup {NoFile}, size : Nat]
        /\ sender'.at = "getting" /\ sender'.file = sender.file
    BY <2>1 DEF RepoInv, SenderAt
  <2>4. QED
    BY <1>1, <2>1, <2>2, <2>3 DEF RepoInv, OpenInv, SenderInv
<1>4. ASSUME SenderFails, UNCHANGED <<repoVars, sending, reader, sent>>
      PROVE  RepoInv'
  <2>1. /\ sender' \in [at : SenderAt, file : File \cup {NoFile}, size : Nat]
        /\ sender'.at = "failed"
    BY <1>4 DEF SenderFails, RepoInv, SenderAt
  <2>2. QED
    BY <1>4, <2>1 DEF repoVars, RepoInv, OpenInv, SenderInv
<1>5. ASSUME NEW f \in File, OpenProdFile(f)
      PROVE  RepoInv'
  <2>1. CASE ~Exists(f)
    BY <1>4, <1>5, <2>1 DEF OpenProdFile
  <2>2. CASE Exists(f)
    <3>1. PICK size \in 0..Size[f] : sender' = [at |-> "opened", file |-> f, size |-> size]
      BY <1>5, <2>2 DEF OpenProdFile
    <3>2. size \in Nat
      BY <3>1, PubRepoAssumption
    <3>3. /\ sender.at = "getting" /\ UNCHANGED <<repoVars, sending, reader, sent>>
      BY <1>5 DEF OpenProdFile
    <3>4. QED
      BY <3>1, <3>2, <3>3 DEF repoVars, RepoInv, OpenInv, SenderInv, SenderAt
  <2>3. QED
    BY <2>1, <2>2
<1>6. CASE AddProdFile
  <2>1. CASE prodFiles[prodIndex] # NoFile
    BY <1>4, <1>6, <2>1 DEF AddProdFile, repoVars
  <2>2. CASE prodFiles[prodIndex] = NoFile
    <3>1. /\ sender.at = "opened" /\ sender' = [sender EXCEPT !.at = "loop"]
          /\ prodFiles' = [prodFiles EXCEPT ![prodIndex] = sender.file]
          /\ prodSize' = [prodSize EXCEPT ![prodIndex] = sender.size]
          /\ openFiles' = Append(Room, prodIndex)
          /\ mapped' = (mapped \ Evicted) \cup {prodIndex} /\ sending' = 1
          /\ UNCHANGED <<prodIndex, reader, sent>>
      BY <1>6, <2>2 DEF AddProdFile
    <3>2. /\ prodIndex \in Index /\ sender.file \in File /\ sender.size \in Nat
          /\ prodIndex \notin mapped
      BY <1>1, <2>2, <3>1 DEF RepoInv, SenderInv
    <3>3. prodIndex \notin Evicted
      BY <3>2, EvictedAreOpen DEF RepoInv, OpenInv
    <3>4. mapped' = (mapped \cup {prodIndex}) \ Evicted
      BY <3>1, <3>3
    <3>5. OpenInv' /\ mapped' \subseteq mapped \cup {prodIndex}
      BY <3>1, <3>2, <3>4, OpenNew DEF RepoInv, OpenInv
    <3>6. /\ sender' \in [at : SenderAt, file : File \cup {NoFile}, size : Nat]
          /\ sender'.at = "loop" /\ sender'.file = sender.file
      BY <3>1 DEF RepoInv, SenderAt
    <3>7. /\ prodFiles' \in [Index -> File \cup {NoFile}] /\ prodSize' \in [Index -> Nat]
          /\ prodFiles'[prodIndex] = sender.file
          /\ \A i \in Index \ {prodIndex} : prodFiles'[i] = prodFiles[i]
      BY <3>1, <3>2 DEF RepoInv
    <3>8. mapped' \subseteq Index
      BY <3>5 DEF OpenInv, Elems
    <3>9. \A i \in mapped' : prodFiles'[i] # NoFile
      BY <1>1, <3>2, <3>5, <3>7, <3>8 DEF RepoInv
    <3>10. QED
      BY <1>1, <3>1, <3>2, <3>5, <3>6, <3>7, <3>9 DEF RepoInv, SenderInv
  <2>3. QED
    BY <2>1, <2>2
<1>7. CASE GetMemSeg
  <2>1. CASE ~CanOpen(prodIndex)
    BY <1>4, <1>7, <2>1 DEF GetMemSeg
  <2>2. CASE CanOpen(prodIndex)
    <3>1. /\ sender.at = "loop" /\ GetProdFile(prodIndex)
          /\ sender' = [sender EXCEPT !.at = "using"]
          /\ UNCHANGED <<sending, reader, sent>>
      BY <1>7, <2>2 DEF GetMemSeg
    <3>2. prodIndex \in Index /\ prodFiles[prodIndex] # NoFile
      BY <1>1, <3>1 DEF RepoInv, SenderInv
    <3>3. OpenInv' /\ mapped' \subseteq mapped \cup {prodIndex}
      BY <3>1, <3>2, OpenAny DEF RepoInv
    <3>4. UNCHANGED <<prodIndex, prodFiles, prodSize>>
      BY <3>1 DEF GetProdFile
    <3>5. /\ sender' \in [at : SenderAt, file : File \cup {NoFile}, size : Nat]
          /\ sender'.at = "using" /\ sender'.file = sender.file
      BY <3>1 DEF RepoInv, SenderAt
    <3>6. QED
      BY <3>1, <3>2, <3>3, <3>4, <3>5 DEF RepoInv, SenderInv
  <2>3. QED
    BY <2>1, <2>2
<1>8. CASE SendSegment
  <2>1. /\ sender.at = "using" /\ sender' = [sender EXCEPT !.at = "loop"] /\ sending' = sending + 1
        /\ UNCHANGED <<repoVars, reader, sent>>
    BY <1>8 DEF SendSegment
  <2>2. /\ sender' \in [at : SenderAt, file : File \cup {NoFile}, size : Nat]
        /\ sender'.at = "loop" /\ sender'.file = sender.file
    BY <2>1 DEF RepoInv, SenderAt
  <2>3. QED
    BY <2>1, <2>2 DEF repoVars, RepoInv, OpenInv, SenderInv
<1>9. CASE EndOfProduct
  <2>1. /\ sender.at = "loop" /\ sending' = 1
        /\ sent' = [sent EXCEPT ![sender.file] = @ \cup {prodIndex}]
        /\ sender' = [at |-> "top", file |-> NoFile, size |-> 0]
        /\ UNCHANGED <<repoVars, reader>>
    BY <1>9 DEF EndOfProduct
  <2>2. prodIndex \in Index /\ sender.file \in File
    BY <1>1, <2>1 DEF RepoInv, SenderInv
  <2>3. sent' \in [File -> SUBSET Index]
    BY <2>1, <2>2 DEF RepoInv
  <2>4. QED
    BY <2>1, <2>3 DEF repoVars, RepoInv, OpenInv, SenderInv, SenderAt
<1>10. ASSUME NEW r \in Reader, NEW i \in Index, PeerGets(r, i)
       PROVE  RepoInv'
  <2>1. OpenInv' /\ mapped' \subseteq mapped \cup {i}
    BY <1>10, OpenAny DEF RepoInv, PeerGets
  <2>2. /\ prodFiles[i] # NoFile /\ reader' \in [Reader -> 0..IndexMax]
        /\ UNCHANGED <<prodIndex, prodFiles, prodSize, sender, sending, sent>>
    BY <1>1, <1>10 DEF RepoInv, PeerGets, GetProdFile
  <2>3. QED
    BY <2>1, <2>2 DEF RepoInv, SenderInv
<1>11. ASSUME NEW r \in Reader, PeerSent(r)
       PROVE  RepoInv'
  BY <1>1, <1>11 DEF RepoInv, PeerSent, repoVars, OpenInv, SenderInv
<1>12. CASE GetEventFails
  BY <1>4, <1>12 DEF GetEventFails
<1>13. QED
  BY <1>2, <1>3, <1>5, <1>6, <1>7, <1>8, <1>9, <1>10, <1>11, <1>12
  DEF Next, SenderStep, vars, repoVars

-----------------------------------------------------------------------------
(* The file is in the sender's hands or has a product, or the sender is    *)
(* gone.                                                                   *)
Taken(f) == sender.file = f \/ (\E i \in Index : prodFiles[i] = f) \/ sender.at = "failed"

(* NoFileIsMissed in these terms. *)
FilesInv ==
    watcher # "failed" /\ ~Lost =>
        \A f \in File : file[f] \in {"closed", "link"} =>
            Taken(f) \/ f \in Elems(regFiles) \/ Coming(f)

LEMMA FilesMeans == FilesInv <=> NoFileIsMissed
BY ComingMeans, Zenon DEF FilesInv, NoFileIsMissed, Taken

(* An event that ends the watcher does so: it is not lost. *)
LEMMA LostStays ==
  ASSUME WatcherInv, [Next]_vars, Lost
  PROVE  Lost' \/ watcher' = "failed"
<1>1. CASE UserStep
  BY <1>1, UserGrows DEF Lost, Queued
<1>2. CASE ProcessEvent /\ ~Fails
  <2>1. /\ buffer # <<>> /\ Head(buffer).kind \notin Fatal /\ buffer' = Tail(buffer)
        /\ events' = events
    BY <1>2 DEF ProcessEvent, fsVars
  <2>2. Elems(buffer) = {Head(buffer)} \cup Elems(Tail(buffer))
    BY <2>1, HeadTailElems DEF WatcherInv, WatcherTypeOK
  <2>3. QED
    BY <2>1, <2>2 DEF Lost
<1>3. CASE ReadEvents
  <2>1. Elems(<<>>) = {}
    BY DEF Elems
  <2>2. QED
    BY <1>3, <2>1 DEF ReadEvents, Lost
<1>4. CASE AddWatch \/ ReadDir \/ VisitEntry \/ ConstructorReturns
  BY <1>4 DEF AddWatch, ReadDir, VisitEntry, ConstructorReturns, Fails, fsVars, Lost
<1>5. CASE CallGetEvent \/ (\E f \in File : ReturnEvent(f)) \/ UNCHANGED wVars
  BY <1>5 DEF CallGetEvent, ReturnEvent, wVars, fsVars, watcherVars, Lost
<1>6. QED
  BY <1>1, <1>2, <1>3, <1>4, <1>5, WatcherPart DEF WatcherStep, Fails

(* A watcher that has failed stays so. *)
LEMMA FailedStays ==
  ASSUME [Next]_vars, watcher = "failed"
  PROVE  watcher' = "failed"
BY WatcherPart
DEF UserStep, AddDir, RemoveDir, CreateFile, CloseFile, MoveFileIn, LinkFile, SetFile, RemoveFile,
    Unmount, WatcherStep, AddWatch, ReadDir, VisitEntry, ConstructorReturns, ReadEvents,
    ProcessEvent, Fails, CallGetEvent, ReturnEvent, wVars, watcherVars

(* The sender lets go of no file until it has its product. *)
LEMMA TakenStays ==
  ASSUME RepoInv, [Next]_vars, NEW f \in File, Taken(f)
  PROVE  Taken(f)'
<1>1. \A at : [sender EXCEPT !.at = at].file = sender.file
  BY DEF RepoInv
<1>2. NoFile \notin File /\ IndexMax \in Nat /\ Index = 1..IndexMax
  BY PubRepoAssumption DEF Index
<1>3. CASE UNCHANGED <<prodFiles, sender>>
  BY <1>3 DEF Taken
<1>4. ASSUME UNCHANGED prodFiles, NEW at, sender' = [sender EXCEPT !.at = at], sender.at # "failed"
      PROVE  Taken(f)'
  BY <1>1, <1>4 DEF Taken
<1>5. ASSUME SenderFails
      PROVE  Taken(f)'
  BY <1>5 DEF SenderFails, Taken, RepoInv
<1>6. CASE GetNextProd
  BY <1>4, <1>6 DEF GetNextProd
<1>7. ASSUME NEW g \in File, OpenProdFile(g)
      PROVE  Taken(f)'
  <2>1. sender.at = "getting" /\ UNCHANGED repoVars
    BY <1>7 DEF OpenProdFile
  <2>2. sender.file = NoFile
    BY <2>1 DEF RepoInv, SenderInv
  <2>3. QED
    BY <1>2, <2>1, <2>2 DEF Taken, repoVars
<1>8. CASE AddProdFile
  <2>1. CASE prodFiles[prodIndex] # NoFile
    BY <1>5, <1>8, <2>1 DEF AddProdFile
  <2>2. CASE prodFiles[prodIndex] = NoFile
    <3>1. /\ sender.at = "opened" /\ sender' = [sender EXCEPT !.at = "loop"]
          /\ prodFiles' = [prodFiles EXCEPT ![prodIndex] = sender.file]
      BY <1>8, <2>2 DEF AddProdFile
    <3>2. prodIndex \in Index
      BY <1>2, <3>1 DEF RepoInv, SenderInv
    <3>3. \A i \in Index : prodFiles[i] = f => prodFiles'[i] = f
      BY <1>2, <2>2, <3>1, <3>2 DEF RepoInv
    <3>4. sender'.file = sender.file
      BY <1>1, <3>1
    <3>5. QED
      BY <3>1, <3>3, <3>4 DEF Taken
  <2>3. QED
    BY <2>1, <2>2
<1>9. CASE GetMemSeg
  BY <1>4, <1>5, <1>9 DEF GetMemSeg, GetProdFile, repoVars
<1>10. CASE SendSegment
  BY <1>4, <1>10 DEF SendSegment, repoVars
<1>11. CASE EndOfProduct
  <2>1. /\ sender.at = "loop" /\ prodFiles' = prodFiles
    BY <1>11 DEF EndOfProduct, repoVars
  <2>2. prodIndex \in Index /\ prodFiles[prodIndex] = sender.file
    BY <1>2, <2>1 DEF RepoInv, SenderInv
  <2>3. QED
    BY <2>1, <2>2 DEF Taken
<1>12. CASE GetEventFails
  BY <1>5, <1>12 DEF GetEventFails
<1>13. ASSUME NEW r \in Reader, PeerSent(r) \/ \E i \in Index : PeerGets(r, i)
       PROVE  Taken(f)'
  BY <1>3, <1>13 DEF PeerSent, PeerGets, GetProdFile, repoVars
<1>14. QED
  BY <1>3, <1>6, <1>7, <1>8, <1>9, <1>10, <1>11, <1>12, <1>13
  DEF Next, SenderStep, vars, repoVars, threadVars

(* What users do, the watcher and the sender: a file that is coming or in  *)
(* the list goes on, until the sender takes it.                            *)
LEMMA FilesInvariant ==
  ASSUME WatcherInv, RepoInv, FilesInv, [Next]_vars
  PROVE  FilesInv'
<1> SUFFICES ASSUME watcher' # "failed", ~Lost', NEW f \in File, file'[f] \in {"closed", "link"}
             PROVE  Taken(f)' \/ f \in Elems(regFiles') \/ Coming(f)'
  BY DEF FilesInv
<1>1. watcher # "failed" /\ ~Lost
  BY LostStays, FailedStays
<1>2. Taken(f) => Taken(f)'
  BY TakenStays
<1>3. file[f] \in {"closed", "link"} => Taken(f) \/ f \in Elems(regFiles) \/ Coming(f)
  BY <1>1 DEF FilesInv
<1>4. CASE UserStep
  <2>1. regFiles' = regFiles
    BY <1>4, UserGrows DEF watcherVars
  <2>2. QED
    BY <1>1, <1>2, <1>3, <1>4, <2>1, UserComing
<1>5. CASE WatcherStep
  <2>1. file' = file
    BY <1>5 DEF WatcherStep, AddWatch, ReadDir, VisitEntry, ConstructorReturns, ReadEvents,
       ProcessEvent, Fails, fsVars
  <2>2. Coming(f) => Coming(f)' \/ f \in Elems(regFiles')
    BY <1>5, <2>1, WatcherComing
  <2>3. f \in Elems(regFiles) => f \in Elems(regFiles')
    <3>1. \A g \in File : Elems(Append(regFiles, g)) = Elems(regFiles) \cup {g}
      BY AppendElems DEF WatcherInv, WatcherTypeOK
    <3>2. regFiles' = regFiles \/ \E g \in File : regFiles' = Append(regFiles, g)
      <4>1. CASE VisitEntry
        <5>1. todo # <<>> /\ Head(todo) \in Task
          BY <4>1, HeadTailElems DEF VisitEntry, WatcherInv, WatcherTypeOK
        <5>2. Head(todo).path \in Dir \cup File
          BY <5>1 DEF Task
        <5>3. QED
          BY <4>1, <5>2 DEF VisitEntry, Fails
      <4>2. CASE ~VisitEntry
        BY <1>5, <4>2
        DEF WatcherStep, AddWatch, ReadDir, ConstructorReturns, ReadEvents, ProcessEvent, Fails
      <4>3. QED
        BY <4>1, <4>2
    <3>3. QED
      BY <3>1, <3>2
  <2>4. QED
    BY <1>2, <1>3, <2>1, <2>2, <2>3
<1>6. CASE CallGetEvent \/ UNCHANGED wVars
  <2>1. UNCHANGED <<fsVars, buffer, todo, regFiles>>
    BY <1>6 DEF CallGetEvent, wVars, watcherVars
  <2>2. Coming(f)' = Coming(f) /\ file' = file
    BY <2>1 DEF Coming, Queued, Tasks, IsLink, fsVars
  <2>3. QED
    BY <1>2, <1>3, <2>1, <2>2
<1>7. ASSUME NEW g \in File, ReturnEvent(g)
      PROVE  Taken(f)' \/ f \in Elems(regFiles') \/ Coming(f)'
  <2>1. /\ UNCHANGED <<fsVars, buffer, todo>> /\ regFiles # <<>> /\ g = Head(regFiles)
        /\ regFiles' = Tail(regFiles) /\ watcher' = "idle" /\ watcher = "looping"
    BY <1>7 DEF ReturnEvent
  <2>2. Coming(f)' = Coming(f) /\ file' = file
    BY <2>1 DEF Coming, Queued, Tasks, IsLink, fsVars
  <2>3. Elems(regFiles) = {g} \cup Elems(regFiles')
    BY <2>1, HeadTailElems DEF WatcherInv, WatcherTypeOK
  <2>4. PICK h \in File : OpenProdFile(h)
    BY <2>1
    DEF Next, SenderStep, vars, wVars, fsVars, watcherVars, UserStep, AddDir, RemoveDir, CreateFile,
        CloseFile, MoveFileIn, LinkFile, SetFile, RemoveFile, Unmount, WatcherStep, AddWatch,
        ReadDir, VisitEntry, ConstructorReturns, ReadEvents, ProcessEvent, Fails, GetNextProd,
        CallGetEvent, GetEventFails, AddProdFile, GetMemSeg, SendSegment, EndOfProduct, PeerSent,
        PeerGets
  <2>5. h = g
    BY <2>1, <2>4 DEF OpenProdFile, ReturnEvent
  <2>6. sender'.file = g \/ sender'.at = "failed"
    BY <2>4, <2>5 DEF OpenProdFile, SenderFails, RepoInv
  <2>7. f = g => Taken(f)'
    BY <2>6 DEF Taken
  <2>8. QED
    BY <1>2, <1>3, <2>2, <2>3, <2>7
<1>8. QED
  BY <1>4, <1>5, <1>6, <1>7, WatcherPart

-----------------------------------------------------------------------------
(* The inductive invariant of the publisher's repository. *)
PubInv == WatcherInv /\ RepoInv /\ FilesInv

LEMMA PubInvariant == Spec => []PubInv
<1>1. Init => PubInv
  <2> SUFFICES ASSUME Init PROVE PubInv
    OBVIOUS
  <2>1. WatcherInv /\ RepoInv
    BY WatcherInitInv, RepoInit DEF Init
  <2>2. \A f \in File : file[f] = "unborn"
    BY DEF Init, WatcherInit
  <2>3. QED
    BY <2>1, <2>2 DEF PubInv, FilesInv
<1>2. PubInv /\ [Next]_vars => PubInv'
  BY WatcherInvariant, RepoInvariant, FilesInvariant DEF PubInv
<1>3. QED
  BY <1>1, <1>2, PTL DEF Spec

(* The repository's variables have their types (Repository.cpp,            *)
(* ProdFile.cpp and Watcher.cpp).                                          *)
THEOREM PubTypeCorrect == Spec => []TypeOK
<1>1. PubInv => TypeOK
  <2>1. ASSUME OpenInv PROVE mapped \subseteq Index
    BY <2>1 DEF OpenInv, Elems
  <2>2. QED
    BY <2>1 DEF PubInv, WatcherInv, RepoInv, OpenInv, TypeOK
<1>2. QED
  BY <1>1, PubInvariant, PTL

(* However users' steps, the watcher's and the sender's interleave, a file *)
(* that was closed or linked is published, or will be, or the watcher      *)
(* throws (Watcher.cpp and PubRepo::getNextProd()).                        *)
THEOREM NoFileMissed == Spec => []NoFileIsMissed
<1>1. PubInv => NoFileIsMissed
  BY FilesMeans DEF PubInv
<1>2. QED
  BY <1>1, PubInvariant, PTL

(* ensureRoom() and the list of open files agree with what is open: the    *)
(* limit holds, and nothing is open that the list does not have.           *)
THEOREM OpenFilesListed == Spec => []OpenFilesAreListed
<1>1. PubInv => OpenFilesAreListed
  <2> SUFFICES ASSUME PubInv PROVE OpenFilesAreListed
    OBVIOUS
  <2>1. /\ openFiles \in Seq(Index) /\ Distinct(openFiles) /\ mapped = Elems(openFiles)
        /\ Len(openFiles) =< MaxOpenFiles /\ \A i \in mapped : prodFiles[i] # NoFile
    BY DEF PubInv, RepoInv, OpenInv
  <2>2. Cardinality(mapped) = Len(openFiles)
    BY <2>1, DistinctCardinality
  <2>3. QED
    BY <2>1, <2>2 DEF OpenFilesAreListed
<1>2. QED
  BY <1>1, PubInvariant, PTL

(* addProdFile() never gives an index to another file, and no other        *)
(* operation changes the table: an index that comes up again after the     *)
(* wrap-around ends the sender.                                            *)
THEOREM IndexPermanent == Spec => IndexIsPermanent
<1>1. ASSUME PubInv, [Next]_vars, NEW i \in Index, prodFiles[i] # NoFile
      PROVE  prodFiles'[i] = prodFiles[i] /\ prodSize'[i] = prodSize[i]
  <2>1. CASE AddProdFile /\ prodFiles[prodIndex] = NoFile
    <3>1. /\ prodFiles' = [prodFiles EXCEPT ![prodIndex] = sender.file]
          /\ prodSize' = [prodSize EXCEPT ![prodIndex] = sender.size]
      BY <2>1 DEF AddProdFile
    <3>2. i # prodIndex
      BY <1>1, <2>1
    <3>3. QED
      BY <1>1, <3>1, <3>2 DEF PubInv, RepoInv
  <2>2. CASE ~(AddProdFile /\ prodFiles[prodIndex] = NoFile)
    <3>1. UNCHANGED <<prodFiles, prodSize>>
      BY <1>1, <2>2
      DEF Next, SenderStep, vars, repoVars, GetNextProd, GetEventFails, AddProdFile, GetMemSeg,
          SendSegment, EndOfProduct, OpenProdFile, PeerSent, PeerGets, GetProdFile
    <3>2. QED
      BY <3>1
  <2>3. QED
    BY <2>1, <2>2
<1>2. PubInv /\ [Next]_vars =>
        [\A i \in Index : prodFiles[i] # NoFile =>
            prodFiles'[i] = prodFiles[i] /\ prodSize'[i] = prodSize[i]]_vars
  BY <1>1
<1>3. QED
  BY <1>2, PubInvariant, PTL DEF Spec, IndexIsPermanent

-----------------------------------------------------------------------------
(* An entry of the earlier implementation's store: while chunks are        *)
(* missing, its vector has those that came, its counter their number and   *)
(* its data their bytes.                                                   *)
EntryInv(p, e) ==
    /\ e \in Entry(p)
    /\ ~e.complete => /\ e.numChunks = Cardinality(e.chunkVec)
                      /\ e.data = UNION {Bytes(p, c) : c \in e.chunkVec}
    /\ e.complete => e.data = 0 .. ProdSize[p] - 1

MapInv ==
    /\ DOMAIN prods \subseteq Prod /\ \A p \in DOMAIN prods : EntryInv(p, prods[p])
    /\ IncompleteIsListed

(* A quotient is rounded down. *)
LEMMA Quotient ==
  ASSUME NEW b \in Nat, NEW k \in Nat \ {0}
  PROVE  b \div k \in Nat /\ (b \div k) * k =< b /\ b < (b \div k) * k + k
<1>1. b \div k \in Int /\ b % k \in 0..(k - 1) /\ b = k * (b \div k) + (b % k)
  OBVIOUS
<1> DEFINE q == b \div k
           r == b % k
<1>2. q \in Int /\ r \in 0..(k - 1) /\ b = k * q + r
  BY <1>1
<1> HIDE DEF q, r
<1>3. q >= 0
  <2> SUFFICES ASSUME q =< -1 PROVE FALSE
    BY <1>2
  <2>1. k * q =< k * (-1)
    BY <1>2
  <2>2. QED
    BY <1>2, <2>1
<1>4. k * q = q * k
  BY <1>2
<1>5. q \in Nat /\ q * k =< b /\ b < q * k + k
  BY <1>2, <1>3, <1>4
<1>6. QED
  BY <1>5 DEF q

(* A smaller factor makes a product that is smaller by the other factor at *)
(* least.                                                                  *)
LEMMA SmallerProduct ==
  ASSUME NEW a \in Nat, NEW b \in Nat, NEW k \in Nat, a < b
  PROVE  a * k + k =< b * k
<1>1. a + 1 =< b
  OBVIOUS
<1>2. (a + 1) * k =< b * k
  BY <1>1
<1>3. (a + 1) * k = a * k + k
  OBVIOUS
<1>4. QED
  BY <1>2, <1>3

(* The chunks of a product have its bytes and no others. *)
LEMMA ChunksCover ==
  ASSUME NEW p \in Prod
  PROVE  /\ NumChunks(p) \in Nat
         /\ \A c \in Chunks(p) : Bytes(p, c) \subseteq 0 .. ProdSize[p] - 1
         /\ UNION {Bytes(p, c) : c \in Chunks(p)} = 0 .. ProdSize[p] - 1
<1> DEFINE s == ProdSize[p]
           k == CanonSize
           n == NumChunks(p)
<1>1. s \in Nat /\ k \in Nat \ {0} /\ s + k - 1 \in Nat
  BY ProdMapAssumption
<1>2. n \in Nat /\ n * k =< s + k - 1 /\ s + k - 1 < n * k + k
  BY <1>1, Quotient DEF NumChunks
<1> HIDE DEF s, k, n
<1>3. \A c \in Chunks(p) : Bytes(p, c) \subseteq 0 .. s - 1
  <2> SUFFICES ASSUME NEW c \in 0 .. n - 1, NEW b \in Bytes(p, c) PROVE b \in 0 .. s - 1
    BY DEF Chunks, n
  <2>1. c \in Nat /\ c < n
    BY <1>2
  <2> DEFINE o == c * k
  <2>2. o \in Nat
    BY <1>1, <2>1
  <2>3. b \in o .. o + (IF o + k <= s THEN k ELSE s - o) - 1
    BY DEF Bytes, ChunkSize, Offset, s, k
  <2> HIDE DEF o
  <2>4. QED
    BY <1>1, <2>2, <2>3
<1>4. ASSUME NEW b \in 0 .. s - 1 PROVE \E c \in Chunks(p) : b \in Bytes(p, c)
  <2>1. b \in Nat
    BY <1>1
  <2> DEFINE c == b \div k
  <2>2. c \in Nat /\ c * k =< b /\ b < c * k + k
    BY <1>1, <2>1, Quotient
  <2> HIDE DEF c
  <2>3. c < n
    <3> SUFFICES ASSUME n =< c PROVE FALSE
      BY <1>2, <2>2
    <3>1. n * k =< c * k
      BY <1>1, <1>2, <2>2
    <3> DEFINE x == n * k
               y == c * k
    <3>2. x \in Nat /\ y \in Nat /\ x =< y /\ y =< b /\ s + k - 1 < x + k
      BY <1>1, <1>2, <2>2, <3>1
    <3> HIDE DEF x, y
    <3>3. QED
      BY <1>1, <2>1, <3>2
  <2>4. c \in Chunks(p)
    BY <1>2, <2>2, <2>3 DEF Chunks, n
  <2> DEFINE o == c * k
  <2>5. o \in Nat /\ o =< b /\ b < o + k
    BY <1>1, <2>2
  <2>6. Bytes(p, c) = o .. o + (IF o + k <= s THEN k ELSE s - o) - 1
    BY DEF Bytes, ChunkSize, Offset, s, k
  <2> HIDE DEF o
  <2>7. b \in Bytes(p, c)
    BY <1>1, <2>1, <2>5, <2>6
  <2>8. QED
    BY <2>4, <2>7
<1>5. QED
  BY <1>2, <1>3, <1>4 DEF s, n

(* Chunks are as many as there are numbers of chunks, and finite. *)
LEMMA ChunksFinite ==
  ASSUME NEW p \in Prod, NEW S \in SUBSET Chunks(p)
  PROVE  /\ IsFiniteSet(S) /\ Cardinality(S) \in Nat /\ Cardinality(S) =< NumChunks(p)
         /\ Cardinality(S) = NumChunks(p) => S = Chunks(p)
<1>1. NumChunks(p) \in Nat
  BY ChunksCover
<1>2. IsFiniteSet(Chunks(p)) /\ Cardinality(Chunks(p)) = NumChunks(p)
  <2>1. 0 \in Int /\ NumChunks(p) - 1 \in Int
    BY <1>1
  <2>2. /\ IsFiniteSet(0 .. NumChunks(p) - 1)
        /\ Cardinality(0 .. NumChunks(p) - 1) =
             IF 0 > NumChunks(p) - 1 THEN 0 ELSE NumChunks(p) - 1 - 0 + 1
    BY <2>1, FS_Interval
  <2>3. QED
    BY <1>1, <2>2 DEF Chunks
<1>3. /\ IsFiniteSet(S) /\ Cardinality(S) =< Cardinality(Chunks(p))
      /\ Cardinality(S) = Cardinality(Chunks(p)) => S = Chunks(p)
  BY <1>2, FS_Subset
<1>4. QED
  BY <1>2, <1>3, FS_CardinalityType

(* A new entry, and one that gets its information. *)
LEMMA InfoEntry ==
  ASSUME NEW p \in Prod
  PROVE  /\ EntryInv(p, NewEntry) /\ ~NewEntry.complete /\ ~NewEntry.name
         /\ \A e : EntryInv(p, e) =>
              /\ EntryInv(p, SetInfo(e)) /\ SetInfo(e).name
              /\ SetInfo(e).complete = e.complete
<1>1. NumChunks(p) \in Nat
  BY ChunksCover
<1>2. EntryInv(p, NewEntry) /\ ~NewEntry.complete /\ ~NewEntry.name
  <2>1. NewEntry \in Entry(p)
    BY <1>1 DEF NewEntry, Entry
  <2>2. /\ NewEntry.chunkVec = {} /\ NewEntry.numChunks = 0 /\ ~NewEntry.complete
        /\ ~NewEntry.name /\ NewEntry.data = {}
    BY DEF NewEntry
  <2>3. QED
    BY <2>1, <2>2, FS_EmptySet DEF EntryInv
<1>3. ASSUME NEW e, EntryInv(p, e)
      PROVE  /\ EntryInv(p, SetInfo(e)) /\ SetInfo(e).name
             /\ SetInfo(e).complete = e.complete
  <2>1. e \in Entry(p)
    BY <1>3 DEF EntryInv
  <2>2. /\ SetInfo(e) \in Entry(p) /\ SetInfo(e).name
        /\ SetInfo(e).complete = e.complete /\ SetInfo(e).chunkVec = e.chunkVec
        /\ SetInfo(e).numChunks = e.numChunks /\ SetInfo(e).data = e.data
    BY <2>1 DEF SetInfo, Entry
  <2>3. QED
    BY <1>3, <2>2 DEF EntryInv
<1>4. QED
  BY <1>2, <1>3

(* An entry that gets a chunk: when the counter says that it is complete,  *)
(* the bytes are all there.                                                *)
LEMMA ChunkEntry ==
  ASSUME NEW p \in Prod, NEW c \in Chunks(p), NEW e, EntryInv(p, e)
  PROVE  LET new == AddToProduct(e, p, c) IN
         /\ EntryInv(p, new) /\ new.name = e.name
         /\ e.complete => new.complete
         /\ new.complete /\ ~e.complete => c \notin e.chunkVec
<1> DEFINE n == e.numChunks + 1
           done == n = NumChunks(p)
           new == WithChunk(e, p, c)
<1>1. CASE e.complete \/ c \in e.chunkVec
  BY <1>1 DEF AddToProduct
<1>2. CASE ~e.complete /\ c \notin e.chunkVec
  <2>1. AddToProduct(e, p, c) = new
    BY <1>2 DEF AddToProduct
  <2>2. /\ e \in Entry(p) /\ e.numChunks = Cardinality(e.chunkVec)
        /\ e.data = UNION {Bytes(p, d) : d \in e.chunkVec}
    BY <1>2 DEF EntryInv
  <2>3. e.chunkVec \in SUBSET Chunks(p) /\ e.data \subseteq 0 .. ProdSize[p] - 1
    BY <2>2 DEF Entry
  <2> DEFINE vec == e.chunkVec \cup {c}
  <2>4. vec \in SUBSET Chunks(p) /\ IsFiniteSet(e.chunkVec)
    BY <2>3, ChunksFinite
  <2>5. Cardinality(vec) = n
    BY <1>2, <2>2, <2>4, FS_AddElement
  <2>6. n \in Nat /\ n =< NumChunks(p) /\ (done => vec = Chunks(p)) /\ NumChunks(p) \in Nat
    BY <2>4, <2>5, ChunksFinite, ChunksCover
  <2>7. Bytes(p, c) \subseteq 0 .. ProdSize[p] - 1
    BY ChunksCover
  <2>8. /\ new \in Entry(p) /\ new.name = e.name /\ new.numChunks = n
        /\ (new.complete <=> done) /\ new.chunkVec = (IF done THEN {} ELSE vec)
        /\ new.data = e.data \cup Bytes(p, c)
    <3> DEFINE b == Bytes(p, c)
               m == NumChunks(p)
               D == 0 .. ProdSize[p] - 1
               Ch == Chunks(p)
    <3>1. new = [e EXCEPT !.numChunks = n, !.complete = (n = m),
                          !.chunkVec = IF n = m THEN {} ELSE @ \cup {c}, !.data = @ \cup b]
      BY DEF WithChunk
    <3>2. /\ e \in [name : BOOLEAN, chunkVec : SUBSET Ch, numChunks : 0 .. m, complete : BOOLEAN,
                   data : SUBSET D]
          /\ n \in 0 .. m /\ b \subseteq D /\ e.chunkVec \cup {c} \subseteq Ch
      BY <2>2, <2>4, <2>6, <2>7 DEF Entry
    <3>3. vec = e.chunkVec \cup {c} /\ (done <=> n = m)
      OBVIOUS
    <3> HIDE DEF new, n, done, vec, b, m, D, Ch
    <3>4. /\ new.name = e.name /\ new.numChunks = n /\ (new.complete <=> n = m)
          /\ new.chunkVec = (IF n = m THEN {} ELSE e.chunkVec \cup {c})
          /\ new.data = e.data \cup b
      BY <3>1, <3>2
    <3>5. new \in [name : BOOLEAN, chunkVec : SUBSET Ch, numChunks : 0 .. m, complete : BOOLEAN,
                 data : SUBSET D]
      <4>1. /\ (IF n = m THEN {} ELSE e.chunkVec \cup {c}) \in SUBSET Ch
            /\ e.data \cup b \in SUBSET D /\ (n = m) \in BOOLEAN
        BY <3>2
      <4>2. QED
        BY <3>1, <3>2, <4>1
    <3>6. QED
      BY <3>3, <3>4, <3>5 DEF b, m, D, Ch, Entry
  <2>9. new.data = UNION {Bytes(p, d) : d \in vec}
    BY <2>2, <2>8
  <2> HIDE DEF vec
  <2>10. done => new.data = 0 .. ProdSize[p] - 1
    BY <2>6, <2>9, ChunksCover
  <2> HIDE DEF new, n, done
  <2>11. EntryInv(p, new)
    BY <2>5, <2>8, <2>9, <2>10 DEF EntryInv
  <2>12. QED
    BY <1>2, <2>1, <2>8, <2>11
<1>3. QED
  BY <1>1, <1>2

(* An entry is put into the map. *)
LEMMA PutEntry ==
  ASSUME MapInv, NEW p \in Prod, NEW e, EntryInv(p, e),
         \/ ~Known(p) /\ ~EntryIsComplete(e) /\ Emplace(p, e)
         \/ Known(p) /\ (EntryIsComplete(prods[p]) => EntryIsComplete(e)) /\ Replace(p, e)
  PROVE  /\ MapInv' /\ DOMAIN prods' = DOMAIN prods \cup {p} /\ prods'[p] = e
         /\ \A q \in DOMAIN prods \ {p} : prods'[q] = prods[q]
<1>1. CASE ~Known(p) /\ ~EntryIsComplete(e) /\ Emplace(p, e)
  <2>1. /\ DOMAIN prods' = DOMAIN prods \cup {p} /\ prods'[p] = e
        /\ \A q \in DOMAIN prods \ {p} : prods'[q] = prods[q]
    BY <1>1 DEF Emplace, With, Known
  <2>2. incomplete' = incomplete \cup {p} /\ p \notin DOMAIN prods
    BY <1>1 DEF Emplace, Known
  <2>3. IncompleteIsListed'
    BY <1>1, <2>1, <2>2 DEF MapInv, IncompleteIsListed
  <2>4. QED
    BY <2>1, <2>3 DEF MapInv
<1>2. CASE Known(p) /\ (EntryIsComplete(prods[p]) => EntryIsComplete(e)) /\ Replace(p, e)
  <2>1. /\ DOMAIN prods' = DOMAIN prods \cup {p} /\ prods'[p] = e
        /\ \A q \in DOMAIN prods \ {p} : prods'[q] = prods[q]
    BY <1>2 DEF Replace, Known
  <2>2. incomplete' = IF EntryIsComplete(e) THEN incomplete \ {p} ELSE incomplete
    BY <1>2 DEF Replace
  <2>3. IncompleteIsListed'
    <3>1. CASE EntryIsComplete(e)
      BY <2>1, <2>2, <3>1 DEF MapInv, IncompleteIsListed
    <3>2. CASE ~EntryIsComplete(e)
      <4>1. p \in incomplete
        BY <1>2, <3>2 DEF MapInv, IncompleteIsListed, Known
      <4>2. QED
        BY <2>1, <2>2, <3>2, <4>1 DEF MapInv, IncompleteIsListed
    <3>3. QED
      BY <3>1, <3>2
  <2>4. QED
    BY <2>1, <2>3 DEF MapInv
<1>3. QED
  BY <1>1, <1>2

(* What can be received. *)
LEMMA ItemParts ==
  ASSUME NEW x \in Item
  PROVE  x[1] \in Prod /\ (x[2] = INFO \/ x[2] \in Chunks(x[1]))
BY DEF Item

(* An item is added to the map: its product becomes complete with an item  *)
(* that is new and not the product's first, or not at all.                 *)
LEMMA ItemAdded ==
  ASSUME MapInv, NEW x \in Item,
         IF x[2] = INFO THEN MapAddInfo(x[1]) ELSE MapAddChunk(x[1], x[2])
  PROVE  LET p == x[1]
             was == Known(p) /\ EntryIsComplete(prods[p])
         IN  /\ MapInv' /\ DOMAIN prods' = DOMAIN prods \cup {p}
             /\ \A q \in DOMAIN prods \ {p} : prods'[q] = prods[q]
             /\ was => EntryIsComplete(prods'[p])
             /\ EntryIsComplete(prods'[p]) => Known(p)
             /\ was <=> /\ EntryIsComplete(prods'[p])
                        /\ ~(~HasItem(x) /\ Known(p) /\ EntryIsComplete(prods'[p]))
<1> DEFINE p == x[1]
           was == Known(p) /\ EntryIsComplete(prods[p])
<1>1. p \in Prod /\ (x[2] = INFO \/ x[2] \in Chunks(p))
  BY ItemParts
<1>2. Known(p) => EntryInv(p, prods[p])
  BY DEF MapInv, Known
<1>3. CASE x[2] = INFO
  <2>1. CASE ~Known(p)
    <3>1. /\ EntryInv(p, SetInfo(NewEntry)) /\ ~EntryIsComplete(SetInfo(NewEntry))
          /\ Emplace(p, SetInfo(NewEntry))
      BY <1>1, <1>3, <2>1, InfoEntry DEF MapAddInfo, EntryIsComplete
    <3>2. /\ MapInv' /\ DOMAIN prods' = DOMAIN prods \cup {p} /\ prods'[p] = SetInfo(NewEntry)
          /\ \A q \in DOMAIN prods \ {p} : prods'[q] = prods[q]
      BY <1>1, <2>1, <3>1, PutEntry
    <3>3. QED
      BY <2>1, <3>1, <3>2
  <2>2. CASE Known(p)
    <3> DEFINE e == SetInfo(prods[p])
    <3>1. EntryInv(p, e) /\ e.name /\ e.complete = prods[p].complete /\ Replace(p, e)
      BY <1>1, <1>2, <1>3, <2>2, InfoEntry DEF MapAddInfo
    <3> HIDE DEF e
    <3>2. EntryIsComplete(prods[p]) => EntryIsComplete(e)
      BY <3>1 DEF EntryIsComplete
    <3>3. /\ MapInv' /\ DOMAIN prods' = DOMAIN prods \cup {p} /\ prods'[p] = e
          /\ \A q \in DOMAIN prods \ {p} : prods'[q] = prods[q]
      BY <1>1, <2>2, <3>1, <3>2, PutEntry
    <3>4. HasItem(x) <=> prods[p].name
      BY <1>3, <2>2 DEF HasItem, HaveProdInfo
    <3>5. QED
      BY <2>2, <3>1, <3>2, <3>3, <3>4 DEF EntryIsComplete
  <2>3. QED
    BY <2>1, <2>2
<1>4. CASE x[2] # INFO
  <2> DEFINE c == x[2]
  <2>1. c \in Chunks(p) /\ MapAddChunk(p, c)
    BY <1>1, <1>4
  <2>2. CASE ~Known(p)
    <3> DEFINE e == AddToProduct(NewEntry, p, c)
    <3>1. EntryInv(p, e) /\ e.name = NewEntry.name /\ ~NewEntry.name
      BY <1>1, <2>1, InfoEntry, ChunkEntry
    <3>2. ~EntryIsComplete(e) /\ Emplace(p, e)
      BY <2>1, <2>2, <3>1 DEF MapAddChunk, EntryIsComplete
    <3> HIDE DEF e
    <3>3. /\ MapInv' /\ DOMAIN prods' = DOMAIN prods \cup {p} /\ prods'[p] = e
          /\ \A q \in DOMAIN prods \ {p} : prods'[q] = prods[q]
      BY <1>1, <2>2, <3>1, <3>2, PutEntry
    <3>4. QED
      BY <2>2, <3>2, <3>3
  <2>3. CASE Known(p)
    <3> DEFINE e == AddToProduct(prods[p], p, c)
    <3>1. /\ EntryInv(p, e) /\ e.name = prods[p].name /\ (prods[p].complete => e.complete)
          /\ e.complete /\ ~prods[p].complete => c \notin prods[p].chunkVec
      BY <1>1, <1>2, <2>1, <2>3, ChunkEntry
    <3>2. Replace(p, e)
      BY <2>1, <2>3 DEF MapAddChunk
    <3> HIDE DEF e
    <3>3. EntryIsComplete(prods[p]) => EntryIsComplete(e)
      BY <3>1 DEF EntryIsComplete
    <3>4. /\ MapInv' /\ DOMAIN prods' = DOMAIN prods \cup {p} /\ prods'[p] = e
          /\ \A q \in DOMAIN prods \ {p} : prods'[q] = prods[q]
      BY <1>1, <2>3, <3>1, <3>2, <3>3, PutEntry
    <3>5. HasItem(x) <=> prods[p].complete \/ c \in prods[p].chunkVec
      BY <1>4, <2>1, <2>3 DEF HasItem, HaveChunk
    <3>6. QED
      BY <2>3, <3>1, <3>3, <3>4, <3>5 DEF EntryIsComplete
  <2>4. QED
    BY <2>2, <2>3
<1>5. QED
  BY <1>3, <1>4

(* An entry is erased. *)
LEMMA EntryErased ==
  ASSUME MapInv, NEW p, MapErase(p)
  PROVE  /\ MapInv' /\ DOMAIN prods' = DOMAIN prods \ {p}
         /\ \A q \in DOMAIN prods' : prods'[q] = prods[q]
<1>1. /\ DOMAIN prods' = DOMAIN prods \ {p}
      /\ \A q \in DOMAIN prods' : prods'[q] = prods[q]
  BY DEF MapErase, Restrict
<1>2. incomplete' = incomplete \ {p}
  BY DEF MapErase
<1>3. QED
  BY <1>1, <1>2 DEF MapInv, IncompleteIsListed

-----------------------------------------------------------------------------
(* The thread brought what made the product complete, and has it processed *)
(* or will do so.                                                          *)
Winner(t, p) ==
    rpc[t][1] \in {"added", "process"} /\ rpc[t][2][1] = p /\ rpc[t][3] /\ rpc[t][4]

Whole(p) == p \in DOMAIN prods /\ EntryIsComplete(prods[p])

(* A complete product has been processed, or exactly one thread will have  *)
(* it processed; an incomplete one has not.                                *)
HandedInv(p) ==
    /\ (\A t \in Thread : ~Winner(t, p)) => handed[p] = IF Whole(p) THEN 1 ELSE 0
    /\ \A t \in Thread : Winner(t, p) => Whole(p) /\ handed[p] = 0
    /\ \A t, u \in Thread : Winner(t, p) /\ Winner(u, p) => t = u

(* A product in the store has the time at which it came, and what is said  *)
(* of its deletion lies a residence-time behind that.                      *)
TimeInv ==
    /\ DOMAIN prods \subseteq DOMAIN born /\ DOMAIN born \subseteq Prod
    /\ clock \in Nat
    /\ \A p \in DOMAIN born : born[p] \in Nat /\ born[p] =< clock
    /\ \A t \in Thread : rpc[t][1] = "added" => rpc[t][2][1] \in DOMAIN born
    /\ delayQ \in Seq(Prod \X Nat)
    /\ \A i \in DOMAIN delayQ : /\ delayQ[i][1] \in DOMAIN born
                                /\ delayQ[i][2] >= born[delayQ[i][1]] + Residence
    /\ deleter[1] = "timed" => delayQ # <<>> /\ deleter[2] = Head(delayQ)[2]
    /\ deleter[1] = "popped" => /\ deleter[2] \in DOMAIN born
                                /\ clock >= born[deleter[2]] + Residence

RecvInv ==
    /\ MapInv
    /\ DOMAIN rpc = Thread /\ DOMAIN handed = Prod
    /\ \A p \in Prod \ gone : HandedInv(p)
    /\ TimeInv

(* An item comes: whoever makes its product complete is the one that will  *)
(* have it processed.                                                      *)
LEMMA AcceptInv ==
  ASSUME RecvInv, NEW t \in Thread, NEW x \in Item, Accept(t, x)
  PROVE  RecvInv'
<1> DEFINE p == x[1]
           isNew == ~HasItem(x)
           done == Known(p) /\ EntryIsComplete(prods'[p])
<1>1. /\ rpc[t] = Idle /\ rpc' = [rpc EXCEPT ![t] = <<"added", x, isNew, done>>]
      /\ born' = IF p \in DOMAIN born THEN born ELSE With(born, p, clock)
      /\ UNCHANGED <<queueVars, clock, handed, gone>>
  BY DEF Accept, Ready, Goto
<1>2. /\ MapInv' /\ DOMAIN prods' = DOMAIN prods \cup {p}
      /\ \A q \in DOMAIN prods \ {p} : prods'[q] = prods[q]
      /\ Known(p) /\ EntryIsComplete(prods[p]) => EntryIsComplete(prods'[p])
      /\ EntryIsComplete(prods'[p]) => Known(p)
      /\ Known(p) /\ EntryIsComplete(prods[p]) <=> EntryIsComplete(prods'[p]) /\ ~(isNew /\ done)
  BY ItemAdded DEF RecvInv, Accept
<1>3. p \in Prod
  BY ItemParts
<1> HIDE DEF p, isNew, done
<1>4. /\ rpc'[t][1] = "added" /\ rpc'[t][2] = x /\ (rpc'[t][3] <=> isNew) /\ (rpc'[t][4] <=> done)
      /\ \A u \in Thread \ {t} : rpc'[u] = rpc[u]
      /\ DOMAIN rpc' = Thread
  BY <1>1 DEF RecvInv
<1>5. \A q : ~Winner(t, q)
  BY <1>1 DEF Winner, Idle
<1>6. \A q : Winner(t, q)' <=> q = p /\ isNew /\ done
  BY <1>4 DEF Winner, p
<1>7. \A u \in Thread \ {t} : \A q : Winner(u, q)' <=> Winner(u, q)
  BY <1>4 DEF Winner
<1>8. ASSUME NEW q \in Prod \ gone PROVE HandedInv(q)'
  <2>1. handed'[q] = handed[q] /\ HandedInv(q)
    BY <1>1 DEF RecvInv
  <2>2. CASE q # p
    <3>1. Whole(q)' <=> Whole(q)
      BY <1>2, <2>2 DEF Whole
    <3>2. \A u \in Thread : Winner(u, q)' <=> Winner(u, q)
      BY <1>5, <1>6, <1>7, <2>2
    <3>3. QED
      BY <2>1, <3>1, <3>2 DEF HandedInv
  <2>3. CASE q = p
    <3>1. Whole(q) <=> Whole(q)' /\ ~(isNew /\ done)
      BY <1>2, <2>3 DEF Whole, Known
    <3>2. isNew /\ done => Whole(q)'
      BY <1>2, <2>3 DEF Whole, done
    <3>3. CASE isNew /\ done
      <4>1. ~Whole(q) /\ Whole(q)'
        BY <3>1, <3>2, <3>3
      <4>2. handed[q] = 0 /\ \A u \in Thread : ~Winner(u, q)
        BY <2>1, <4>1 DEF HandedInv
      <4>3. \A u \in Thread : Winner(u, q)' <=> u = t
        BY <1>6, <1>7, <2>3, <3>3, <4>2
      <4>4. QED
        BY <2>1, <4>1, <4>2, <4>3 DEF HandedInv
    <3>4. CASE ~(isNew /\ done)
      <4>1. Whole(q)' <=> Whole(q)
        BY <3>1, <3>4
      <4>2. \A u \in Thread : Winner(u, q)' <=> Winner(u, q)
        BY <1>5, <1>6, <1>7, <3>4
      <4>3. QED
        BY <2>1, <4>1, <4>2 DEF HandedInv
    <3>5. QED
      BY <3>3, <3>4
  <2>4. QED
    BY <2>2, <2>3
<1>9. /\ DOMAIN born' = DOMAIN born \cup {p} /\ born'[p] \in Nat /\ born'[p] =< clock
      /\ \A q \in DOMAIN born : born'[q] = born[q]
  BY <1>1 DEF With, RecvInv, TimeInv
<1>10. TimeInv'
  BY <1>1, <1>2, <1>3, <1>4, <1>9 DEF RecvInv, TimeInv, queueVars, p
<1>11. QED
  BY <1>1, <1>2, <1>4, <1>8, <1>10 DEF RecvInv

(* The rest of the steps of a thread that brought something. *)
LEMMA AddReturnsInv ==
  ASSUME RecvInv, NEW t \in Thread, AddReturns(t)
  PROVE  RecvInv'
<1> DEFINE p == rpc[t][2][1]
           when == clock + Residence
<1>1. /\ rpc[t][1] = "added"
      /\ rpc' = [rpc EXCEPT ![t] = <<"process", rpc[t][2], rpc[t][3], rpc[t][4]>>]
      /\ PushDelete(p) \/ UNCHANGED queueVars
      /\ UNCHANGED <<prodMapVars, clock, ghostVars>>
  BY DEF AddReturns, Goto
<1>2. p \in DOMAIN born /\ p \in Prod
  BY <1>1 DEF RecvInv, TimeInv
<1> HIDE DEF p
<1>3. /\ rpc'[t][1] = "process" /\ rpc'[t][2] = rpc[t][2]
      /\ (rpc'[t][3] <=> rpc[t][3]) /\ (rpc'[t][4] <=> rpc[t][4])
      /\ \A u \in Thread \ {t} : rpc'[u] = rpc[u]
      /\ DOMAIN rpc' = Thread
  BY <1>1 DEF RecvInv
<1>4. \A u \in Thread : \A q : Winner(u, q)' <=> Winner(u, q)
  BY <1>1, <1>3 DEF Winner
<1>5. \A q \in Prod \ gone : HandedInv(q)'
  BY <1>1, <1>4 DEF RecvInv, HandedInv, Whole, prodMapVars, ghostVars
<1>6. MapInv'
  BY <1>1 DEF RecvInv, MapInv, IncompleteIsListed, prodMapVars
<1>7. CASE UNCHANGED queueVars
  <2>1. TimeInv'
    BY <1>1, <1>3, <1>7 DEF RecvInv, TimeInv, prodMapVars, ghostVars, queueVars
  <2>2. QED
    BY <1>1, <1>3, <1>5, <1>6, <2>1 DEF RecvInv, ghostVars
<1>8. CASE PushDelete(p)
  <2>1. delayQ' = Append(delayQ, <<p, when>>)
    BY <1>8 DEF PushDelete
  <2>2. <<p, when>> \in Prod \X Nat /\ when >= born[p] + Residence
    BY <1>2, ReceivingAssumption DEF RecvInv, TimeInv
  <2>3. delayQ \in Seq(Prod \X Nat)
    BY DEF RecvInv, TimeInv
  <2> DEFINE e == <<p, when>>
             n == Len(delayQ)
  <2>4. e[1] = p /\ e[2] = when
    OBVIOUS
  <2> HIDE DEF e
  <2>5. /\ delayQ' \in Seq(Prod \X Nat) /\ n \in Nat /\ Len(delayQ') = n + 1
        /\ \A i \in 1..n : delayQ'[i] = delayQ[i]
        /\ delayQ'[n + 1] = e /\ DOMAIN delayQ = 1..n /\ DOMAIN delayQ' = 1..(n + 1)
    BY <2>1, <2>2, <2>3 DEF e
  <2>6. \A i \in DOMAIN delayQ' : /\ delayQ'[i][1] \in DOMAIN born
                                  /\ delayQ'[i][2] >= born[delayQ'[i][1]] + Residence
    <3> SUFFICES ASSUME NEW i \in 1..(n + 1)
                 PROVE  /\ delayQ'[i][1] \in DOMAIN born
                        /\ delayQ'[i][2] >= born[delayQ'[i][1]] + Residence
      BY <2>5
    <3>1. CASE i \in 1..n
      BY <2>5, <3>1 DEF RecvInv, TimeInv
    <3>2. CASE i = n + 1
      BY <1>2, <2>2, <2>4, <2>5, <3>2
    <3>3. QED
      BY <2>5, <3>1, <3>2
  <2>7. delayQ # <<>> => delayQ' # <<>> /\ Head(delayQ') = Head(delayQ)
    BY <2>5
  <2>8. deleter' = deleter \/ deleter'[1] = "look"
    BY <1>8 DEF PushDelete
  <2>9. TimeInv'
    BY <1>1, <1>3, <2>5, <2>6, <2>7, <2>8 DEF RecvInv, TimeInv, prodMapVars, ghostVars
  <2>10. QED
    BY <1>1, <1>3, <1>5, <1>6, <2>9 DEF RecvInv, ghostVars
<1>9. QED
  BY <1>1, <1>7, <1>8

(* The product is processed, by its winner. *)
LEMMA ProcessInv ==
  ASSUME RecvInv, NEW t \in Thread, Process(t)
  PROVE  RecvInv'
<1> DEFINE p == rpc[t][2][1]
<1>1. /\ rpc[t][1] = "process" /\ rpc' = [rpc EXCEPT ![t] = Idle]
      /\ handed' = IF rpc[t][3] /\ rpc[t][4] THEN [handed EXCEPT ![p] = @ + 1] ELSE handed
      /\ UNCHANGED <<prodMapVars, queueVars, clock, born, gone>>
  BY DEF Process, Goto, ShouldProcess
<1>2. /\ rpc'[t] = Idle /\ \A u \in Thread \ {t} : rpc'[u] = rpc[u]
      /\ DOMAIN rpc' = Thread /\ DOMAIN handed' = Prod
  BY <1>1 DEF RecvInv
<1>3. /\ \A q : ~Winner(t, q)'
      /\ \A u \in Thread \ {t} : \A q : Winner(u, q)' <=> Winner(u, q)
  BY <1>2 DEF Winner, Idle
<1>4. \A q : Winner(t, q) <=> q = p /\ rpc[t][3] /\ rpc[t][4]
  BY <1>1 DEF Winner
<1> HIDE DEF p
<1>5. ASSUME NEW q \in Prod \ gone PROVE HandedInv(q)'
  <2>1. HandedInv(q) /\ (Whole(q)' <=> Whole(q))
    BY <1>1 DEF RecvInv, Whole, prodMapVars
  <2>2. CASE Winner(t, q)
    <3>1. handed[q] = 0 /\ Whole(q) /\ \A u \in Thread \ {t} : ~Winner(u, q)
      BY <2>1, <2>2 DEF HandedInv
    <3>2. handed'[q] = 1
      BY <1>1, <1>4, <2>2, <3>1 DEF RecvInv
    <3>3. QED
      BY <1>3, <2>1, <3>1, <3>2 DEF HandedInv
  <2>3. CASE ~Winner(t, q)
    <3>1. handed'[q] = handed[q]
      BY <1>1, <1>4, <2>3 DEF RecvInv
    <3>2. \A u \in Thread : Winner(u, q)' <=> Winner(u, q)
      BY <1>3, <2>3
    <3>3. QED
      BY <2>1, <3>1, <3>2 DEF HandedInv
  <2>4. QED
    BY <2>2, <2>3
<1>6. MapInv'
  BY <1>1 DEF RecvInv, MapInv, IncompleteIsListed, prodMapVars
<1>7. TimeInv'
  BY <1>1, <1>2 DEF RecvInv, TimeInv, prodMapVars, queueVars, Idle
<1>8. QED
  BY <1>1, <1>2, <1>5, <1>6, <1>7 DEF RecvInv

(* Whatever else threads do changes nothing but their places. *)
LEMMA PlacesInv ==
  ASSUME RecvInv, NEW t \in Thread, NEW place, Goto(t, place),
         rpc[t][1] \notin {"added", "process"}, place[1] \notin {"added", "process"},
         UNCHANGED <<prodMapVars, queueVars, clock, ghostVars>>
  PROVE  RecvInv'
<1>1. /\ DOMAIN rpc' = Thread
      /\ \A u \in Thread : \/ rpc'[u] = rpc[u]
                           \/ /\ rpc[u][1] # "added" /\ rpc[u][1] # "process"
                              /\ rpc'[u][1] # "added" /\ rpc'[u][1] # "process"
  BY DEF RecvInv, Goto
<1>2. \A u \in Thread : \A q : Winner(u, q)' <=> Winner(u, q)
  BY <1>1 DEF Winner
<1>3. \A q \in Prod \ gone : HandedInv(q)'
  BY <1>2 DEF RecvInv, HandedInv, Whole, prodMapVars, ghostVars
<1>4. MapInv'
  BY DEF RecvInv, MapInv, IncompleteIsListed, prodMapVars
<1>5. TimeInv'
  BY <1>1 DEF RecvInv, TimeInv, prodMapVars, queueVars, ghostVars
<1>6. QED
  BY <1>1, <1>3, <1>4, <1>5 DEF RecvInv, ghostVars

(* The threads that receive. *)
LEMMA ThreadsInv ==
  ASSUME RecvInv, ReceivingNext
  PROVE  RecvInv' \/ DeleterStep \/ Destroy \/ Tick
<1>1. ASSUME NEW t \in Thread, AcceptThrows(t) \/ ReceiveShort(t)
      PROVE  RecvInv'
  <2>1. /\ Goto(t, <<"ended">>) /\ rpc[t] = Idle
        /\ UNCHANGED <<prodMapVars, queueVars, clock, ghostVars>>
    BY <1>1 DEF AcceptThrows, ReceiveShort, Ready
  <2>2. <<"ended">>[1] \notin {"added", "process"} /\ rpc[t][1] \notin {"added", "process"}
    BY <2>1 DEF Idle
  <2>3. QED
    BY <2>1, <2>2, PlacesInv
<1>2. ASSUME NEW r \in Remote, NEW x \in Offered, CheckStore(r, x) \/ GetItem(r, x)
      PROVE  RecvInv'
  <2>1. /\ r \in Thread /\ rpc[r] = Idle
        /\ Goto(r, <<"checked", x>>) \/ Goto(r, <<"sending", x>>)
        /\ UNCHANGED <<prodMapVars, queueVars, clock, ghostVars>>
    BY <1>2 DEF CheckStore, GetItem, Ready, Thread
  <2>2. /\ <<"checked", x>>[1] \notin {"added", "process"}
        /\ <<"sending", x>>[1] \notin {"added", "process"}
        /\ rpc[r][1] \notin {"added", "process"}
    BY <2>1 DEF Idle
  <2>3. QED
    BY <2>1, <2>2, PlacesInv
<1>3. ASSUME NEW r \in Remote, RequestItem(r) \/ SendItem(r) \/ RemoteLeaves(r)
      PROVE  RecvInv'
  <2>1. /\ r \in Thread /\ Goto(r, Idle)
        /\ rpc[r][1] \in {"checked", "sending"} \/ rpc[r] \in {Idle, <<"ended">>}
        /\ UNCHANGED <<prodMapVars, queueVars, clock, ghostVars>>
    BY <1>3 DEF RequestItem, SendItem, RemoteLeaves, Thread
  <2>2. Idle[1] \notin {"added", "process"} /\ rpc[r][1] \notin {"added", "process"}
    BY <2>1 DEF Idle
  <2>3. QED
    BY <2>1, <2>2, PlacesInv
<1>4. QED
  BY <1>1, <1>2, <1>3, AcceptInv, AddReturnsInv, ProcessInv DEF ReceivingNext

(* The deletion thread, which waits until a product's time has come. *)
LEMMA DeleterInv ==
  ASSUME RecvInv, DeleterStep
  PROVE  RecvInv'
<1>1. ASSUME UNCHANGED <<prods, incomplete, rpc, handed, gone>>, TimeInv'
      PROVE  RecvInv'
  <2>1. \A q \in Prod \ gone : HandedInv(q)'
    BY <1>1 DEF RecvInv, HandedInv, Whole, Winner
  <2>2. MapInv'
    BY <1>1 DEF RecvInv, MapInv, IncompleteIsListed
  <2>3. QED
    BY <1>1, <2>1, <2>2 DEF RecvInv
<1>2. CASE LookForOld
  <2>1. /\ \/ delayQ = <<>> /\ deleter' = <<"empty">>
           \/ delayQ # <<>> /\ deleter' = <<"timed", Head(delayQ)[2]>>
        /\ UNCHANGED <<prodMapVars, rpc, delayQ, clock, ghostVars>>
    BY <1>2 DEF LookForOld
  <2>2. TimeInv'
    BY <2>1 DEF RecvInv, TimeInv, prodMapVars, ghostVars
  <2>3. QED
    BY <1>1, <2>1, <2>2 DEF prodMapVars, ghostVars
<1>3. CASE FallAsleep \/ DeleterIsCanceled
  <2>1. /\ deleter' = <<"asleep">> \/ deleter' = <<"ended">>
        /\ UNCHANGED <<prodMapVars, rpc, delayQ, clock, ghostVars>>
    BY <1>3 DEF FallAsleep, DeleterIsCanceled
  <2>2. TimeInv'
    BY <2>1 DEF RecvInv, TimeInv, prodMapVars, ghostVars
  <2>3. QED
    BY <1>1, <2>1, <2>2 DEF prodMapVars, ghostVars
<1>4. CASE PopOld
  <2> DEFINE S == Prod \X Nat
             h == Head(delayQ)
             rest == Tail(delayQ)
  <2>1. /\ deleter[1] = "timed" /\ deleter[2] =< clock
        /\ deleter' = <<"popped", h[1]>> /\ delayQ' = rest
        /\ UNCHANGED <<prodMapVars, rpc, clock, ghostVars>>
    BY <1>4 DEF PopOld, IsDue
  <2>2. delayQ \in Seq(S) /\ delayQ # <<>> /\ deleter[2] = h[2]
    BY <2>1 DEF RecvInv, TimeInv
  <2>3. /\ rest \in Seq(S) /\ Len(delayQ) \in Nat \ {0} /\ Len(rest) = Len(delayQ) - 1
        /\ \A i \in 1..Len(rest) : rest[i] = delayQ[i + 1]
        /\ h = delayQ[1] /\ DOMAIN rest = 1..Len(rest) /\ DOMAIN delayQ = 1..Len(delayQ)
    BY <2>2
  <2>4. h[1] \in DOMAIN born /\ h[2] >= born[h[1]] + Residence /\ h[2] \in Nat
    <3>1. 1 \in DOMAIN delayQ /\ h \in S
      BY <2>2, <2>3
    <3>2. QED
      BY <2>3, <3>1 DEF RecvInv, TimeInv
  <2> HIDE DEF S, h, rest
  <2>5. \A i \in DOMAIN rest : /\ rest[i][1] \in DOMAIN born
                               /\ rest[i][2] >= born[rest[i][1]] + Residence
    <3> SUFFICES ASSUME NEW i \in DOMAIN rest
                 PROVE  /\ rest[i][1] \in DOMAIN born
                        /\ rest[i][2] >= born[rest[i][1]] + Residence
      OBVIOUS
    <3>1. i + 1 \in DOMAIN delayQ /\ rest[i] = delayQ[i + 1]
      BY <2>3
    <3>2. QED
      BY <3>1 DEF RecvInv, TimeInv
  <2>6. clock >= born[h[1]] + Residence
    BY <2>1, <2>2, <2>4, ReceivingAssumption DEF RecvInv, TimeInv
  <2>7. deleter'[1] = "popped" /\ deleter'[2] = h[1]
    BY <2>1
  <2>8. TimeInv'
    BY <2>1, <2>3, <2>4, <2>5, <2>6, <2>7 DEF RecvInv, TimeInv, prodMapVars, ghostVars, S
  <2>9. QED
    BY <1>1, <2>1, <2>8 DEF prodMapVars, ghostVars
<1>5. CASE EraseOld
  <2> DEFINE p == deleter[2]
  <2>1. /\ deleter[1] = "popped" /\ MapErase(p) /\ gone' = gone \cup {p} /\ deleter' = <<"look">>
        /\ UNCHANGED <<rpc, delayQ, clock, born, handed>>
    BY <1>5 DEF EraseOld
  <2>2. /\ MapInv' /\ DOMAIN prods' = DOMAIN prods \ {p}
        /\ \A q \in DOMAIN prods' : prods'[q] = prods[q]
    BY <2>1, EntryErased DEF RecvInv
  <2> HIDE DEF p
  <2>3. TimeInv'
    BY <2>1, <2>2 DEF RecvInv, TimeInv
  <2>4. ASSUME NEW q \in Prod \ gone' PROVE HandedInv(q)'
    <3>1. q # p /\ HandedInv(q)
      BY <2>1, <2>4 DEF RecvInv
    <3>2. (Whole(q)' <=> Whole(q)) /\ \A u \in Thread : Winner(u, q)' <=> Winner(u, q)
      BY <2>1, <2>2, <3>1 DEF Whole, Winner
    <3>3. QED
      BY <2>1, <3>1, <3>2 DEF HandedInv
  <2>5. QED
    BY <2>1, <2>2, <2>3, <2>4 DEF RecvInv
<1>6. QED
  BY <1>2, <1>3, <1>4, <1>5 DEF DeleterStep

(* The inductive invariant of the earlier implementation's receiver. *)
LEMMA RecvInvariant == ReceivingSpec => []RecvInv
<1>1. ReceivingInit => RecvInv
  <2> SUFFICES ASSUME ReceivingInit PROVE RecvInv
    OBVIOUS
  <2>1. /\ DOMAIN prods = {} /\ incomplete = {} /\ DOMAIN born = {} /\ DOMAIN delayQ = {}
        /\ delayQ \in Seq(Prod \X Nat) /\ deleter = <<"look">> /\ clock = 0 /\ gone = {}
    BY DEF ReceivingInit, MapInit
  <2>2. /\ DOMAIN rpc = Thread /\ DOMAIN handed = Prod /\ \A p \in Prod : handed[p] = 0
        /\ \A t \in Thread : rpc[t] = Idle
    BY DEF ReceivingInit
  <2>3. MapInv
    BY <2>1 DEF MapInv, IncompleteIsListed
  <2>4. \A p \in Prod : HandedInv(p)
    BY <2>1, <2>2 DEF HandedInv, Whole, Winner, Idle
  <2>5. TimeInv
    BY <2>1, <2>2 DEF TimeInv, Idle
  <2>6. QED
    BY <2>2, <2>3, <2>4, <2>5 DEF RecvInv
<1>2. RecvInv /\ [ReceivingNext]_recvVars => RecvInv'
  <2> SUFFICES ASSUME RecvInv, [ReceivingNext]_recvVars PROVE RecvInv'
    OBVIOUS
  <2>1. CASE Destroy \/ UNCHANGED recvVars
    <3>1. UNCHANGED <<prodMapVars, queueVars, rpc, clock, ghostVars>>
      BY <2>1 DEF Destroy, recvVars
    <3>2. QED
      BY <3>1
      DEF prodMapVars, queueVars, ghostVars, RecvInv, MapInv, IncompleteIsListed, HandedInv, Whole,
          Winner, TimeInv
  <2>2. CASE Tick
    <3>1. clock' = clock + 1 /\ UNCHANGED <<prodMapVars, queueVars, rpc, ghostVars>>
      BY <2>2 DEF Tick
    <3>2. MapInv' /\ \A p \in Prod \ gone : HandedInv(p)'
      BY <3>1
      DEF prodMapVars, ghostVars, RecvInv, MapInv, IncompleteIsListed, HandedInv, Whole, Winner
    <3>3. TimeInv'
      BY <3>1, ReceivingAssumption DEF prodMapVars, queueVars, ghostVars, RecvInv, TimeInv
    <3>4. QED
      BY <3>1, <3>2, <3>3 DEF ghostVars, RecvInv
  <2>3. QED
    BY <2>1, <2>2, ThreadsInv, DeleterInv
<1>3. QED
  BY <1>1, <1>2, PTL DEF ReceivingSpec

(* ProdStore.cpp: the list of incomplete products has just those that are  *)
(* not complete, and a product that counts as complete has every byte.     *)
THEOREM StoreSound == ReceivingSpec => []StoreInv
<1>1. RecvInv => StoreInv
  BY DEF RecvInv, MapInv, EntryInv, StoreInv, FullIsWhole
<1>2. QED
  BY <1>1, RecvInvariant, PTL

(* Receiving.cpp: however many threads bring a product's parts, and however *)
(* often, it is processed once when it is complete and not before.          *)
THEOREM ProcessedOnce == ReceivingSpec => []CompleteIsProcessedOnce
<1>1. RecvInv => CompleteIsProcessedOnce
  <2> SUFFICES ASSUME RecvInv, NEW p \in DOMAIN prods \ gone, ~InHand(p)
               PROVE  handed[p] = IF EntryIsComplete(prods[p]) THEN 1 ELSE 0
    BY DEF CompleteIsProcessedOnce
  <2>1. \A t \in Thread : ~Winner(t, p)
    BY DEF InHand, Winner
  <2>2. HandedInv(p)
    BY DEF RecvInv, MapInv
  <2>3. QED
    BY <2>1, <2>2 DEF HandedInv, Whole
<1>2. QED
  BY <1>1, RecvInvariant, PTL

(* FixedDelayQueue.h and ProdStore.cpp: nothing is deleted before its      *)
(* residence-time is over, whatever the deletion thread does when.         *)
THEOREM ResidesLong == ReceivingSpec => ResidesLongEnough
<1>1. ASSUME RecvInv, [ReceivingNext]_recvVars, NEW p \in DOMAIN prods \ gone,
             p \notin DOMAIN prods'
      PROVE  clock >= born[p] + Residence
  <2>1. CASE EraseOld
    <3>1. deleter[1] = "popped" /\ MapErase(deleter[2])
      BY <2>1 DEF EraseOld
    <3>2. p = deleter[2]
      BY <1>1, <3>1, EntryErased DEF RecvInv
    <3>3. QED
      BY <1>1, <3>1, <3>2 DEF RecvInv, TimeInv
  <2>2. CASE ~EraseOld
    <3>1. ASSUME NEW t \in Thread, NEW x \in Item, Accept(t, x)
          PROVE  p \in DOMAIN prods'
      BY <1>1, <3>1, ItemAdded DEF RecvInv, Accept
    <3>2. prods' = prods \/ \E t \in Thread, x \in Item : Accept(t, x)
      BY <1>1, <2>2
      DEF ReceivingNext, recvVars, prodMapVars, AcceptThrows, ReceiveShort, AddReturns, Process,
          RequestItem, SendItem, RemoteLeaves, CheckStore, GetItem, DeleterStep, LookForOld,
          FallAsleep, PopOld, DeleterIsCanceled, Destroy, Tick
    <3>3. QED
      BY <1>1, <3>1, <3>2
  <2>3. QED
    BY <2>1, <2>2
<1>2. RecvInv /\ [ReceivingNext]_recvVars =>
        [\A p \in DOMAIN prods \ gone :
            p \notin DOMAIN prods' => clock >= born[p] + Residence]_recvVars
  BY <1>1
<1>3. QED
  BY <1>2, RecvInvariant, PTL DEF ReceivingSpec, ResidesLongEnough

-----------------------------------------------------------------------------
(* The backlogger: Backlog.                                                *)

(* A set of numbers that is not empty has a smallest one. *)
LEMMA MinIsSmallest ==
  ASSUME NEW S \in SUBSET Nat, S # {}
  PROVE  Min(S) \in S /\ \A y \in S : Min(S) =< y
<1> DEFINE R == {p \in Nat \X Nat : p[1] < p[2]}
<1>1. IsWellFoundedOn(R, Nat)
  BY NatLessThanWellFounded DEF OpToRel
<1> HIDE DEF R
<1>2. \E x \in S : \A y \in S : ~ (<<y, x>> \in R)
  BY <1>1, WFMin
<1>3. \A x, y \in Nat : y < x => <<y, x>> \in R
  BY DEF R
<1>4. \E x \in S : \A y \in S : x =< y
  <2>1. PICK x \in S : \A y \in S : ~ (<<y, x>> \in R)
    BY <1>2
  <2>2. \A y \in S : x \in Nat /\ y \in Nat /\ ~(y < x)
    BY <1>3, <2>1
  <2>3. \A y \in S : x =< y
    BY <2>2
  <2>4. QED
    BY <2>3
<1>5. QED
  BY <1>4 DEF Min

(* A remainder, of a number less than one modulus away. *)
LEMMA Remainder ==
  ASSUME NEW N \in Nat \ {0}, NEW x \in Int
  PROVE  /\ x % N \in 0..(N - 1)
         /\ x \in 0..(N - 1) => x % N = x
         /\ x < 0 /\ -N =< x => x % N = x + N
<1>1. x % N \in 0..(N - 1)
  OBVIOUS
<1>2. x \in 0..(N - 1) => x % N = x
  OBVIOUS
<1>3. ASSUME x < 0, -N =< x PROVE x % N = x + N
  <2>1. x + N \in 0..(N - 1)
    BY <1>3
  <2>2. x = N * (-1) + (x + N)
    OBVIOUS
  <2>3. QED
    BY <2>1, <2>2
<1>4. QED
  BY <1>1, <1>2, <1>3

(* How far an index is from the start of the window, in the direction of   *)
(* the circle.                                                             *)
Lo == CHOOSE lo \in Window : TRUE
Rank(i) == (i - Lo) % IndexCount
Half == (IndexCount - 1) \div 2
InWindow(i) == i \in 0 .. IndexCount - 1 /\ Rank(i) < Half

(* In the window, the comparisons of indexes are those of their ranks, and *)
(* the index after one in the window has the next rank.                    *)
LEMMA WindowIsOrdered ==
  ASSUME Window # {}
  PROVE  /\ Half \in Nat /\ \A i \in 0 .. IndexCount - 1 : Rank(i) \in 0 .. IndexCount - 1
         /\ \A p \in Prod \cup {0} : InWindow(p)
         /\ \A i, j \in 0 .. IndexCount - 1 : Rank(i) = Rank(j) => i = j
         /\ \A i, j \in 0 .. IndexCount - 1 : Rank(i) =< Half /\ InWindow(j) =>
                /\ NotAfter(i, j) <=> Rank(i) =< Rank(j)
                /\ IsEarlierThan(i, j) <=> Rank(i) =< Rank(j)
         /\ \A i \in 0 .. IndexCount - 1, n \in Nat : Rank(i) + n =< Half =>
                /\ (i + n) % IndexCount \in 0 .. IndexCount - 1
                /\ Rank((i + n) % IndexCount) = Rank(i) + n
<1> DEFINE N == IndexCount
<1>1. N \in Nat \ {0} /\ Prod \subseteq 0..(N - 1)
  BY ProdMapAssumption
<1>2. /\ Lo \in 0..(N - 1)
      /\ \A p \in Prod \cup {0} : (p - Lo) % N < Half
  BY DEF Lo, Window, Half
<1>3. \A i \in 0..(N - 1) : /\ Rank(i) \in 0..(N - 1)
                            /\ Rank(i) = IF Lo =< i THEN i - Lo ELSE i - Lo + N
  <2> SUFFICES ASSUME NEW i \in 0..(N - 1)
               PROVE  /\ Rank(i) \in 0..(N - 1)
                      /\ Rank(i) = IF Lo =< i THEN i - Lo ELSE i - Lo + N
    OBVIOUS
  <2> HIDE DEF N
  <2>1. i - Lo \in Int /\ -N =< i - Lo /\ i - Lo < N
    BY <1>1, <1>2
  <2>2. Rank(i) = (i - Lo) % N
    BY DEF Rank, N
  <2>3. /\ (i - Lo) % N \in 0..(N - 1)
        /\ i - Lo \in 0..(N - 1) => (i - Lo) % N = i - Lo
        /\ i - Lo < 0 => (i - Lo) % N = i - Lo + N
    BY <1>1, <2>1, Remainder
  <2>4. QED
    BY <1>1, <1>2, <2>1, <2>2, <2>3
<1>4. Half \in Nat /\ Half + Half < N
  <2> HIDE DEF N
  <2>1. Half = (N - 1) \div 2 /\ N - 1 \in Nat
    BY <1>1 DEF Half, N
  <2>2. QED
    BY <1>1, <2>1
<1>5. \A p \in Prod \cup {0} : InWindow(p)
  BY <1>1, <1>2 DEF InWindow, Rank
<1>6. \A i, j \in 0..(N - 1) : Rank(i) = Rank(j) => i = j
  <2> HIDE DEF N
  <2>1. QED
    BY <1>1, <1>2, <1>3
<1>7. ASSUME NEW i \in 0..(N - 1), NEW j \in 0..(N - 1), Rank(i) =< Half, InWindow(j)
      PROVE  /\ NotAfter(i, j) <=> Rank(i) =< Rank(j)
             /\ IsEarlierThan(i, j) <=> Rank(i) =< Rank(j)
  <2> DEFINE d == Rank(j) - Rank(i)
  <2>1. /\ NotAfter(i, j) <=> (j - i) % N < Half
        /\ IsEarlierThan(i, j) <=> (j - i) % N =< Half
    BY DEF NotAfter, IsEarlierThan, Half
  <2>2. Rank(j) < Half
    BY <1>7 DEF InWindow
  <2> HIDE DEF N
  <2>3. j - i = d \/ j - i = d + N \/ j - i = d - N
    BY <1>1, <1>2, <1>3
  <2>4. (j - i) % N = IF Rank(i) =< Rank(j) THEN d ELSE d + N
    <3>1. j - i \in Int /\ -N =< j - i /\ j - i < N
      BY <1>1
    <3>2. /\ j - i \in 0..(N - 1) => (j - i) % N = j - i
          /\ j - i < 0 => (j - i) % N = j - i + N
      BY <1>1, <3>1, Remainder
    <3>3. d \in Int /\ -N < d /\ d < N
      BY <1>1, <1>3
    <3>4. Rank(i) =< Rank(j) <=> d >= 0
      BY <1>1, <1>3
    <3> HIDE DEF d
    <3>5. QED
      BY <1>1, <2>3, <3>1, <3>2, <3>3, <3>4
  <2>5. Rank(i) \in Nat /\ Rank(j) \in Nat
    BY <1>1, <1>3
  <2>6. CASE Rank(i) =< Rank(j)
    BY <1>4, <2>1, <2>2, <2>4, <2>5, <2>6
  <2>7. CASE ~(Rank(i) =< Rank(j))
    BY <1>1, <1>4, <1>7, <2>1, <2>2, <2>4, <2>5, <2>7
  <2>8. QED
    BY <2>6, <2>7
<1>8. ASSUME NEW i \in 0..(N - 1), NEW n \in Nat, Rank(i) + n =< Half
      PROVE  (i + n) % N \in 0..(N - 1) /\ Rank((i + n) % N) = Rank(i) + n
  <2> DEFINE k == (i + n) % N
  <2> HIDE DEF N
  <2>1. i + n \in Nat /\ n < N
    BY <1>1, <1>3, <1>4, <1>8
  <2>2. k \in 0..(N - 1) /\ (k = i + n \/ k = i + n - N)
    <3>1. k \in 0..(N - 1)
      BY <1>1, <2>1
    <3>2. CASE i + n < N
      BY <1>1, <2>1, <3>1, <3>2
    <3>3. CASE i + n >= N
      <4>1. i + n - N \in 0..(N - 1)
        BY <1>1, <2>1, <3>3
      <4>2. i + n = N * 1 + (i + n - N)
        BY <1>1, <2>1
      <4>3. k = i + n - N
        BY <1>1, <4>1, <4>2
      <4>4. QED
        BY <3>1, <4>3
    <3>4. QED
      BY <1>1, <2>1, <3>2, <3>3
  <2> HIDE DEF k
  <2>3. Rank(k) = IF Lo =< k THEN k - Lo ELSE k - Lo + N
    BY <1>3, <2>2
  <2>4. Rank(i) = IF Lo =< i THEN i - Lo ELSE i - Lo + N
    BY <1>3
  <2>5. Rank(i) + n < N /\ Rank(i) \in Nat /\ Rank(k) \in 0..(N - 1)
    BY <1>1, <1>3, <1>4, <1>8, <2>2
  <2>6. Rank(k) = Rank(i) + n
    BY <1>1, <1>2, <2>1, <2>2, <2>3, <2>4, <2>5
  <2>7. QED
    BY <2>2, <2>6 DEF k
<1>9. QED
  BY <1>3, <1>4, <1>5, <1>6, <1>7, <1>8

(* Products lie between the ends that the map keeps, though an end may     *)
(* have been erased.                                                       *)
EndsInv ==
    /\ DOMAIN prods \subseteq Prod
    /\ earliest \in Prod \cup {0} /\ latest \in Prod \cup {0}
    /\ \A p \in DOMAIN prods : Rank(earliest) =< Rank(p) /\ Rank(p) =< Rank(latest)

(* A chunk that the backlog starts with or comes to later.                 *)
Wanted(b, x) ==
    /\ IsEarlierThan(startWith[b].prod, x[1])
    /\ x[1] = startWith[b].prod => x[2] >= startWith[b].chunk

(* The iterator has gone past a chunk. *)
Behind(x, at) == Rank(x[1]) < Rank(at[1]) \/ (x[1] = at[1] /\ x[2] < at[2])

Spots == {at \in (0 .. IndexCount - 1) \X Nat : Rank(at[1]) =< Half}

BacklogTypes ==
    /\ startWith \in [Newcomer -> AnyChunkId]
    /\ stopAt \in [Newcomer -> AnyChunkId \cup {NoChunkId}]
    /\ bpc \in [Newcomer -> {"waiting", "next", "notify", "done"}]
    /\ DOMAIN pos = Newcomer /\ DOMAIN found = Newcomer
    /\ DOMAIN noticed = Newcomer /\ DOMAIN since = Newcomer

(* Where the iterator of one backlog is, and that what it has gone past    *)
(* was announced.                                                          *)
IteratorInv(b) ==
    /\ since[b] \subseteq Stored
    /\ bpc[b] # "waiting" => pos[b] \in Spots
    /\ bpc[b] \in {"next", "notify"} =>
            \A x \in since[b] : Wanted(b, x) /\ Behind(x, pos[b]) => x \in noticed[b]
    /\ bpc[b] = "notify" =>
            \/ found[b].prod = pos[b][1] /\ found[b].chunk = pos[b][2]
            \/ \A x \in since[b] : Behind(x, pos[b])

(* The inductive invariant of the backlog. *)
BacklogInv == EndsInv /\ BacklogTypes /\ (\A b \in Newcomer : IteratorInv(b)) /\ BacklogIsComplete

(* A product has a number of chunks. *)
LEMMA ChunksAreCounted == \A p \in Prod : NumChunks(p) \in Int
<1> SUFFICES ASSUME NEW p \in Prod PROVE NumChunks(p) \in Int
  OBVIOUS
<1> DEFINE b == ProdSize[p] + CanonSize - 1
<1>1. CanonSize \in Nat \ {0} /\ b \in Int
  BY ProdMapAssumption
<1> HIDE DEF b
<1>2. b \div CanonSize \in Int
  BY <1>1
<1>3. QED
  BY <1>2 DEF NumChunks, b

(* What is in the store. *)
LEMMA StoredIs ==
  ASSUME DOMAIN prods \subseteq Prod
  PROVE  \A x \in Stored : /\ x = <<x[1], x[2]>> /\ x[1] \in DOMAIN prods /\ x[1] \in Prod
                           /\ x[2] \in Nat /\ x[2] \in Chunks(x[1]) /\ HaveChunk(x[1], x[2])
<1> SUFFICES ASSUME NEW p \in DOMAIN prods, NEW c \in {d \in Chunks(p) : HaveChunk(p, d)}
             PROVE  c \in Nat
  BY DEF Stored, Spot
<1>1. NumChunks(p) \in Int
  BY ChunksAreCounted
<1>2. QED
  BY <1>1 DEF Chunks

(* *iter goes past no chunk that is in the store, and past all of them if  *)
(* it comes to the end.                                                    *)
LEMMA AdvanceFinds ==
  ASSUME Window # {}, EndsInv, NEW i \in 0 .. IndexCount - 1, NEW c \in Nat, Rank(i) =< Half
  PROVE  /\ Advance(i, c) \in Spots
         /\ \A x \in Stored : Behind(x, Advance(i, c)) => Behind(x, <<i, c>>)
         /\ ~NotAfter(Advance(i, c)[1], latest) => \A x \in Stored : Behind(x, Advance(i, c))
<1> DEFINE L == Rank(latest)
           R == Rank(i)
           Turn(k) == Position(i, c, k)
           m == IF R =< L THEN L + 1 - R ELSE 0
           S == {k \in 0 .. IndexCount : Stops(Turn(k))}
           n == Min(S)
           at == Advance(i, c)
<1>a. IndexCount \in Nat \ {0} /\ IndexCount - 1 \in Nat
  BY ProdMapAssumption
<1>b. /\ Half \in Nat /\ L \in Nat /\ L < Half /\ R \in Nat /\ Half =< IndexCount
      /\ latest \in 0 .. IndexCount - 1 /\ InWindow(latest)
  <2>1. Half \in Nat /\ InWindow(latest) /\ R \in 0 .. IndexCount - 1
    BY WindowIsOrdered DEF EndsInv
  <2>2. L \in 0 .. IndexCount - 1 /\ L < Half /\ latest \in 0 .. IndexCount - 1
    BY <2>1, WindowIsOrdered DEF InWindow
  <2>3. Half =< IndexCount
    BY <1>a DEF Half
  <2>4. QED
    BY <2>1, <2>2, <2>3
<1>c. m \in 0 .. IndexCount /\ R + m =< Half /\ R + m > L
  BY <1>a, <1>b
<1>d. \A k \in 0 .. m :
        /\ Turn(k)[1] \in 0 .. IndexCount - 1 /\ Turn(k)[2] \in Nat /\ Rank(Turn(k)[1]) = R + k
        /\ k = 0 => Turn(k)[1] = i /\ Turn(k)[2] = c
        /\ k # 0 => Turn(k)[2] = 0
  <2> SUFFICES ASSUME NEW k \in 0 .. m
               PROVE  /\ Turn(k)[1] \in 0 .. IndexCount - 1 /\ Turn(k)[2] \in Nat
                      /\ Rank(Turn(k)[1]) = R + k
                      /\ k = 0 => Turn(k)[1] = i /\ Turn(k)[2] = c
                      /\ k # 0 => Turn(k)[2] = 0
    OBVIOUS
  <2>1. CASE k = 0
    BY <1>b, <2>1 DEF Position
  <2>2. CASE k # 0
    <3> HIDE DEF m, R
    <3>1. k \in Nat /\ R + k =< Half
      BY <1>b, <1>c
    <3>2. /\ (i + k) % IndexCount \in 0 .. IndexCount - 1
          /\ Rank((i + k) % IndexCount) = R + k
      BY <3>1, WindowIsOrdered DEF R
    <3>3. Turn(k) = <<(i + k) % IndexCount, 0>>
      BY <2>2 DEF Position
    <3>4. QED
      BY <2>2, <3>2, <3>3
  <2>3. QED
    BY <2>1, <2>2
<1> HIDE DEF L, R, Turn, m
<1>e. \A k \in 0 .. m : NotAfter(Turn(k)[1], latest) <=> R + k =< L
  <2> SUFFICES ASSUME NEW k \in 0 .. m PROVE NotAfter(Turn(k)[1], latest) <=> R + k =< L
    OBVIOUS
  <2>1. R + k =< Half
    BY <1>b, <1>c
  <2>2. Turn(k)[1] \in 0 .. IndexCount - 1 /\ Rank(Turn(k)[1]) = R + k
    BY <1>d
  <2>3. QED
    BY <1>b, <2>1, <2>2, WindowIsOrdered DEF L
<1>f. m \in S
  BY <1>b, <1>c, <1>e DEF Stops
<1>g. n \in S /\ n \in 0 .. m /\ \A k \in 0 .. m : k < n => ~Stops(Turn(k))
  <2>1. S \in SUBSET Nat /\ S # {}
    BY <1>f
  <2>2. n \in S /\ \A k \in S : n =< k
    BY <2>1, MinIsSmallest
  <2> HIDE DEF n
  <2>3. \A k \in 0 .. m : k \in 0 .. IndexCount
    BY <1>a, <1>c
  <2>4. QED
    BY <1>f, <2>1, <2>2, <2>3
<1>h. at = <<Turn(n)[1],
             IF NotAfter(Turn(n)[1], latest) THEN Min(ChunksFrom(Turn(n)[1], Turn(n)[2])) ELSE 0>>
  BY DEF Advance, Turn
<1> HIDE DEF n
<1> DEFINE j == Turn(n)[1]
           from == Turn(n)[2]
<1>i. j \in 0 .. IndexCount - 1 /\ from \in Nat /\ Rank(j) = R + n /\ R + n =< Half
  BY <1>b, <1>c, <1>d, <1>g
<1> DEFINE C == ChunksFrom(j, from)
<1>j. /\ C \in SUBSET Nat
      /\ \A x \in Stored : x[1] = j /\ x[2] >= from => x[2] \in C
  <2>1. \A d \in C : d \in Nat
    <3> SUFFICES ASSUME NEW d \in C PROVE d \in Nat
      OBVIOUS
    <3>1. Known(j) /\ d \in Chunks(j)
      BY DEF ChunksFrom
    <3>2. j \in Prod
      BY <3>1 DEF Known, EndsInv
    <3>3. NumChunks(j) \in Int
      BY <3>2, ChunksAreCounted
    <3>4. QED
      BY <3>1, <3>3 DEF Chunks
  <2>2. \A x \in Stored : x[1] \in DOMAIN prods /\ x[2] \in Chunks(x[1]) /\ HaveChunk(x[1], x[2])
    BY StoredIs DEF EndsInv
  <2>3. QED
    BY <2>1, <2>2 DEF ChunksFrom, Known
<1>k. NotAfter(j, latest) => Min(C) \in C /\ \A d \in C : Min(C) =< d
  <2>1. NotAfter(j, latest) => C # {}
    BY <1>g DEF Stops
  <2>2. QED
    BY <1>j, <2>1, MinIsSmallest
<1>l. /\ at[1] = j /\ at[2] \in Nat
      /\ NotAfter(j, latest) => at[2] \in C /\ \A d \in C : at[2] =< d
      /\ ~NotAfter(j, latest) => at[2] = 0
  BY <1>h, <1>j, <1>k
<1> HIDE DEF j, from, C
<1>1. at \in Spots
  BY <1>h, <1>i, <1>l DEF Spots, j
<1>m. \A x \in Stored : /\ x[1] \in 0 .. IndexCount - 1 /\ x[2] \in Nat /\ Rank(x[1]) \in Nat
                        /\ Rank(x[1]) =< L
  <2> SUFFICES ASSUME NEW x \in Stored
               PROVE  /\ x[1] \in 0 .. IndexCount - 1 /\ x[2] \in Nat /\ Rank(x[1]) \in Nat
                      /\ Rank(x[1]) =< L
    OBVIOUS
  <2>1. x[1] \in Prod /\ x[2] \in Nat /\ x[1] \in DOMAIN prods
    BY StoredIs DEF EndsInv
  <2>2. x[1] \in 0 .. IndexCount - 1
    BY <2>1, ProdMapAssumption
  <2>3. Rank(x[1]) \in 0 .. IndexCount - 1
    BY <2>2, WindowIsOrdered
  <2>4. QED
    BY <1>a, <2>1, <2>2, <2>3 DEF EndsInv, L
<1>2. ASSUME NEW x \in Stored, Behind(x, at) PROVE Behind(x, <<i, c>>)
  <2> SUFFICES ASSUME ~Behind(x, <<i, c>>) PROVE FALSE
    OBVIOUS
  <2>1. R =< Rank(x[1]) /\ (x[1] = i => x[2] >= c)
    BY <1>b, <1>m DEF Behind, R
  <2>2. x[1] \in 0 .. IndexCount - 1 /\ x[2] \in Nat /\ Rank(x[1]) \in Nat
    BY <1>m
  <2>3. CASE Rank(x[1]) < Rank(j)
    <3> DEFINE k == Rank(x[1]) - R
    <3>1. k \in 0 .. m /\ k < n
      BY <1>b, <1>c, <1>g, <1>i, <2>1, <2>2, <2>3
    <3>2. Rank(Turn(k)[1]) = Rank(x[1]) /\ Turn(k)[1] \in 0 .. IndexCount - 1
      BY <1>b, <1>d, <2>2, <3>1
    <3>3. Turn(k)[1] = x[1]
      BY <2>2, <3>2, WindowIsOrdered
    <3>4. x[2] >= Turn(k)[2]
      BY <1>d, <2>1, <2>2, <3>1, <3>3
    <3>5. x[2] \in ChunksFrom(Turn(k)[1], Turn(k)[2])
      BY <3>3, <3>4, StoredIs DEF ChunksFrom, Known, EndsInv
    <3>6. Stops(Turn(k))
      BY <3>5 DEF Stops
    <3>7. QED
      BY <1>g, <3>1, <3>6
  <2>4. CASE x[1] = j /\ x[2] < at[2]
    <3>1. NotAfter(j, latest)
      BY <1>l, <2>2, <2>4
    <3>2. x[2] >= from
      BY <1>d, <1>g, <2>1, <2>2, <2>4 DEF j, from
    <3>3. x[2] \in C
      BY <1>j, <2>4, <3>2
    <3>4. at[2] =< x[2]
      BY <1>l, <3>1, <3>3
    <3>5. QED
      BY <1>l, <2>2, <2>4, <3>4
  <2>5. QED
    BY <1>2, <1>l, <2>3, <2>4 DEF Behind
<1>3. ASSUME ~NotAfter(at[1], latest), NEW x \in Stored PROVE Behind(x, at)
  <2>1. R + n > L
    BY <1>3, <1>b, <1>e, <1>g, <1>l DEF j
  <2>2. Rank(x[1]) < Rank(j)
    BY <1>b, <1>g, <1>i, <1>m, <2>1
  <2>3. QED
    BY <1>l, <2>2 DEF Behind
<1>4. QED
  BY <1>1, <1>2, <1>3

(* The map knows its first and its last product. *)
LEMMA EndsStay ==
  ASSUME Window # {}, EndsInv, NEW p \in Prod,
         \/ MapAddProduct(p) \/ MapAddInfo(p) \/ MapErase(p)
         \/ \E c \in Chunks(p) : MapAddChunk(p, c)
  PROVE  EndsInv'
<1>1. \/ DOMAIN prods' \subseteq DOMAIN prods /\ UNCHANGED <<earliest, latest>>
      \/ DOMAIN prods' = DOMAIN prods \cup {p} /\ UpdateEndIndexes(p)
  BY DEF MapAddProduct, MapAddInfo, MapErase, MapAddChunk, Replace, Emplace, With, Restrict
<1>2. CASE DOMAIN prods' \subseteq DOMAIN prods /\ UNCHANGED <<earliest, latest>>
  BY <1>2 DEF EndsInv
<1>3. CASE DOMAIN prods' = DOMAIN prods \cup {p} /\ UpdateEndIndexes(p)
  <2>1. /\ earliest' = IF IsEarlierThan(p, earliest) THEN p ELSE earliest
        /\ latest' = IF IsEarlierThan(latest, p) THEN p ELSE latest
    BY <1>3 DEF UpdateEndIndexes
  <2>2. \A q \in Prod \cup {0} : /\ q \in 0 .. IndexCount - 1 /\ InWindow(q)
                                 /\ Rank(q) =< Half /\ Rank(q) \in Nat
    <3>1. \A q \in Prod \cup {0} : q \in 0 .. IndexCount - 1 /\ Rank(q) < Half /\ InWindow(q)
      BY WindowIsOrdered DEF InWindow
    <3>2. \A q \in Prod \cup {0} : Rank(q) \in 0 .. IndexCount - 1 /\ Half \in Nat
      BY <3>1, WindowIsOrdered
    <3>3. QED
      BY <3>1, <3>2
  <2>3. \A q, r \in Prod \cup {0} : IsEarlierThan(q, r) <=> Rank(q) =< Rank(r)
    BY <2>2, WindowIsOrdered
  <2>4. earliest \in Prod \cup {0} /\ latest \in Prod \cup {0} /\ DOMAIN prods \subseteq Prod
    BY DEF EndsInv
  <2>5. /\ earliest' \in Prod \cup {0} /\ Rank(earliest') =< Rank(earliest)
        /\ Rank(earliest') =< Rank(p)
    BY <2>1, <2>2, <2>3, <2>4
  <2>6. /\ latest' \in Prod \cup {0} /\ Rank(latest) =< Rank(latest')
        /\ Rank(p) =< Rank(latest')
    BY <2>1, <2>2, <2>3, <2>4
  <2>7. ASSUME NEW q \in DOMAIN prods PROVE Rank(earliest') =< Rank(q) /\ Rank(q) =< Rank(latest')
    <3>1. Rank(earliest) =< Rank(q) /\ Rank(q) =< Rank(latest) /\ q \in Prod
      BY DEF EndsInv
    <3>2. Rank(earliest) \in Nat /\ Rank(latest) \in Nat /\ Rank(q) \in Nat
          /\ Rank(earliest') \in Nat /\ Rank(latest') \in Nat
      BY <2>2, <2>4, <2>5, <2>6, <3>1
    <3>3. QED
      BY <2>5, <2>6, <3>1, <3>2
  <2>8. \A q \in DOMAIN prods' : Rank(earliest') =< Rank(q) /\ Rank(q) =< Rank(latest')
    BY <1>3, <2>5, <2>6, <2>7
  <2>9. DOMAIN prods' \subseteq Prod
    BY <1>3, <2>4
  <2>10. QED
    BY <2>5, <2>6, <2>8, <2>9 DEF EndsInv
<1>4. QED
  BY <1>1, <1>2, <1>3

(* The store changes. *)
LEMMA StoreSteps ==
  ASSUME Window # {}, BacklogInv, NEW p \in Prod,
         \/ Ship(p) \/ ReceiveInfo(p) \/ Delete(p)
         \/ \E c \in Chunks(p) : ReceiveChunk(p, c)
  PROVE  BacklogInv'
<1>1. /\ since' = [b \in Newcomer |-> since[b] \cap Stored']
      /\ UNCHANGED <<startWith, stopAt, bpc, pos, found, prevIndex, noticed>>
  BY DEF Ship, ReceiveInfo, Delete, ReceiveChunk, StoreChange
<1>2. EndsInv'
  <2>1. \/ MapAddProduct(p) \/ MapAddInfo(p) \/ MapErase(p)
        \/ \E c \in Chunks(p) : MapAddChunk(p, c)
    BY DEF Ship, ReceiveInfo, Delete, ReceiveChunk, StoreChange
  <2>2. QED
    BY <2>1, EndsStay DEF BacklogInv
<1>3. BacklogTypes'
  BY <1>1 DEF BacklogInv, BacklogTypes
<1>4. \A b \in Newcomer : since'[b] \subseteq since[b] /\ since'[b] \subseteq Stored'
  BY <1>1
<1>5. ASSUME NEW b \in Newcomer PROVE IteratorInv(b)'
  <2>1. IteratorInv(b)
    BY DEF BacklogInv
  <2>2. \A x : Wanted(b, x)' <=> Wanted(b, x)
    BY <1>1 DEF Wanted
  <2>3. QED
    BY <1>1, <1>4, <2>1, <2>2 DEF IteratorInv
<1>6. BacklogIsComplete'
  BY <1>1, <1>4 DEF BacklogInv, BacklogIsComplete
<1>7. QED
  BY <1>2, <1>3, <1>5, <1>6 DEF BacklogInv

(* A backlogger is told of a chunk that need not be announced, and begins. *)
LEMMA StartSteps ==
  ASSUME Window # {}, BacklogInv, NEW b \in Newcomer,
         BeginBacklog(b) \/ \E id \in AnyChunkId : DoNotNotifyOf(b, id)
  PROVE  BacklogInv'
<1>1. UNCHANGED <<prodMapVars, startWith, found, prevIndex, noticed>>
  BY DEF BeginBacklog, DoNotNotifyOf
<1>2. UNCHANGED <<prods, incomplete, earliest, latest>> /\ Stored' = Stored
  <2>1. UNCHANGED <<prods, incomplete, earliest, latest>>
    BY <1>1 DEF prodMapVars
  <2>2. QED
    BY <2>1 DEF Stored, HaveChunk, Known
<1>3. EndsInv'
  BY <1>2 DEF BacklogInv, EndsInv
<1>4. CASE BeginBacklog(b)
  <2>1. /\ pos' = [pos EXCEPT ![b] = StartOf(startWith[b])]
        /\ since' = [since EXCEPT ![b] = Stored]
        /\ bpc' = [bpc EXCEPT ![b] = "next"]
        /\ UNCHANGED stopAt
    BY <1>4 DEF BeginBacklog
  <2>2. BacklogTypes'
    BY <1>1, <2>1 DEF BacklogInv, BacklogTypes
  <2> DEFINE id == startWith[b]
             at == StartOf(id)
  <2>3. id.prod \in Prod /\ id.chunk \in Nat
    <3>1. id \in AnyChunkId
      BY DEF BacklogInv, BacklogTypes
    <3>2. \A q \in Prod : Chunks(q) \subseteq Nat
      BY ChunksAreCounted DEF Chunks
    <3>3. QED
      BY <3>1, <3>2 DEF AnyChunkId
  <2>4. \A q \in Prod \cup {0} : /\ q \in 0 .. IndexCount - 1 /\ InWindow(q)
                                 /\ Rank(q) =< Half /\ Rank(q) \in Nat
    <3>1. \A q \in Prod \cup {0} : q \in 0 .. IndexCount - 1 /\ Rank(q) < Half /\ InWindow(q)
      BY WindowIsOrdered DEF InWindow
    <3>2. \A q \in Prod \cup {0} : Rank(q) \in 0 .. IndexCount - 1 /\ Half \in Nat
      BY <3>1, WindowIsOrdered
    <3>3. QED
      BY <3>1, <3>2
  <2>5. at \in Spots
    BY <2>3, <2>4 DEF StartOf, Spots, BacklogInv, EndsInv
  <2>6. ASSUME NEW x \in Stored, Wanted(b, x) PROVE ~Behind(x, at)
    <3>1. x[1] \in DOMAIN prods /\ x[1] \in Prod /\ x[2] \in Nat
      BY StoredIs DEF BacklogInv, EndsInv
    <3>2. CASE at = <<id.prod, id.chunk>>
      <4>1. Rank(id.prod) =< Rank(x[1])
        BY <2>3, <2>4, <2>6, <3>1, WindowIsOrdered DEF Wanted
      <4>2. ~(Rank(x[1]) < Rank(id.prod))
        BY <2>3, <2>4, <3>1, <4>1
      <4>3. x[1] = id.prod => ~(x[2] < id.chunk)
        BY <2>3, <2>6, <3>1 DEF Wanted
      <4>4. QED
        BY <3>2, <4>2, <4>3 DEF Behind
    <3>3. CASE at = <<earliest, 0>>
      <4>1. Rank(earliest) =< Rank(x[1]) /\ earliest \in Prod \cup {0}
        BY <3>1 DEF BacklogInv, EndsInv
      <4>2. ~(Rank(x[1]) < Rank(earliest)) /\ ~(x[2] < 0)
        BY <2>4, <3>1, <4>1
      <4>3. QED
        BY <3>3, <4>2 DEF Behind
    <3>4. QED
      BY <3>2, <3>3 DEF StartOf
  <2> HIDE DEF at
  <2>7. ASSUME NEW n \in Newcomer PROVE IteratorInv(n)'
    <3>1. IteratorInv(n)
      BY DEF BacklogInv
    <3>2. \A x : Wanted(n, x)' <=> Wanted(n, x)
      BY <1>1 DEF Wanted
    <3>3. CASE n = b
      <4>1. since'[b] = Stored /\ bpc'[b] = "next" /\ pos'[b] = at
        BY <2>1 DEF BacklogInv, BacklogTypes, at
      <4>2. \A x \in since'[b] : ~(Wanted(b, x) /\ Behind(x, at))
        BY <2>6, <4>1
      <4>3. QED
        BY <1>2, <2>5, <3>2, <3>3, <4>1, <4>2 DEF IteratorInv
    <3>4. CASE n # b
      <4>1. since'[n] = since[n] /\ bpc'[n] = bpc[n] /\ pos'[n] = pos[n]
        BY <2>1, <3>4 DEF BacklogInv, BacklogTypes
      <4>2. QED
        BY <1>1, <1>2, <3>1, <3>2, <4>1 DEF IteratorInv
    <3>5. QED
      BY <3>3, <3>4
  <2>8. BacklogIsComplete'
    <3>1. \A n \in Newcomer : bpc'[n] = "done" => bpc[n] = "done" /\ since'[n] = since[n]
      BY <2>1 DEF BacklogInv, BacklogTypes
    <3>2. QED
      BY <1>1, <2>1, <3>1 DEF BacklogInv, BacklogIsComplete
  <2>9. QED
    BY <1>3, <2>2, <2>7, <2>8 DEF BacklogInv
<1>5. CASE \E id \in AnyChunkId : DoNotNotifyOf(b, id)
  <2>1. PICK id \in AnyChunkId : DoNotNotifyOf(b, id)
    BY <1>5
  <2>2. /\ bpc[b] # "done" /\ stopAt' = [stopAt EXCEPT ![b] = id]
        /\ UNCHANGED <<bpc, pos, since>>
    BY <2>1 DEF DoNotNotifyOf
  <2>3. BacklogTypes'
    BY <1>1, <2>2 DEF BacklogInv, BacklogTypes
  <2>4. ASSUME NEW n \in Newcomer PROVE IteratorInv(n)'
    <3>1. IteratorInv(n)
      BY DEF BacklogInv
    <3>2. \A x : Wanted(n, x)' <=> Wanted(n, x)
      BY <1>1 DEF Wanted
    <3>3. QED
      BY <1>1, <1>2, <2>2, <3>1, <3>2 DEF IteratorInv
  <2>5. BacklogIsComplete'
    <3>1. \A n \in Newcomer : bpc[n] = "done" => stopAt'[n] = stopAt[n]
      BY <2>2 DEF BacklogInv, BacklogTypes
    <3>2. QED
      BY <1>1, <2>2, <3>1 DEF BacklogInv, BacklogIsComplete
  <2>6. QED
    BY <1>3, <2>3, <2>4, <2>5 DEF BacklogInv
<1>6. QED
  BY <1>4, <1>5

(* *iter, in the loop of a backlogger. *)
LEMMA NextStep ==
  ASSUME Window # {}, BacklogInv, NEW b \in Newcomer, NextChunk(b) PROVE BacklogInv'
<1> DEFINE at == Advance(pos[b][1], pos[b][2])
           id == IF NotAfter(at[1], latest) THEN ChunkId(at[1], at[2]) ELSE NoChunkId
<1>1. /\ bpc[b] = "next" /\ pos' = [pos EXCEPT ![b] = at] /\ found' = [found EXCEPT ![b] = id]
      /\ \/ noticed' = [noticed EXCEPT ![b] = @ \cup {<<id.prod>>}]
         \/ noticed' = noticed
      /\ bpc' = [bpc EXCEPT ![b] = "notify"]
      /\ UNCHANGED <<prodMapVars, startWith, stopAt, since>>
  BY DEF NextChunk
<1>2. UNCHANGED <<prods, incomplete, earliest, latest>> /\ Stored' = Stored
  <2>1. UNCHANGED <<prods, incomplete, earliest, latest>>
    BY <1>1 DEF prodMapVars
  <2>2. QED
    BY <2>1 DEF Stored, HaveChunk, Known
<1>3. EndsInv'
  BY <1>2 DEF BacklogInv, EndsInv
<1>4. BacklogTypes'
  BY <1>1 DEF BacklogInv, BacklogTypes
<1>5. /\ pos[b] \in Spots /\ since[b] \subseteq Stored
      /\ \A x \in since[b] : Wanted(b, x) /\ Behind(x, pos[b]) => x \in noticed[b]
  BY <1>1 DEF BacklogInv, IteratorInv
<1>6. /\ at \in Spots
      /\ \A x \in Stored : Behind(x, at) => Behind(x, pos[b])
      /\ ~NotAfter(at[1], latest) => \A x \in Stored : Behind(x, at)
  <2>1. /\ pos[b][1] \in 0 .. IndexCount - 1 /\ pos[b][2] \in Nat /\ Rank(pos[b][1]) =< Half
        /\ pos[b] = <<pos[b][1], pos[b][2]>>
    BY <1>5 DEF Spots
  <2>2. QED
    BY <2>1, AdvanceFinds DEF BacklogInv
<1>7. NotAfter(at[1], latest) => id.prod = at[1] /\ id.chunk = at[2]
  BY DEF ChunkId
<1> HIDE DEF at, id
<1>8. \A n \in Newcomer : noticed[n] \subseteq noticed'[n]
  BY <1>1 DEF BacklogInv, BacklogTypes
<1>9. ASSUME NEW n \in Newcomer PROVE IteratorInv(n)'
  <2>1. IteratorInv(n)
    BY DEF BacklogInv
  <2>2. \A x : Wanted(n, x)' <=> Wanted(n, x)
    BY <1>1 DEF Wanted
  <2>3. CASE n = b
    <3>1. bpc'[b] = "notify" /\ pos'[b] = at /\ found'[b] = id /\ since'[b] = since[b]
      BY <1>1 DEF BacklogInv, BacklogTypes
    <3>2. \A x \in since'[b] : Wanted(b, x) /\ Behind(x, at) => x \in noticed'[b]
      BY <1>5, <1>6, <1>8, <3>1
    <3>3. \/ found'[b].prod = at[1] /\ found'[b].chunk = at[2]
          \/ \A x \in since'[b] : Behind(x, at)
      BY <1>5, <1>6, <1>7, <3>1
    <3>4. QED
      BY <1>2, <1>5, <1>6, <2>2, <2>3, <3>1, <3>2, <3>3 DEF IteratorInv
  <2>4. CASE n # b
    <3>1. bpc'[n] = bpc[n] /\ pos'[n] = pos[n] /\ found'[n] = found[n] /\ since'[n] = since[n]
      BY <1>1, <2>4 DEF BacklogInv, BacklogTypes
    <3>2. QED
      BY <1>2, <1>8, <2>1, <2>2, <3>1 DEF IteratorInv
  <2>5. QED
    BY <2>3, <2>4
<1>10. BacklogIsComplete'
  <2>1. \A n \in Newcomer : bpc'[n] = "done" => bpc[n] = "done"
    BY <1>1 DEF BacklogInv, BacklogTypes
  <2>2. QED
    BY <1>1, <1>8, <2>1 DEF BacklogInv, BacklogIsComplete
<1>11. QED
  BY <1>3, <1>4, <1>9, <1>10 DEF BacklogInv

(* The rest of a turn of the loop: it announces the chunk or ends.         *)
LEMMA NotifyStep ==
  ASSUME Window # {}, BacklogInv, NEW b \in Newcomer, NotifyChunk(b) PROVE BacklogInv'
<1> DEFINE x0 == Spot(found[b].prod, found[b].chunk)
<1>1. /\ bpc[b] = "notify" /\ UNCHANGED <<prodMapVars, startWith, stopAt, found, prevIndex, since>>
      /\ \/ /\ noticed' = [noticed EXCEPT ![b] = @ \cup {x0}]
            /\ pos' = IF NotAfter(pos[b][1], latest) THEN [pos EXCEPT ![b][2] = @ + 1] ELSE pos
            /\ bpc' = [bpc EXCEPT ![b] = "next"]
         \/ /\ bpc' = [bpc EXCEPT ![b] = "done"] /\ UNCHANGED <<noticed, pos>>
            /\ ~ChunkIsEarlier(found[b], stopAt[b])
  BY DEF NotifyChunk
<1>2. UNCHANGED <<prods, incomplete, earliest, latest>> /\ Stored' = Stored
  <2>1. UNCHANGED <<prods, incomplete, earliest, latest>>
    BY <1>1 DEF prodMapVars
  <2>2. QED
    BY <2>1 DEF Stored, HaveChunk, Known
<1>3. EndsInv'
  BY <1>2 DEF BacklogInv, EndsInv
<1>4. BacklogTypes'
  BY <1>1 DEF BacklogInv, BacklogTypes
<1>5. /\ pos[b] \in Spots /\ since[b] \subseteq Stored
      /\ \A x \in since[b] : Wanted(b, x) /\ Behind(x, pos[b]) => x \in noticed[b]
      /\ \/ found[b].prod = pos[b][1] /\ found[b].chunk = pos[b][2]
         \/ \A x \in since[b] : Behind(x, pos[b])
  BY <1>1 DEF BacklogInv, IteratorInv
<1>6. /\ pos[b][1] \in 0 .. IndexCount - 1 /\ pos[b][2] \in Nat /\ Rank(pos[b][1]) =< Half
      /\ pos[b] = <<pos[b][1], pos[b][2]>>
  BY <1>5 DEF Spots
<1>7. \A x \in since[b] : x = <<x[1], x[2]>> /\ x[1] \in Prod /\ x[2] \in Nat
  BY <1>5, StoredIs DEF BacklogInv, EndsInv
<1>8. \A n \in Newcomer : noticed[n] \subseteq noticed'[n]
  BY <1>1 DEF BacklogInv, BacklogTypes
<1>9. ASSUME NEW n \in Newcomer, n # b PROVE IteratorInv(n)'
  <2>1. IteratorInv(n)
    BY DEF BacklogInv
  <2>2. \A x : Wanted(n, x)' <=> Wanted(n, x)
    BY <1>1 DEF Wanted
  <2>3. bpc'[n] = bpc[n] /\ pos'[n] = pos[n] /\ found'[n] = found[n] /\ since'[n] = since[n]
    BY <1>1, <1>9 DEF BacklogInv, BacklogTypes
  <2>4. QED
    BY <1>2, <1>8, <2>1, <2>2, <2>3 DEF IteratorInv
<1>10. CASE bpc' = [bpc EXCEPT ![b] = "next"]
  <2>1. /\ noticed' = [noticed EXCEPT ![b] = @ \cup {x0}]
        /\ pos' = IF NotAfter(pos[b][1], latest) THEN [pos EXCEPT ![b][2] = @ + 1] ELSE pos
        /\ bpc'[b] = "next"
    BY <1>1, <1>10 DEF BacklogInv, BacklogTypes
  <2>2. noticed'[b] = noticed[b] \cup {x0} /\ since'[b] = since[b]
    BY <1>1, <2>1 DEF BacklogInv, BacklogTypes
  <2>3. pos'[b] = <<pos[b][1], pos[b][2] + 1>> \/ pos'[b] = pos[b]
    BY <1>6, <2>1 DEF BacklogInv, BacklogTypes
  <2>4. pos'[b] \in Spots
    BY <1>5, <1>6, <2>3 DEF Spots
  <2>5. ASSUME NEW x \in since[b], Wanted(b, x), Behind(x, pos'[b]) PROVE x \in noticed'[b]
    <3>1. CASE Behind(x, pos[b])
      BY <1>5, <2>2, <2>5, <3>1
    <3>2. CASE ~Behind(x, pos[b])
      <4>1. x[1] = pos[b][1] /\ x[2] = pos[b][2]
        BY <1>6, <1>7, <2>3, <2>5, <3>2 DEF Behind
      <4>2. x = x0
        BY <1>5, <1>7, <3>2, <4>1 DEF Spot
      <4>3. QED
        BY <2>2, <4>2
    <3>3. QED
      BY <3>1, <3>2
  <2>6. IteratorInv(b)'
    <3>1. \A x : Wanted(b, x)' <=> Wanted(b, x)
      BY <1>1 DEF Wanted
    <3>2. QED
      BY <1>2, <1>5, <2>1, <2>2, <2>4, <2>5, <3>1 DEF IteratorInv
  <2>7. BacklogIsComplete'
    <3>1. \A n \in Newcomer : bpc'[n] = "done" => bpc[n] = "done"
      BY <1>10 DEF BacklogInv, BacklogTypes
    <3>2. QED
      BY <1>1, <1>8, <3>1 DEF BacklogInv, BacklogIsComplete
  <2>8. QED
    BY <1>3, <1>4, <1>9, <2>6, <2>7 DEF BacklogInv
<1>11. CASE bpc' = [bpc EXCEPT ![b] = "done"] /\ UNCHANGED <<noticed, pos>>
             /\ ~ChunkIsEarlier(found[b], stopAt[b])
  <2>1. bpc'[b] = "done"
    BY <1>11 DEF BacklogInv, BacklogTypes
  <2>2. IteratorInv(b)'
    BY <1>1, <1>2, <1>5, <1>11, <2>1 DEF IteratorInv
  <2>3. ASSUME NEW x \in since[b], Wanted(b, x), Before(x[1], stopAt[b].prod)
        PROVE  x \in noticed[b]
    <3> SUFFICES ASSUME ~Behind(x, pos[b]) PROVE FALSE
      BY <1>5, <2>3
    <3> DEFINE stop == stopAt[b].prod
    <3>1. found[b].prod = pos[b][1] /\ ~IsEarlierThan(pos[b][1], stop)
      BY <1>5, <1>11 DEF ChunkIsEarlier
    <3>2. stop \in Prod \cup {0}
      BY DEF BacklogInv, BacklogTypes, AnyChunkId, NoChunkId
    <3>3. \A q \in Prod \cup {0} : /\ q \in 0 .. IndexCount - 1 /\ InWindow(q)
                                   /\ Rank(q) =< Half /\ Rank(q) \in Nat
      <4>1. \A q \in Prod \cup {0} : q \in 0 .. IndexCount - 1 /\ Rank(q) < Half /\ InWindow(q)
        BY WindowIsOrdered DEF InWindow
      <4>2. \A q \in Prod \cup {0} : Rank(q) \in 0 .. IndexCount - 1 /\ Half \in Nat
        BY <4>1, WindowIsOrdered
      <4>3. QED
        BY <4>1, <4>2
    <3>4. Rank(x[1]) =< Rank(stop)
      BY <1>7, <2>3, <3>2, <3>3, WindowIsOrdered DEF Before
    <3>5. Rank(pos[b][1]) > Rank(stop)
      <4>1. Rank(pos[b][1]) \in 0 .. IndexCount - 1
        BY <1>6, WindowIsOrdered
      <4>2. ~(Rank(pos[b][1]) =< Rank(stop))
        BY <1>6, <3>1, <3>2, <3>3, WindowIsOrdered
      <4>3. QED
        BY <3>2, <3>3, <4>1, <4>2
    <3>6. Rank(pos[b][1]) \in 0 .. IndexCount - 1
      BY <1>6, WindowIsOrdered
    <3>7. Rank(x[1]) < Rank(pos[b][1])
      BY <1>7, <3>2, <3>3, <3>4, <3>5, <3>6
    <3>8. QED
      BY <3>7 DEF Behind
  <2>4. BacklogIsComplete'
    <3>1. ASSUME NEW n \in Newcomer, n # b, bpc'[n] = "done" PROVE bpc[n] = "done"
      BY <1>11, <3>1 DEF BacklogInv, BacklogTypes
    <3>2. QED
      BY <1>1, <1>11, <2>3, <3>1 DEF BacklogInv, BacklogIsComplete, Wanted
  <2>5. QED
    BY <1>3, <1>4, <1>9, <2>2, <2>4 DEF BacklogInv
<1>12. QED
  BY <1>1, <1>10, <1>11

(* Every backlog that has ended has announced all that was in the store    *)
(* from where it was to start to where it could stop, across the end of    *)
(* the indexes and whatever is received or deleted meanwhile, as long as   *)
(* the products are less than half of the indexes apart.                   *)
THEOREM BacklogComplete ==
  ASSUME Window # {} PROVE BacklogSpec => []BacklogIsComplete
<1>1. BacklogInit => BacklogInv
  <2> SUFFICES ASSUME BacklogInit PROVE BacklogInv
    OBVIOUS
  <2>1. DOMAIN prods = {}
    BY DEF BacklogInit, MapInit
  <2>2. EndsInv
    BY <2>1 DEF BacklogInit, MapInit, EndsInv
  <2>3. BacklogTypes
    BY DEF BacklogInit, BacklogTypes
  <2>4. \A b \in Newcomer : bpc[b] = "waiting" /\ since[b] = {}
    BY DEF BacklogInit
  <2>5. QED
    BY <2>2, <2>3, <2>4 DEF BacklogInv, IteratorInv, BacklogIsComplete
<1>2. BacklogInv /\ [BacklogNext]_<<prodMapVars, backlogVars>> => BacklogInv'
  <2> SUFFICES ASSUME BacklogInv, [BacklogNext]_<<prodMapVars, backlogVars>> PROVE BacklogInv'
    OBVIOUS
  <2>1. CASE BacklogNext
    BY <2>1, StoreSteps, StartSteps, NextStep, NotifyStep DEF BacklogNext, BacklogStep
  <2>2. CASE UNCHANGED <<prodMapVars, backlogVars>>
    <3>1. /\ UNCHANGED <<prods, incomplete, earliest, latest>>
          /\ UNCHANGED <<startWith, stopAt, bpc, pos, found, prevIndex, noticed, since>>
      BY <2>2 DEF prodMapVars, backlogVars
    <3>2. Stored' = Stored
      BY <3>1 DEF Stored, HaveChunk, Known
    <3>3. EndsInv' /\ BacklogTypes' /\ BacklogIsComplete'
      BY <3>1 DEF BacklogInv, EndsInv, BacklogTypes, BacklogIsComplete
    <3>4. \A b \in Newcomer : IteratorInv(b)'
      BY <3>1, <3>2 DEF BacklogInv, IteratorInv, Wanted
    <3>5. QED
      BY <3>3, <3>4 DEF BacklogInv
  <2>3. QED
    BY <2>1, <2>2
<1>3. BacklogInv => BacklogIsComplete
  BY DEF BacklogInv
<1>4. QED
  BY <1>1, <1>2, <1>3, PTL DEF BacklogSpec

=============================================================================
