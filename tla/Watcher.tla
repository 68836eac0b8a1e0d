------------------------------- MODULE Watcher -------------------------------
(***************************************************************************)
(* The watcher of a publisher's repository (main/repository/Watcher.cpp):  *)
(* it finds out, through inotify(7), about the files that users create,    *)
(* link or move below the root-directory while the publisher runs.         *)
(*                                                                         *)
(* The file-system and inotify are external.  Users act between any two    *)
(* system calls of the watcher, so watch() is a list of tasks, one for     *)
(* each call that looks at the file-system.  A watch-descriptor is         *)
(* identified with its directory, which is created once: wds, the map from *)
(* pathnames to watch-descriptors, is never read.  An exception of the     *)
(* watcher ends the publisher's sender, so "failed" is final.              *)
(***************************************************************************)
EXTENDS Lists, Integers, FiniteSets

CONSTANTS
    Root,      \* the root-directory of the repository
    Dir,       \* directories, the root-directory included
    File,      \* pathnames of files that are no directories
    Parent,    \* the directory of every other directory and of every file
    MaxEvents  \* inotify's max_queued_events

ASSUME WatcherAssumption ==
    /\ Root \in Dir
    /\ Dir \cap File = {}
    /\ Parent \in [(Dir \cup File) \ {Root} -> Dir]
    /\ \A d \in Dir : IsFiniteSet({path \in DOMAIN Parent : Parent[path] = d})
    /\ MaxEvents \in Nat \ {0}

VARIABLES
    dir,      \* state of every directory
    file,     \* state of every file
    kernel,   \* directories that inotify watches
    events,   \* inotify's queue of events
    dirPaths, \* Watcher::Impl::dirPaths: watch-descriptors with a pathname
    buffer,   \* Watcher::Impl::eventBuf, from nextEvent to endEvent
    todo,     \* what is left of the calls of watch()
    regFiles, \* Watcher::Impl::regFiles
    watcher   \* where the thread is that uses the watcher

fsVars == <<dir, file, kernel, events>>
watcherVars == <<dirPaths, buffer, todo, regFiles, watcher>>
wVars == <<fsVars, watcherVars>>

(* "old": closed before the watcher's constructor returned; "moved":       *)
(* renamed to its pathname.                                                *)
DirState == {"unborn", "there", "removed"}
FileState == {"unborn", "open", "closed", "link", "old", "moved", "removed"}
Fatal == {"overflow", "unmount"}
EventKind == {"create", "close_write", "moved_to", "isdir", "delete_self", "ignored"} \cup Fatal
At(d, name, kind) == [dir |-> d, name |-> name, kind |-> kind]
Event == [dir : Dir, name : Dir \cup File, kind : EventKind]
Task == [op : {"watch", "list", "entry"}, path : Dir \cup File, add : BOOLEAN]

WatcherTypeOK ==
    /\ dir \in [Dir -> DirState]
    /\ kernel \subseteq Dir /\ dirPaths \subseteq Dir
    /\ file \in [File -> FileState]
    /\ events \in Seq(Event) /\ buffer \in Seq(Event)
    /\ todo \in Seq(Task)
    /\ regFiles \in Seq(File)
    /\ watcher \in {"starting", "idle", "looping", "failed"}

(* The constructor is about to call watch(rootDir). *)
WatcherInit ==
    /\ dir = [d \in Dir |-> IF d = Root THEN "there" ELSE "unborn"]
    /\ file = [f \in File |-> "unborn"]
    /\ kernel = {} /\ events = <<>>
    /\ dirPaths = {} /\ buffer = <<>> /\ regFiles = <<>>
    /\ todo = <<[op |-> "watch", path |-> Root, add |-> FALSE]>>
    /\ watcher = "starting"

Exists(path) ==
    IF path \in Dir THEN dir[path] = "there"
    ELSE file[path] \notin {"unborn", "removed"}
Entries(d) == {path \in DOMAIN Parent : Parent[path] = d /\ Exists(path)}
IsLink(f) == file[f] = "link"

-----------------------------------------------------------------------------
(* Users.  The kernel queues an event for a directory it watches; if the   *)
(* queue is full, the event is lost and an overflow queued once.           *)
Enqueue(new) ==
    LET room == MaxEvents - Len(events) IN
    events' = IF Len(new) =< room THEN events \o new
              ELSE IF room < 0 THEN events
              ELSE events \o SubSeq(new, 1, room) \o <<At(Root, Root, "overflow")>>

Notify(path, kind) ==
    IF Parent[path] \in kernel THEN Enqueue(<<At(Parent[path], path, kind)>>)
    ELSE UNCHANGED events

SetFile(f, from, to, kind) ==
    /\ Exists(Parent[f]) /\ file[f] = from
    /\ file' = [file EXCEPT ![f] = to]
    /\ Notify(f, kind)
    /\ UNCHANGED <<dir, kernel, watcherVars>>

(* What is there before the watcher's constructor returns is not published. *)
New(state) == IF watcher = "starting" THEN "old" ELSE state

CreateFile(f) == SetFile(f, "unborn", "open", "create")
CloseFile(f) == SetFile(f, "open", New("closed"), "close_write")
MoveFileIn(f) == SetFile(f, "unborn", New("moved"), "moved_to")

(* PubRepo::link(), of a file, once ensureDir() has made its directory: a  *)
(* hard or a symbolic link.  Users may make links, too.                    *)
LinkFile(f) == SetFile(f, "unborn", New("link"), "create")

RemoveFile(f) ==
    /\ file[f] \in {"closed", "link"}
    /\ file' = [file EXCEPT ![f] = "removed"]
    /\ UNCHANGED <<dir, kernel, events, watcherVars>>

(* A directory is made, or moved into the repository with closed files. *)
AddDir(d) ==
    /\ dir[d] = "unborn" /\ Exists(Parent[d])
    /\ dir' = [dir EXCEPT ![d] = "there"]
    /\ \/ UNCHANGED file
       \/ file' = [f \in File |-> IF Parent[f] = d THEN New("closed") ELSE file[f]]
    /\ Notify(d, "isdir")
    /\ UNCHANGED <<kernel, watcherVars>>

(* rmdir(2): the watch goes with the directory. *)
RemoveDir(d) ==
    /\ d # Root /\ Exists(d) /\ Entries(d) = {}
    /\ dir' = [dir EXCEPT ![d] = "removed"] /\ kernel' = kernel \ {d}
    /\ IF d \in kernel THEN Enqueue(<<At(d, d, "delete_self"), At(d, d, "ignored")>>)
       ELSE UNCHANGED events
    /\ UNCHANGED <<file, watcherVars>>

Unmount ==
    /\ kernel # {}
    /\ ~ \E i \in DOMAIN events : events[i].kind \in Fatal
    /\ Enqueue(<<At(Root, Root, "unmount")>>)
    /\ UNCHANGED <<dir, file, kernel, watcherVars>>

UserStep ==
    \/ \E d \in Dir \ {Root} : AddDir(d) \/ RemoveDir(d)
    \/ \E f \in File : \/ CreateFile(f) \/ CloseFile(f) \/ MoveFileIn(f)
                       \/ LinkFile(f) \/ RemoveFile(f)
    \/ Unmount

-----------------------------------------------------------------------------
(* The watcher. *)
Fails == watcher' = "failed" /\ UNCHANGED <<fsVars, dirPaths, buffer, todo, regFiles>>

(* watch(dirPath, addRegFiles) registers the watch first, ... *)
AddWatch ==
    /\ todo # <<>> /\ Head(todo).op = "watch" /\ watcher # "failed"
    /\ LET d == Head(todo).path IN
       IF ~Exists(d) THEN Fails
       ELSE /\ kernel' = kernel \cup {d} /\ dirPaths' = dirPaths \cup {d}
            /\ todo' = <<[Head(todo) EXCEPT !.op = "list"]>> \o Tail(todo)
            /\ UNCHANGED <<dir, file, events, buffer, regFiles, watcher>>

(* ... then reads the directory, in any order, ... *)
ReadDir ==
    /\ todo # <<>> /\ Head(todo).op = "list" /\ watcher # "failed"
    /\ LET d == Head(todo).path IN
       IF ~Exists(d) THEN Fails
       ELSE /\ \E names \in [1..Cardinality(Entries(d)) -> Entries(d)] :
                 /\ Elems(names) = Entries(d)
                 /\ todo' = [i \in DOMAIN names |->
                        [op |-> "entry", path |-> names[i], add |-> Head(todo).add]] \o Tail(todo)
            /\ UNCHANGED <<fsVars, dirPaths, buffer, regFiles, watcher>>

(* Mutant of VisitEntry: a file in a new directory is left to its events. *)
SkipsFiles ==
    /\ todo # <<>> /\ Head(todo).op = "entry" /\ watcher # "failed"
    /\ LET entry == Head(todo) IN
       /\ todo' = (IF entry.path \in Dir THEN <<[entry EXCEPT !.op = "watch"]>> ELSE <<>>)
                  \o Tail(todo)
       /\ UNCHANGED <<fsVars, dirPaths, buffer, regFiles, watcher>>

(* ... and looks at every entry: isDir() throws if it is gone. *)
VisitEntry ==
    /\ todo # <<>> /\ Head(todo).op = "entry" /\ watcher # "failed"
    /\ LET entry == Head(todo) IN
       IF ~Exists(entry.path) THEN Fails
       ELSE /\ IF entry.path \in Dir
               THEN /\ todo' = <<[entry EXCEPT !.op = "watch"]>> \o Tail(todo)
                    /\ UNCHANGED regFiles
               ELSE /\ todo' = Tail(todo)
                    /\ regFiles' = IF entry.add THEN Append(regFiles, entry.path)
                                   ELSE regFiles
            /\ UNCHANGED <<fsVars, dirPaths, buffer, watcher>>

ConstructorReturns ==
    /\ watcher = "starting" /\ todo = <<>>
    /\ watcher' = "idle"
    /\ UNCHANGED <<fsVars, dirPaths, buffer, todo, regFiles>>

(* readEvents(), which blocks.  The buffer has room for the whole queue. *)
ReadEvents ==
    /\ watcher = "looping" /\ todo = <<>> /\ buffer = <<>> /\ regFiles = <<>>
    /\ events # <<>>
    /\ buffer' = events /\ events' = <<>>
    /\ UNCHANGED <<dir, file, kernel, dirPaths, todo, regFiles, watcher>>

(* processEvents(), for one event.  dirPaths.at() throws if the directory  *)
(* was forgotten, and isLink() if the file is gone.                        *)
ProcessEvent ==
    /\ watcher = "looping" /\ todo = <<>> /\ buffer # <<>>
    /\ LET event == Head(buffer) IN
       IF \/ event.kind \in Fatal
          \/ event.dir \notin dirPaths
          \/ event.name \in File /\ ~Exists(event.name)
       THEN Fails
       ELSE /\ buffer' = Tail(buffer)
            /\ dirPaths' = IF event.kind = "delete_self" THEN dirPaths \ {event.dir}
                           ELSE dirPaths
            /\ todo' = IF event.kind = "isdir"
                       THEN <<[op |-> "watch", path |-> event.name, add |-> TRUE]>>
                       ELSE <<>>
            /\ regFiles' =
                 IF /\ event.name \in File
                    /\ event.kind = IF IsLink(event.name) THEN "create" ELSE "close_write"
                 THEN Append(regFiles, event.name) ELSE regFiles
            /\ UNCHANGED <<fsVars, watcher>>

WatcherStep == AddWatch \/ ReadDir \/ VisitEntry \/ ConstructorReturns \/ ReadEvents \/ ProcessEvent

(* getEvent() is called, and returns the front of the queue. *)
CallGetEvent ==
    /\ watcher = "idle" /\ watcher' = "looping"
    /\ UNCHANGED <<fsVars, dirPaths, buffer, todo, regFiles>>

ReturnEvent(f) ==
    /\ watcher = "looping" /\ todo = <<>> /\ buffer = <<>>
    /\ regFiles # <<>> /\ f = Head(regFiles)
    /\ regFiles' = Tail(regFiles)
    /\ watcher' = "idle"
    /\ UNCHANGED <<fsVars, dirPaths, buffer, todo>>

=============================================================================
