------------------------------ MODULE Watcher ------------------------------
(***************************************************************************)
(* The files of a node's shared folders and the watcher of their changes   *)
(* (tusher-sync/src/watcher.rs).  The operating system reports that a path *)
(* changed; the debouncer waits until the path is quiet, looks at the disk *)
(* and reports the file's content, or its absence, to the coordinator.     *)
(* Paths the coordinator is writing itself are suppressed for a while.     *)
(*                                                                         *)
(* A path is a key of the catalog, <<folder, path>>, and paths that        *)
(* should_ignore_path skips are not among them.  Reports of one path that  *)
(* wait together are one: they carry no more than the path.  The debounce  *)
(* and suppression periods are delays of unknown length, but a suppression *)
(* (5 s or 10 s) outlasts the debouncing (300 ms) of a change it covers.   *)
(***************************************************************************)
EXTENDS MetadataDb

CONSTANT ChangeLimit   \* capacity of the channel to the coordinator (128)

VARIABLES
  disk,             \* content of every file that exists
  watching,         \* whether the operating system reports changes
  raw,              \* paths reported and not looked at
  pending_paths,    \* paths that wait to become quiet
  suppressed_paths, \* paths whose changes are ignored for now
  changes           \* FsChangeEvents the coordinator has not handled

watcher_vars ==
  <<disk, watching, raw, pending_paths, suppressed_paths, changes>>

debouncer == <<pending_paths, suppressed_paths, changes>>

\* What a change event says of a file that is gone.
Gone == [gone |-> TRUE]

Content(k) == IF k \in DOMAIN disk THEN disk[k] ELSE Gone

FsChangeEvent == [key : Key, content : Hash \cup {Gone}]

WatcherInit ==
  /\ watching = FALSE
  /\ raw = {}
  /\ pending_paths = {}
  /\ suppressed_paths = {}
  /\ changes = <<>>

\* A change of a file, by anyone, is reported when a watch is set.
Reported(k) == raw' = IF watching THEN raw \cup {k} ELSE raw

WriteFile(k, h) ==
  /\ disk' = [j \in DOMAIN disk \cup {k} |-> IF j = k THEN h ELSE disk[j]]
  /\ Reported(k)

RemoveFile(k) ==
  /\ disk' = [j \in DOMAIN disk \ {k} |-> disk[j]]
  /\ Reported(k)

suppress_path(k) == suppressed_paths' = suppressed_paths \cup {k}

---------------------------------------------------------------------------
\* The period is over; the changes it was meant for have been looked at.
EndSuppression(k) ==
  /\ k \in suppressed_paths
  /\ k \notin raw \cup pending_paths
  /\ suppressed_paths' = suppressed_paths \ {k}
  /\ UNCHANGED <<disk, watching, raw, pending_paths, changes>>

\* The debouncer takes a report of the operating system.
TakeReport(k) ==
  /\ k \in raw
  /\ raw' = raw \ {k}
  /\ pending_paths' = IF k \in suppressed_paths THEN pending_paths
                                                ELSE pending_paths \cup {k}
  /\ UNCHANGED <<disk, watching, suppressed_paths, changes>>

\* The path has been quiet for the debounce period: unless it is suppressed
\* by now, its file is looked at.  The debouncer waits for room.
EmitChange(k) ==
  /\ k \in pending_paths
  /\ k \in suppressed_paths \/ Len(changes) < ChangeLimit
  /\ pending_paths' = pending_paths \ {k}
  /\ changes' = IF k \in suppressed_paths THEN changes
                ELSE Append(changes, [key |-> k, content |-> Content(k)])
  /\ UNCHANGED <<disk, watching, raw, suppressed_paths>>

\* FolderWatcher::start.
StartWatching ==
  /\ ~watching
  /\ watching' = TRUE
  /\ UNCHANGED <<disk, raw, debouncer>>

\* The process ends, and with it all the watcher keeps.
StopWatching ==
  /\ watching' = FALSE
  /\ raw' = {}
  /\ pending_paths' = {}
  /\ suppressed_paths' = {}
  /\ changes' = <<>>
===========================================================================
