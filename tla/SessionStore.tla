---------------------------- MODULE SessionStore ----------------------------
(***************************************************************************)
(* SessionStore of messaging/session.py: trees, lookups and a message log  *)
(* in memory, one JSON file, and a debounce timer that writes it.          *)
(*                                                                         *)
(* The event loop calls the operations; every timer that expires is a      *)
(* thread of its own.  They share a lock, which is held while the memory   *)
(* is changed or copied and not while a copy is written, so writes can be  *)
(* in flight side by side.  A write replaces the file atomically or fails. *)
(***************************************************************************)
EXTENDS Naturals, Sequences

CONSTANTS
    Roots,       \* roots of the trees
    Nodes,       \* ids that lookups map to a tree: messages, status messages
    None,        \* no tree
    Ids,         \* platform message ids
    Cap,         \* max_message_log_entries_per_chat, 0 for no cap
    MaxEdits,    \* bound: changes of the memory in a behaviour
    MaxFailures, \* bound: failing writes
    MaxCrashes   \* bound: ends of the process, with a restart

ASSUME NoneAssumption == None \notin Roots
ASSUME CapAssumption == Cap \in Nat
ASSUME BoundsAssumption ==
    MaxEdits \in Nat /\ MaxFailures \in Nat /\ MaxCrashes \in Nat

VARIABLES
    trees,     \* _trees: the edit that saved each tree, 0 when absent
    lookup,    \* _node_to_tree
    log,       \* _message_log of a chat
    known,     \* _message_log_ids of that chat
    dirty,     \* _dirty
    ref,       \* _save_timer: a timer, or 0
    armed,     \* timers that have not expired and were not cancelled
    expired,   \* timer threads waiting for the lock
    writing,   \* the snapshot each writing thread holds; thread 0 is the loop
    disk,      \* the file
    overlap,   \* history: the writes that were last in flight overlapped
    failed,    \* history: a write failed and nothing was scheduled since
    edits, failures, crashes

memVars   == <<trees, lookup, log, known>>
timerVars == <<dirty, ref, armed, expired>>
diskVars  == <<writing, disk, overlap>>
vars == <<memVars, timerVars, diskVars, failed, edits, failures, crashes>>

Timers == 1..MaxEdits
Threads == {0} \cup Timers

Contents == [trees : [Roots -> 0..MaxEdits],
             lookup : [Nodes -> Roots \cup {None}],
             log : Seq(Ids)]

\* What _snapshot copies.
Memory == [trees |-> trees, lookup |-> lookup, log |-> log]

TypeOK ==
    /\ Memory \in Contents
    /\ known \subseteq Ids
    /\ dirty \in BOOLEAN /\ overlap \in BOOLEAN /\ failed \in BOOLEAN
    /\ ref \in Threads
    /\ armed \subseteq Timers
    /\ expired \subseteq Timers
    /\ DOMAIN writing \subseteq Threads
    /\ \A t \in DOMAIN writing : writing[t] \in Contents
    /\ disk \in Contents
    /\ edits \in 0..MaxEdits
    /\ failures \in 0..MaxFailures
    /\ crashes \in 0..MaxCrashes

Init ==
    /\ trees = [r \in Roots |-> 0]
    /\ lookup = [n \in Nodes |-> None]
    /\ log = <<>>
    /\ known = {}
    /\ dirty = FALSE
    /\ ref = 0
    /\ armed = {}
    /\ expired = {}
    /\ writing = <<>>
    /\ disk = Memory
    /\ overlap = FALSE
    /\ failed = FALSE
    /\ edits = 0
    /\ failures = 0
    /\ crashes = 0

-----------------------------------------------------------------------------
(***************************************************************************)
(* Helpers.                                                                *)
(***************************************************************************)

\* The event loop writes synchronously: nothing else runs on it meanwhile.
LoopFree == 0 \notin DOMAIN writing

\* Thread t starts to write the current memory.
BeginWrite(t) ==
    /\ writing' = [u \in DOMAIN writing \cup {t} |->
                     IF u = t THEN Memory' ELSE writing[u]]
    /\ overlap' = (DOMAIN writing # {})

\* _schedule_save: the debounce starts again with a new timer.
Schedule ==
    /\ edits < MaxEdits
    /\ edits' = edits + 1
    /\ dirty' = TRUE
    /\ failed' = FALSE
    /\ armed' = (armed \ {ref}) \cup {edits + 1}
    /\ ref' = edits + 1
    /\ UNCHANGED <<expired, diskVars, failures, crashes>>

\* _flush_save and the write that follows it.
Flush ==
    /\ dirty' = FALSE
    /\ armed' = armed \ {ref}
    /\ ref' = 0
    /\ BeginWrite(0)
    /\ UNCHANGED <<expired, disk, failed, edits, failures, crashes>>

\* The log after recording i: only the latest Cap records are kept.
Appended(i) ==
    LET all == Append(log, i)
    IN IF Cap > 0 /\ Len(all) > Cap
       THEN SubSeq(all, Len(all) - Cap + 1, Len(all)) ELSE all

\* Defect: the set of recorded ids is not trimmed with the log.
IdsOfDefect(s) == known \cup {s[k] : k \in DOMAIN s}

IdsOf(s) == {s[k] : k \in DOMAIN s}

-----------------------------------------------------------------------------
(***************************************************************************)
(* Operations of the event loop.                                           *)
(***************************************************************************)

\* save_tree: the lookups of tree r become those of the data, which holds
\* the nodes N.
SaveTree(r, N) ==
    /\ LoopFree
    /\ Schedule
    /\ trees' = [trees EXCEPT ![r] = edits + 1]
    /\ lookup' = [n \in Nodes |-> IF n \in N THEN r
                                  ELSE IF lookup[n] = r THEN None
                                  ELSE lookup[n]]
    /\ UNCHANGED <<log, known>>

RegisterNode(n, r) ==
    /\ LoopFree
    /\ Schedule
    /\ lookup' = [lookup EXCEPT ![n] = r]
    /\ UNCHANGED <<trees, log, known>>

RemoveNodeMappings(N) ==
    /\ LoopFree
    /\ Schedule
    /\ lookup' = [n \in Nodes |-> IF n \in N THEN None ELSE lookup[n]]
    /\ UNCHANGED <<trees, log, known>>

RemoveTree(r) ==
    /\ LoopFree
    /\ trees[r] # 0
    /\ Schedule
    /\ trees' = [trees EXCEPT ![r] = 0]
    /\ lookup' = [n \in Nodes |-> IF lookup[n] = r THEN None ELSE lookup[n]]
    /\ UNCHANGED <<log, known>>

RecordId(i) ==
    /\ LoopFree
    /\ i \notin known
    /\ Schedule
    /\ log' = Appended(i)
    /\ known' = IdsOf(log')
    /\ UNCHANGED <<trees, lookup>>

ClearAll ==
    /\ LoopFree
    /\ trees' = [r \in Roots |-> 0]
    /\ lookup' = [n \in Nodes |-> None]
    /\ log' = <<>>
    /\ known' = {}
    /\ Flush

FlushPending ==
    /\ LoopFree
    /\ UNCHANGED memVars
    /\ Flush

-----------------------------------------------------------------------------
(***************************************************************************)
(* Timer threads and writes.                                               *)
(***************************************************************************)

\* Half a second has passed: from here on cancel() has no effect.
Expire(t) ==
    /\ t \in armed
    /\ armed' = armed \ {t}
    /\ expired' = expired \cup {t}
    /\ UNCHANGED <<memVars, dirty, ref, diskVars, failed, edits, failures,
                   crashes>>

\* Defect: only the timer the store still refers to saves.
FireDefect(t) ==
    /\ t \in expired
    /\ expired' = expired \ {t}
    /\ ref' = 0
    /\ dirty' = (dirty /\ ref # t)
    /\ UNCHANGED <<memVars, armed, disk, failed, edits, failures, crashes>>
    /\ \/ dirty /\ ref = t /\ BeginWrite(t)
       \/ ~(dirty /\ ref = t) /\ UNCHANGED <<writing, overlap>>

\* _save_from_timer under the lock.  The reference is dropped even when it
\* is to a later timer.
Fire(t) ==
    /\ t \in expired
    /\ expired' = expired \ {t}
    /\ ref' = 0
    /\ dirty' = FALSE
    /\ UNCHANGED <<memVars, armed, disk, failed, edits, failures, crashes>>
    /\ \/ dirty /\ BeginWrite(t)
       \/ ~dirty /\ UNCHANGED <<writing, overlap>>

\* Defect: the flag is reset when the write ends; a change made meanwhile
\* is taken for written.
EndWriteDefect(t, ok) ==
    /\ t \in DOMAIN writing
    /\ writing' = [u \in DOMAIN writing \ {t} |-> writing[u]]
    /\ dirty' = ~ok
    /\ disk' = IF ok THEN writing[t] ELSE disk

\* _write_data by thread t: os.replace on success; on failure the temporary
\* file is removed and the store is dirty again, but nothing is scheduled.
EndWrite(t, ok) ==
    /\ t \in DOMAIN writing
    /\ writing' = [u \in DOMAIN writing \ {t} |-> writing[u]]
    /\ dirty' = (dirty \/ ~ok)
    /\ disk' = IF ok THEN writing[t] ELSE disk

Written(t) ==
    /\ EndWrite(t, TRUE)
    /\ UNCHANGED <<memVars, ref, armed, expired, overlap, failed, edits,
                   failures, crashes>>

WriteFails(t) ==
    /\ failures < MaxFailures
    /\ failures' = failures + 1
    /\ EndWrite(t, FALSE)
    /\ failed' = TRUE
    /\ UNCHANGED <<memVars, ref, armed, expired, overlap, edits, crashes>>

\* The process ends, by a crash or after a shutdown, and its daemon threads
\* with it; the next one loads the file.
Load ==
    /\ crashes < MaxCrashes
    /\ crashes' = crashes + 1
    /\ lookup' = disk.lookup
    /\ log' = disk.log
    /\ known' = IdsOf(disk.log)
    /\ expired' = {}
    /\ writing' = <<>>
    /\ overlap' = FALSE
    /\ failed' = FALSE
    /\ UNCHANGED <<disk, failures>>

Restart ==
    /\ Load
    /\ trees' = disk.trees
    /\ dirty' = FALSE
    /\ ref' = 0
    /\ armed' = {}
    /\ UNCHANGED edits

\* ... and some node was found running or waiting: sync_from_tree_data puts
\* the reconciled trees back, before anything else runs.
RestartStale ==
    /\ Load
    /\ edits < MaxEdits
    /\ edits' = edits + 1
    /\ \E r \in Roots : disk.trees[r] # 0
    /\ trees' = [r \in Roots |-> IF disk.trees[r] = 0 THEN 0 ELSE edits + 1]
    /\ dirty' = TRUE
    /\ ref' = edits + 1
    /\ armed' = {edits + 1}

Next ==
    \/ \E r \in Roots, N \in SUBSET Nodes : SaveTree(r, N)
    \/ \E r \in Roots, n \in Nodes : RegisterNode(n, r)
    \/ \E N \in SUBSET Nodes : RemoveNodeMappings(N)
    \/ \E r \in Roots : RemoveTree(r)
    \/ \E i \in Ids : RecordId(i)
    \/ ClearAll \/ FlushPending
    \/ \E t \in Timers : Expire(t) \/ Fire(t)
    \/ \E t \in Threads : Written(t) \/ WriteFails(t)
    \/ Restart \/ RestartStale

Spec == Init /\ [][Next]_vars

\* Timers expire, their threads get the lock and file operations return.
FairSpec ==
    /\ Spec
    /\ \A t \in Timers : WF_vars(Expire(t)) /\ WF_vars(Fire(t))
    /\ \A t \in Threads : WF_vars(Written(t) \/ WriteFails(t))

-----------------------------------------------------------------------------
(***************************************************************************)
(* Properties.                                                             *)
(***************************************************************************)

\* A log lists no id twice and respects the cap.
LogOK(s) ==
    /\ \A j, k \in DOMAIN s : s[j] = s[k] => j = k
    /\ Cap > 0 => Len(s) <= Cap

\* The set used to skip known message ids is exactly the set of logged ids,
\* no id is logged twice, and the cap holds, also after a reload.
LogAgrees == LogOK(log) /\ known = {log[k] : k \in DOMAIN log}

\* Whenever the memory has changes that no write has taken, a timer is going
\* to take them, unless the last write failed.
UnsavedIsScheduled ==
    dirty => armed \cup expired # {} \/ failed

Quiet == DOMAIN writing = {} /\ ~dirty

\* Once nothing is dirty or being written, the file holds the memory,
\* provided that the last writes did not overlap.
Persisted == Quiet /\ ~overlap => disk = Memory

\* A change is taken by a write in the end, unless a write fails.
ChangesGetWritten == dirty /\ ~failed ~> ~dirty

=============================================================================
