--------------------------- MODULE MessagingProofs ----------------------------
(***************************************************************************)
(* What the store of the sessions, and the way of a message to its turn,   *)
(* guarantee for any messages, commands, caps and bounds.                  *)
(*                                                                         *)
(* For the store each property is inductive with the types.  For the chat  *)
(* one invariant carries both properties; its parts relate how far a note  *)
(* has come to what its user was told, to the pending notes, to the one    *)
(* call its handler may wait for, and to the deletions still queued.  For  *)
(* the transcript of a turn one relates the open blocks to the segments    *)
(* they write into, and the stack of the subagents to those that run.      *)
(***************************************************************************)
EXTENDS SessionStore, ChatWindow, SequenceLemmas

\* Appending keeps a log of message ids, and LogOK.
LEMMA AppendedType ==
    ASSUME TypeOK, NEW i \in Ids
    PROVE  Appended(i) \in Seq(Ids)
<1>1. log \in Seq(Ids)
  BY DEF TypeOK, Contents, Memory
<1>2. Append(log, i) \in Seq(Ids)
  BY <1>1
<1>3. CASE Cap > 0 /\ Len(Append(log, i)) > Cap
  <2>1. Len(Append(log, i)) - Cap + 1 \in 1..Len(Append(log, i))
    BY <1>2, <1>3, CapAssumption
  <2>2. SubSeq(Append(log, i), Len(Append(log, i)) - Cap + 1,
               Len(Append(log, i))) \in Seq(Ids)
    BY <1>2, <2>1, SubSeqProperties
  <2> QED
    BY <1>3, <2>2 DEF Appended
<1> QED
  BY <1>2, <1>3 DEF Appended

\* A new message that is appended keeps the log within its cap and without repetitions.
LEMMA AppendedOK ==
    ASSUME TypeOK, LogAgrees, NEW i \in Ids, i \notin known
    PROVE  LogOK(Appended(i))
<1> DEFINE all == Append(log, i)
<1>1. log \in Seq(Ids) /\ all \in Seq(Ids) /\ Len(all) = Len(log) + 1
  BY DEF TypeOK, Contents, Memory
<1>2. \A j, k \in DOMAIN all : all[j] = all[k] => j = k
  BY <1>1 DEF LogAgrees, LogOK
<1>3. CASE Cap > 0 /\ Len(all) > Cap
  <2> DEFINE first == Len(all) - Cap + 1
             left == SubSeq(all, first, Len(all))
  <2>1. first \in 1..Len(all)
    BY <1>1, <1>3, CapAssumption
  <2>2. /\ Len(left) = Cap
        /\ \A k \in 1..Cap : left[k] = all[first + k - 1] /\ first + k - 1 \in DOMAIN all
        /\ DOMAIN left = 1..Cap
    BY <1>1, <1>3, <2>1, CapAssumption, SubSeqProperties
  <2>3. \A j, k \in DOMAIN left : left[j] = left[k] => j = k
    <3> SUFFICES ASSUME NEW j \in 1..Cap, NEW k \in 1..Cap, left[j] = left[k]
                 PROVE  j = k
      BY <2>2
    <3>1. first + j - 1 = first + k - 1
      <4> HIDE DEF first, left, all
      <4> QED
        BY <1>2, <2>2
    <3> QED
      BY <1>1, <3>1, CapAssumption
  <2>4. Appended(i) = left
    BY <1>3 DEF Appended
  <2> QED
    <3> HIDE DEF left
    <3> QED
      BY <2>2, <2>3, <2>4, CapAssumption DEF LogOK
<1>4. CASE ~(Cap > 0 /\ Len(all) > Cap)
  BY <1>1, <1>2, <1>4, CapAssumption DEF Appended, LogOK
<1> QED
  BY <1>3, <1>4

-----------------------------------------------------------------------------
\* Every step of the store keeps the types.
LEMMA TypeStep == TypeOK /\ [Next]_vars => TypeOK'
<1> SUFFICES ASSUME TypeOK, [Next]_vars PROVE TypeOK'
  OBVIOUS
<1> USE BoundsAssumption DEF memVars, timerVars, diskVars
<1>0. Timers \subseteq Threads /\ 0 \in Threads
  BY DEF Threads
<1>1. ASSUME Schedule, Memory' \in Contents, known' \subseteq Ids
      PROVE  TypeOK'
  <2>1. edits + 1 \in Timers /\ edits' \in 0..MaxEdits
    BY <1>1 DEF Schedule, Timers, TypeOK
  <2>2. UNCHANGED <<expired, writing, disk, overlap, failures, crashes>>
    BY <1>1 DEF Schedule
  <2> QED
    BY <1>0, <1>1, <2>1, <2>2 DEF Schedule, TypeOK, Memory
<1>2. ASSUME NEW t \in Threads, BeginWrite(t), Memory' \in Contents
      PROVE  /\ DOMAIN writing' \subseteq Threads
             /\ \A u \in DOMAIN writing' : writing'[u] \in Contents
             /\ overlap' \in BOOLEAN
  BY <1>2 DEF BeginWrite, TypeOK, Memory
<1>3. ASSUME Flush, Memory' \in Contents, known' \subseteq Ids
      PROVE  TypeOK'
  BY <1>0, <1>2, <1>3 DEF Flush, TypeOK, Memory
<1>4. ASSUME NEW r \in Roots, NEW N \in SUBSET Nodes, SaveTree(r, N)
      PROVE  TypeOK'
  <2>1. edits + 1 \in 0..MaxEdits
    BY <1>4 DEF SaveTree, Schedule, TypeOK
  <2> QED
    BY <1>1, <1>4, <2>1 DEF SaveTree, TypeOK, Contents, Memory
<1>16. ASSUME NEW r \in Roots, NEW n \in Nodes, RegisterNode(n, r)
       PROVE  TypeOK'
  BY <1>1, <1>16 DEF RegisterNode, TypeOK, Contents, Memory
<1>17. ASSUME NEW N \in SUBSET Nodes, RemoveNodeMappings(N) PROVE TypeOK'
  BY <1>1, <1>17 DEF RemoveNodeMappings, TypeOK, Contents, Memory
<1>5. ASSUME NEW r \in Roots, RemoveTree(r) PROVE TypeOK'
  BY <1>1, <1>5 DEF RemoveTree, TypeOK, Contents, Memory
<1>6. ASSUME NEW i \in Ids, RecordId(i) PROVE TypeOK'
  <2>1. log' \in Seq(Ids)
    BY <1>6, AppendedType DEF RecordId
  <2>2. known' \subseteq Ids
    BY <1>6, <2>1 DEF RecordId, IdsOf
  <2> QED
    BY <1>1, <1>6, <2>1, <2>2 DEF RecordId, TypeOK, Contents, Memory
<1>7. ASSUME ClearAll PROVE TypeOK'
  BY <1>3, <1>7 DEF ClearAll, Contents, Memory
<1>8. ASSUME FlushPending PROVE TypeOK'
  BY <1>3, <1>8 DEF FlushPending, TypeOK, Memory
<1>9. ASSUME NEW t \in Timers, Expire(t) PROVE TypeOK'
  BY <1>9 DEF Expire, TypeOK, Memory
<1>10. ASSUME NEW t \in Timers, Fire(t) PROVE TypeOK'
  <2>1. Memory' \in Contents
    BY <1>10 DEF Fire, TypeOK, Memory
  <2>2. /\ DOMAIN writing' \subseteq Threads
        /\ \A u \in DOMAIN writing' : writing'[u] \in Contents
        /\ overlap' \in BOOLEAN
    BY <1>0, <1>2, <1>10, <2>1 DEF Fire, TypeOK
  <2> QED
    BY <1>0, <1>10, <2>1, <2>2 DEF Fire, TypeOK
<1>11. ASSUME NEW t \in Threads, NEW ok \in BOOLEAN, EndWrite(t, ok)
       PROVE  /\ DOMAIN writing' \subseteq Threads
              /\ \A u \in DOMAIN writing' : writing'[u] \in Contents
              /\ disk' \in Contents
              /\ dirty' \in BOOLEAN
  BY <1>11 DEF EndWrite, TypeOK
<1>12. ASSUME NEW t \in Threads, Written(t) PROVE TypeOK'
  BY <1>11, <1>12 DEF Written, TypeOK, Memory
<1>13. ASSUME NEW t \in Threads, WriteFails(t) PROVE TypeOK'
  <2>1. failures' \in 0..MaxFailures
    BY <1>13 DEF WriteFails, TypeOK
  <2> QED
    BY <1>11, <1>13, <2>1 DEF WriteFails, TypeOK, Memory
<1>14. ASSUME Restart \/ RestartStale PROVE TypeOK'
  <2>1. crashes' \in 0..MaxCrashes /\ edits' \in 0..MaxEdits
    BY <1>14 DEF Restart, RestartStale, Load, TypeOK
  <2>2. lookup' = disk.lookup /\ log' = disk.log /\ known' \subseteq Ids
    BY <1>14 DEF Restart, RestartStale, Load, TypeOK, Contents, IdsOf
  <2>3. trees' \in [Roots -> 0..MaxEdits]
    BY <1>14 DEF Restart, RestartStale, Load, TypeOK, Contents
  <2>4. Memory' \in Contents
    BY <2>2, <2>3 DEF TypeOK, Contents, Memory
  <2>5. ref' \in Threads /\ armed' \subseteq Timers /\ dirty' \in BOOLEAN
    <3>1. CASE Restart
      BY <1>0, <3>1 DEF Restart
    <3>2. CASE RestartStale
      <4>1. edits \in 0..MaxEdits /\ edits < MaxEdits
        BY <3>2 DEF RestartStale, TypeOK
      <4>2. edits + 1 \in Timers
        BY <4>1 DEF Timers
      <4> QED
        BY <1>0, <3>2, <4>2 DEF RestartStale
    <3> QED
      BY <1>14, <3>1, <3>2
  <2> QED
    BY <1>14, <2>1, <2>2, <2>4, <2>5, EmptyDomain
       DEF Restart, RestartStale, Load, TypeOK
<1>15. CASE UNCHANGED vars
  BY <1>15 DEF vars, TypeOK, Memory
<1> QED
  BY <1>4, <1>5, <1>6, <1>7, <1>8, <1>9, <1>10, <1>12, <1>13, <1>14, <1>15,
     <1>16, <1>17
     DEF Next

\* The variables of the store always hold values of their types.
THEOREM StoreTypeCorrect == Spec => []TypeOK
<1>1. Init => TypeOK
  <2> SUFFICES ASSUME Init PROVE TypeOK
    OBVIOUS
  <2>1. [r \in Roots |-> 0] \in [Roots -> 0..MaxEdits] /\ <<>> \in Seq(Ids)
        /\ [n \in Nodes |-> None] \in [Nodes -> Roots \cup {None}]
    BY BoundsAssumption
  <2>2. Memory \in Contents /\ disk \in Contents
    BY <2>1 DEF Init, Memory, Contents
  <2> QED
    <3>1. DOMAIN writing = {}
      BY EmptyDomain DEF Init
    <3>2. /\ edits \in 0..MaxEdits
          /\ failures \in 0..MaxFailures
          /\ crashes \in 0..MaxCrashes
      BY BoundsAssumption DEF Init
    <3>3. /\ ref \in Threads /\ known = {} /\ armed = {} /\ expired = {}
          /\ dirty \in BOOLEAN /\ overlap \in BOOLEAN /\ failed \in BOOLEAN
      BY DEF Init, Threads
    <3> QED
      BY <2>2, <3>1, <3>2, <3>3 DEF TypeOK, Memory
<1> QED
  BY <1>1, TypeStep, PTL DEF Spec

-----------------------------------------------------------------------------
\* Every change that no write has taken waits for a timer, unless the last
\* write failed.
THEOREM Scheduled == Spec => []UnsavedIsScheduled
<1>1. Init => UnsavedIsScheduled
  BY DEF Init, UnsavedIsScheduled
<1>2. UnsavedIsScheduled /\ [Next]_vars => UnsavedIsScheduled'
  <2> SUFFICES ASSUME UnsavedIsScheduled, [Next]_vars PROVE UnsavedIsScheduled'
    OBVIOUS
  <2> USE DEF UnsavedIsScheduled, memVars, timerVars, diskVars
  <2>1. CASE Schedule
    BY <2>1 DEF Schedule
  <2>2. CASE ClearAll \/ FlushPending
    BY <2>2 DEF ClearAll, FlushPending, Flush
  <2>3. ASSUME NEW t \in Timers, Expire(t) \/ Fire(t)
        PROVE  UnsavedIsScheduled'
    BY <2>3 DEF Expire, Fire
  <2>4. ASSUME NEW t \in Threads, Written(t) \/ WriteFails(t)
        PROVE  UnsavedIsScheduled'
    BY <2>4 DEF Written, WriteFails, EndWrite
  <2>5. CASE Restart \/ RestartStale
    BY <2>5 DEF Restart, RestartStale, Load
  <2>6. CASE UNCHANGED vars
    BY <2>6 DEF vars
  <2> QED
    BY <2>1, <2>2, <2>3, <2>4, <2>5, <2>6
       DEF Next, SaveTree, RegisterNode, RemoveNodeMappings, RemoveTree, RecordId
<1> QED
  BY <1>1, <1>2, PTL DEF Spec

-----------------------------------------------------------------------------
(***************************************************************************)
(* The file.  While writes do not overlap, a clean store has its memory    *)
(* either in the file or in the hands of the only writer.                  *)
(***************************************************************************)
FileInv ==
    ~dirty /\ ~overlap =>
        \/ DOMAIN writing = {} /\ disk = Memory
        \/ \E t \in DOMAIN writing : DOMAIN writing = {t} /\ writing[t] = Memory

\* A write that begins alone takes the memory; one that does not, overlaps.
LEMMA BeginWriteFile ==
    ASSUME NEW t, BeginWrite(t)
    PROVE  FileInv'
<1>1. overlap' \/ (DOMAIN writing' = {t} /\ writing'[t] = Memory')
  BY DEF BeginWrite, Memory
<1> QED
  BY <1>1 DEF FileInv

\* Once nothing is dirty or being written and the last writes did not
\* overlap, the file holds the memory.
THEOREM FilePersisted == Spec => []Persisted
<1>1. Init => FileInv
  BY EmptyDomain DEF Init, FileInv, Memory
<1>2. TypeOK /\ FileInv /\ [Next]_vars => FileInv'
  <2> SUFFICES ASSUME TypeOK, FileInv, [Next]_vars PROVE FileInv'
    OBVIOUS
  <2> USE DEF memVars, timerVars, diskVars
  <2>1. CASE Schedule
    BY <2>1 DEF Schedule, FileInv
  <2>2. CASE ClearAll \/ FlushPending
    BY <2>2, BeginWriteFile DEF ClearAll, FlushPending, Flush
  <2>3. ASSUME NEW t \in Timers, Expire(t)
        PROVE  FileInv'
    BY <2>3 DEF Expire, FileInv, Memory
  <2>4. ASSUME NEW t \in Timers, Fire(t)
        PROVE  FileInv'
    <3>1. CASE dirty /\ BeginWrite(t)
      BY <3>1, BeginWriteFile
    <3>2. CASE ~dirty /\ UNCHANGED <<writing, overlap>>
      BY <2>4, <3>2 DEF Fire, FileInv, Memory
    <3> QED
      BY <2>4, <3>1, <3>2 DEF Fire
  <2>5. ASSUME NEW t \in Threads, Written(t)
        PROVE  FileInv'
    <3> SUFFICES ASSUME ~dirty, ~overlap
                 PROVE  DOMAIN writing' = {} /\ disk' = Memory'
      BY <2>5 DEF Written, EndWrite, TypeOK, FileInv
    <3>1. DOMAIN writing = {t} /\ writing[t] = Memory
      BY <2>5 DEF Written, EndWrite, FileInv
    <3> QED
      BY <2>5, <3>1 DEF Written, EndWrite, Memory
  <2>6. ASSUME NEW t \in Threads, WriteFails(t)
        PROVE  FileInv'
    BY <2>6 DEF WriteFails, EndWrite, FileInv
  <2>7. CASE Restart \/ RestartStale
    <3>1. disk = [trees |-> disk.trees, lookup |-> disk.lookup,
                 log |-> disk.log]
      BY DEF TypeOK, Contents
    <3> QED
      BY <2>7, <3>1, EmptyDomain DEF Restart, RestartStale, Load, FileInv, Memory
  <2>8. CASE UNCHANGED vars
    BY <2>8 DEF vars, FileInv, Memory
  <2> QED
    BY <2>1, <2>2, <2>3, <2>4, <2>5, <2>6, <2>7, <2>8
       DEF Next, SaveTree, RegisterNode, RemoveNodeMappings, RemoveTree, RecordId
<1>3. FileInv => Persisted
  BY DEF FileInv, Persisted, Quiet, Memory
<1> QED
  BY <1>1, <1>2, <1>3, StoreTypeCorrect, PTL DEF Spec

-----------------------------------------------------------------------------
(***************************************************************************)
(* The message log, in memory, in every snapshot and in the file.          *)
(***************************************************************************)
LogInv ==
    /\ LogAgrees
    /\ LogOK(disk.log)
    /\ \A t \in DOMAIN writing : LogOK(writing[t].log)

\* The log lists no id twice, respects the cap and agrees with the set of
\* known ids, across clears and restarts.
THEOREM LogCorrect == Spec => []LogAgrees
<1>1. Init => LogInv
  <2>1. LogOK(<<>>)
    BY EmptyDomain, CapAssumption DEF LogOK
  <2> QED
    BY <2>1, EmptyDomain DEF Init, LogInv, LogAgrees, Memory
<1>2. TypeOK /\ LogInv /\ [Next]_vars => LogInv'
  <2> SUFFICES ASSUME TypeOK, LogInv, [Next]_vars PROVE LogInv'
    OBVIOUS
  <2> USE DEF memVars, timerVars, diskVars
  <2>0. ASSUME NEW t, BeginWrite(t), UNCHANGED disk, LogAgrees'
        PROVE  LogInv'
    BY <2>0 DEF BeginWrite, LogInv, LogAgrees, Memory
  <2>1. CASE Schedule /\ UNCHANGED <<log, known>>
    BY <2>1 DEF Schedule, LogInv, LogAgrees
  <2>2. ASSUME NEW i \in Ids, RecordId(i)
        PROVE  LogInv'
    <3>1. LogOK(log')
      BY <2>2, AppendedOK DEF RecordId, LogInv
    <3> QED
      BY <2>2, <3>1 DEF RecordId, Schedule, LogInv, LogAgrees, IdsOf
  <2>3. CASE ClearAll
    <3>1. LogOK(<<>>)
      BY EmptyDomain, CapAssumption DEF LogOK
    <3>2. LogAgrees'
      BY <2>3, <3>1, EmptyDomain DEF ClearAll, LogAgrees
    <3> QED
      BY <2>0, <2>3, <3>2 DEF ClearAll, Flush
  <2>4. CASE FlushPending
    <3>1. LogAgrees'
      BY <2>4 DEF FlushPending, LogInv, LogAgrees
    <3> QED
      BY <2>0, <2>4, <3>1 DEF FlushPending, Flush
  <2>5. ASSUME NEW t \in Timers, Expire(t)
        PROVE  LogInv'
    BY <2>5 DEF Expire, LogInv, LogAgrees
  <2>6. ASSUME NEW t \in Timers, Fire(t)
        PROVE  LogInv'
    <3>1. LogAgrees'
      BY <2>6 DEF Fire, LogInv, LogAgrees
    <3>2. CASE dirty /\ BeginWrite(t)
      BY <2>0, <2>6, <3>1, <3>2 DEF Fire
    <3>3. CASE ~dirty /\ UNCHANGED <<writing, overlap>>
      BY <2>6, <3>1, <3>3 DEF Fire, LogInv
    <3> QED
      BY <2>6, <3>2, <3>3 DEF Fire
  <2>7. ASSUME NEW t \in Threads, Written(t) \/ WriteFails(t)
        PROVE  LogInv'
    BY <2>7 DEF Written, WriteFails, EndWrite, LogInv, LogAgrees
  <2>8. CASE Restart \/ RestartStale
    BY <2>8, EmptyDomain DEF Restart, RestartStale, Load, LogInv, LogAgrees, IdsOf
  <2>9. CASE UNCHANGED vars
    BY <2>9 DEF vars, LogInv, LogAgrees
  <2> QED
    BY <2>1, <2>2, <2>3, <2>4, <2>5, <2>6, <2>7, <2>8, <2>9
       DEF Next, SaveTree, RegisterNode, RemoveNodeMappings, RemoveTree
<1>3. LogInv => LogAgrees
  BY DEF LogInv
<1> QED
  BY <1>1, <1>2, <1>3, StoreTypeCorrect, PTL DEF Spec


-----------------------------------------------------------------------------
(***************************************************************************)
(* Messages on their way to a turn (VoiceNotes, ChatWindow).               *)
(***************************************************************************)

Places == {"new", "announcing", "fetching", "intake", "done"}
Outcomes == {"none", "refused", "disabled", "dropped", "nofile", "failed", "turn",
             "misreported", "cancelled", "cleared", "swept"}
Names == {"message", "status", "command", "nothing"} \X (Notes \cup Commands)
Users == Notes \cup Commands \cup {""}
Calls == [op : {"send", "edit", "delete"}, ids : SUBSET Names,
          who : Users, tries : Nat, last : BOOLEAN]
Answers == [who : Notes \cup Commands, op : {"send", "edit", "delete"},
            result : {"ok", "raised"}]

ChatTypes ==
    /\ calls \in Seq(Calls) /\ answers \in SUBSET Answers
    /\ logged \in SUBSET Names
    /\ at \in [Notes -> Places] /\ outcome \in [Notes -> Outcomes]
    /\ turns \in SUBSET ran /\ ran \in SUBSET Notes /\ temp \in SUBSET Notes
    /\ command \in [Commands -> [at : {"new", "waiting", "done"}, all : BOOLEAN,
                                 removes : SUBSET Notes]]

\* How far a message has come, what its user was told, and whether a /clear
\* that replies to it can still cancel it.
ChatOutcome(n) ==
    /\ at[n] \in {"new", "announcing", "intake"} => outcome[n] = "none"
    /\ at[n] = "fetching" => outcome[n] \in {"none", "cancelled"}
    /\ at[n] = "done" => outcome[n] # "none"
    /\ outcome[n] = "turn" => n \in turns
    /\ n \in ran => at[n] = "done" /\ outcome[n] \in {"turn", "cleared", "swept"}
    /\ n \in temp => at[n] \in {"fetching", "intake"}
    /\ outcome[n] = "cleared" => \E c \in Commands : n \in command[c].removes

ChatPending(n) ==
    /\ at[n] = "fetching" /\ outcome[n] = "none" => Voice(n) \in DOMAIN pending
    /\ Voice(n) \in DOMAIN pending \/ Status(n) \in DOMAIN pending =>
          (at[n] = "fetching" /\ outcome[n] = "none") \/ outcome[n] = "nofile"

ChatNotes ==
    /\ \A n \in Notes : ChatOutcome(n) /\ ChatPending(n)
    /\ \A c \in Commands : /\ command[c].removes \subseteq ran
                           /\ command[c].at = "new" => command[c].removes = {}

\* A handler waits for one call, and only where it asked for one; a message is
\* only sent by who waits for it.
ChatCalls ==
    /\ \A i, j \in 1 .. Len(calls) :
          calls[i].who \in Notes /\ calls[i].who = calls[j].who => i = j
    /\ \A i \in 1 .. Len(calls) :
          calls[i].who \in Notes => at[calls[i].who] \in {"announcing", "intake"}
    /\ \A a \in answers : a.who \in Notes => at[a.who] \in {"announcing", "intake"}
    /\ \A a \in answers : a.who \in Notes =>
          /\ \A b \in answers : b.who = a.who => b = a
          /\ \A i \in 1 .. Len(calls) : calls[i].who # a.who
    /\ \A i \in 1 .. Len(calls) : \A n \in Notes :
          calls[i].op = "send" /\ Status(n) \in calls[i].ids => calls[i].who = n

\* A message that gets no turn any more: its status message is not there, is
\* still to be deleted, or was kept by the platform.
Doomed(n) ==
    \/ at[n] = "new"
    \/ outcome[n] \in {"refused", "disabled", "failed", "cancelled"}
    \/ \E c \in Commands : n \in command[c].removes

ToDelete(m) == \E i \in 1 .. Len(calls) : calls[i].op = "delete" /\ m \in calls[i].ids

ChatDoomed ==
    \A n \in Notes : Doomed(n) /\ Status(n) \in posted =>
                       Status(n) \in kept \/ ToDelete(Status(n))

ChatInv == ChatTypes /\ ChatNotes /\ ChatCalls /\ ChatDoomed

-----------------------------------------------------------------------------
\* The names of messages differ.
LEMMA NamesDiffer ==
    /\ \A n, m : Voice(n) = Voice(m) => n = m
    /\ \A n, m : Status(n) = Status(m) => n = m
    /\ \A n, m : Voice(n) # Status(m) /\ Command(n) # Status(m) /\ <<"nothing", n>> # Status(m)
BY DEF Voice, Status, Command

\* What Append does.
LEMMA AppendFacts ==
    ASSUME NEW S, NEW s \in Seq(S), NEW e \in S
    PROVE  /\ Append(s, e) \in Seq(S)
           /\ Len(s) \in Nat /\ Len(Append(s, e)) = Len(s) + 1
           /\ \A i \in 1 .. Len(s) : Append(s, e)[i] = s[i]
           /\ Append(s, e)[Len(s) + 1] = e
BY AppendProperties

\* A call at the end of the queue.
LEMMA AskedCalls ==
    ASSUME ChatTypes, NEW op \in {"send", "edit", "delete"}, NEW ids \in SUBSET Names,
           NEW who \in Users, Ask(op, ids, who)
    PROVE  /\ calls' \in Seq(Calls) /\ Len(calls) \in Nat /\ Len(calls') = Len(calls) + 1
           /\ \A i \in 1 .. Len(calls) : calls'[i] = calls[i]
           /\ calls'[Len(calls')].op = op /\ calls'[Len(calls')].ids = ids
           /\ calls'[Len(calls')].who = who
<1> DEFINE c == Call(op, ids, who)
<1>1. c \in Calls /\ c.op = op /\ c.ids = ids /\ c.who = who
  BY DEF Call, Calls
<1>2. calls \in Seq(Calls) /\ calls' = Append(calls, c)
  BY DEF Ask, ChatTypes
<1> HIDE DEF c
<1>3. c \in Calls /\ calls \in Seq(Calls)
  BY <1>1, <1>2
<1>4. /\ Append(calls, c) \in Seq(Calls)
      /\ Len(calls) \in Nat /\ Len(Append(calls, c)) = Len(calls) + 1
      /\ \A i \in 1 .. Len(calls) : Append(calls, c)[i] = calls[i]
      /\ Append(calls, c)[Len(calls) + 1] = c
  BY <1>3, AppendFacts
<1> QED BY <1>1, <1>2, <1>4

\* A call that is made once more is the same call.
LEMMA AgainType ==
    ASSUME NEW c \in Calls
    PROVE  /\ [c EXCEPT !.tries = @ + 1] \in Calls
           /\ [c EXCEPT !.tries = @ + 1].op = c.op
           /\ [c EXCEPT !.tries = @ + 1].ids = c.ids
           /\ [c EXCEPT !.tries = @ + 1].who = c.who
<1> DEFINE t == c.tries + 1
<1>0. c.tries \in Nat
  BY DEF Calls
<1>1. t \in Nat
  BY <1>0
<1> HIDE DEF t
<1>2. /\ [c EXCEPT !.tries = t] \in Calls
      /\ [c EXCEPT !.tries = t].op = c.op
      /\ [c EXCEPT !.tries = t].ids = c.ids
      /\ [c EXCEPT !.tries = t].who = c.who
  BY <1>1 DEF Calls
<1> QED BY <1>2 DEF t

\* What a call that the adapter makes changes: it ends, or it is made again.
CallMade(c) ==
    /\ \/ /\ calls' = Tail(calls)
          /\ \/ answers' = answers
             \/ /\ c.who # ""
                /\ \E r \in {"ok", "raised"} :
                     answers' = answers \cup {[who |-> c.who, op |-> c.op, result |-> r]}
          /\ c.op = "delete" => \A m \in c.ids \cap posted' : m \in kept'
       \/ /\ answers' = answers
          /\ \E d \in Calls : /\ d.op = c.op /\ d.ids = c.ids /\ d.who = c.who
                              /\ calls' = <<d>> \o Tail(calls)
    /\ posted' \subseteq posted \cup (IF c.op = "send" THEN c.ids ELSE {})
    /\ kept \subseteq kept'

\* A call that ends leaves the queue, and who waits for it gets its result.
LEMMA EndedMade ==
    ASSUME NEW c, NEW r \in {"ok", "raised"}, Ended(c, r)
    PROVE  /\ calls' = Tail(calls)
           /\ \/ answers' = answers
              \/ /\ c.who # ""
                 /\ \E s \in {"ok", "raised"} :
                      answers' = answers \cup {[who |-> c.who, op |-> c.op, result |-> s]}
BY DEF Ended

\* Whatever Telegram answers, its call ends or is made again.
LEMMA TelegramMade ==
    ASSUME ChatTypes, TelegramCall
    PROVE  calls # <<>> /\ CallMade(Head(calls))
<1> DEFINE c == Head(calls)
<1>1. calls # <<>> /\ c \in Calls
  BY EmptySeq DEF TelegramCall, ChatTypes
<1>2. PICK answer \in {"ok", "network", "benign", "flood", "error"}, reached \in BOOLEAN :
         /\ TelegramAnswer(c, answer)
         /\ posted' = IF reached THEN Shown(c) ELSE posted
         /\ kept' = IF c.op = "delete" /\ ~reached /\ calls' = Tail(calls)
                    THEN kept \cup c.ids ELSE kept
  BY DEF TelegramCall
<1>a. Calls = [op : {"send", "edit", "delete"}, ids : SUBSET Names,
               who : Users, tries : Nat, last : BOOLEAN]
  BY DEF Calls
<1> HIDE DEF c
<1>3. \/ \E r \in {"ok", "raised"} : Ended(c, r)
      \/ answers' = answers /\ calls' = <<[c EXCEPT !.tries = @ + 1]>> \o Tail(calls)
      \/ answers' = answers /\ calls' = <<[c EXCEPT !.last = TRUE]>> \o Tail(calls)
  <2>1. CASE answer = "ok"
    BY <1>2, <2>1 DEF TelegramAnswer
  <2>2. CASE answer = "network"
    BY <1>2, <2>2 DEF TelegramAnswer, AgainOrRaise
  <2>3. CASE answer = "benign"
    BY <1>2, <2>3 DEF TelegramAnswer
  <2>4. CASE answer = "flood"
    <3>1. CASE c.last
      BY <1>2, <2>4, <3>1 DEF TelegramAnswer
    <3>2. CASE ~c.last
      BY <1>2, <2>4, <3>2 DEF TelegramAnswer
    <3> QED BY <3>1, <3>2
  <2>5. CASE answer = "error"
    BY <1>2, <2>5 DEF TelegramAnswer
  <2> QED BY <2>1, <2>2, <2>3, <2>4, <2>5
<1>4. posted' \subseteq posted \cup (IF c.op = "send" THEN c.ids ELSE {}) /\ kept \subseteq kept'
  BY <1>1, <1>2, <1>a DEF Shown
<1>5. c.op = "delete" /\ calls' = Tail(calls) => \A m \in c.ids \cap posted' : m \in kept'
  BY <1>2 DEF Shown
<1>6. CASE \E r \in {"ok", "raised"} : Ended(c, r)
  BY <1>1, <1>4, <1>5, <1>6, EndedMade DEF CallMade, c
<1>7. CASE answers' = answers /\ calls' = <<[c EXCEPT !.tries = @ + 1]>> \o Tail(calls)
  <2> DEFINE d == [c EXCEPT !.tries = @ + 1]
  <2>1. d \in Calls /\ d.op = c.op /\ d.ids = c.ids /\ d.who = c.who
    BY <1>1, AgainType
  <2> HIDE DEF d
  <2>2. calls' = <<d>> \o Tail(calls)
    BY <1>7 DEF d
  <2> QED BY <1>1, <1>4, <1>7, <2>1, <2>2 DEF CallMade, c
<1>8. CASE answers' = answers /\ calls' = <<[c EXCEPT !.last = TRUE]>> \o Tail(calls)
  <2> DEFINE d == [c EXCEPT !.last = TRUE]
  <2>1. d \in Calls /\ d.op = c.op /\ d.ids = c.ids /\ d.who = c.who
    BY <1>1, <1>a
  <2> HIDE DEF d
  <2>2. calls' = <<d>> \o Tail(calls)
    BY <1>8 DEF d
  <2> QED BY <1>1, <1>4, <1>8, <2>1, <2>2 DEF CallMade, c
<1> QED BY <1>3, <1>6, <1>7, <1>8

\* A call of Discord ends, whatever is answered.
LEMMA DiscordMade ==
    ASSUME ChatTypes, DiscordCall
    PROVE  calls # <<>> /\ CallMade(Head(calls))
<1> DEFINE c == Head(calls)
<1>1. calls # <<>> /\ c \in Calls
  BY EmptySeq DEF DiscordCall, ChatTypes
<1>a. c.op \in {"send", "edit", "delete"}
  BY <1>1 DEF Calls
<1>2. \/ /\ Ended(c, "ok")
         /\ posted' = Shown(c) /\ kept' = kept
      \/ /\ c.op = "delete"
         /\ \E left \in SUBSET c.ids \ {{}}, r \in {"ok", "raised"} :
               /\ Ended(c, r)
               /\ posted' = posted \ (c.ids \ left)
               /\ kept' = kept \cup left
      \/ c.op # "delete" /\ Ended(c, "raised") /\ posted' = posted /\ kept' = kept
  BY DEF DiscordCall
<1> HIDE DEF c
<1>3. \E r \in {"ok", "raised"} : Ended(c, r)
  BY <1>2
<1>4. /\ posted' \subseteq posted \cup (IF c.op = "send" THEN c.ids ELSE {})
      /\ kept \subseteq kept'
      /\ c.op = "delete" => \A m \in c.ids \cap posted' : m \in kept'
  <2>1. CASE Ended(c, "ok") /\ posted' = Shown(c) /\ kept' = kept
    BY <1>a, <2>1 DEF Shown
  <2>2. CASE c.op = "delete" /\ \E left \in SUBSET c.ids \ {{}}, r \in {"ok", "raised"} :
               /\ Ended(c, r)
               /\ posted' = posted \ (c.ids \ left)
               /\ kept' = kept \cup left
    <3>1. PICK left \in SUBSET c.ids :
             posted' = posted \ (c.ids \ left) /\ kept' = kept \cup left
      BY <2>2
    <3> QED BY <2>2, <3>1
  <2>3. CASE c.op # "delete" /\ posted' = posted /\ kept' = kept
    BY <2>3
  <2> QED BY <1>2, <2>1, <2>2, <2>3
<1> QED BY <1>1, <1>3, <1>4, EndedMade DEF CallMade, c

-----------------------------------------------------------------------------
\* What Tail does, and a first element that is replaced.
LEMMA Tailed ==
    ASSUME NEW S, NEW s \in Seq(S), s # <<>>, NEW d \in S
    PROVE  /\ Tail(s) \in Seq(S) /\ <<d>> \o Tail(s) \in Seq(S)
           /\ Len(s) \in Nat \ {0} /\ Head(s) = s[1]
           /\ Len(Tail(s)) = Len(s) - 1 /\ Len(<<d>> \o Tail(s)) = Len(s)
           /\ \A i \in 1 .. Len(s) - 1 : Tail(s)[i] = s[i + 1]
           /\ (<<d>> \o Tail(s))[1] = d
           /\ \A i \in 2 .. Len(s) : (<<d>> \o Tail(s))[i] = s[i]
<1>1. Len(s) \in Nat \ {0} /\ Head(s) = s[1] /\ Tail(s) \in Seq(S) /\ Len(Tail(s)) = Len(s) - 1
  BY EmptySeq
<1>2. \A i \in 1 .. Len(s) - 1 : Tail(s)[i] = s[i + 1]
  BY <1>1
<1> DEFINE t == Tail(s)
<1>3. t \in Seq(S) /\ Len(t) = Len(s) - 1 /\ \A i \in 1 .. Len(s) - 1 : t[i] = s[i + 1]
  BY <1>1, <1>2
<1> HIDE DEF t
<1>4. <<d>> \o t \in Seq(S) /\ Len(<<d>> \o t) = Len(s)
  <2>1. <<d>> \in Seq(S) /\ Len(<<d>>) = 1
    OBVIOUS
  <2> DEFINE u == <<d>> \o t
  <2>2. u \in Seq(S) /\ Len(u) = Len(<<d>>) + Len(t)
    BY <1>3, <2>1, ConcatProperties
  <2> HIDE DEF u
  <2>3. Len(u) = 1 + Len(t)
    BY <2>1, <2>2
  <2>4. Len(u) = Len(s)
    BY <1>1, <1>3, <2>3
  <2> QED BY <2>2, <2>4 DEF u
<1>5. \A i \in 1 .. Len(s) : (<<d>> \o t)[i] = IF i = 1 THEN d ELSE t[i - 1]
  BY <1>1, <1>3
<1>6. \A i \in 2 .. Len(s) : (<<d>> \o t)[i] = s[i]
  BY <1>1, <1>3, <1>5
<1> QED BY <1>1, <1>2, <1>4, <1>5, <1>6 DEF t

\* The queue after a call that was made.
LEMMA MadeQueue ==
    ASSUME ChatTypes, calls # <<>>, CallMade(Head(calls))
    PROVE  /\ calls' \in Seq(Calls) /\ answers' \in SUBSET Answers
           /\ Len(calls) \in Nat \ {0} /\ Head(calls) = calls[1]
           /\ \/ /\ Len(calls') = Len(calls) - 1
                 /\ \A i \in 1 .. Len(calls) - 1 : calls'[i] = calls[i + 1]
              \/ /\ Len(calls') = Len(calls) /\ answers' = answers
                 /\ \A i \in 1 .. Len(calls) : /\ calls'[i].op = calls[i].op
                                               /\ calls'[i].ids = calls[i].ids
                                               /\ calls'[i].who = calls[i].who
<1> DEFINE c == Head(calls)
<1>1. c \in Calls /\ calls \in Seq(Calls) /\ Len(calls) \in Nat \ {0} /\ c = calls[1]
  BY EmptySeq DEF ChatTypes
<1>2. c.op \in {"send", "edit", "delete"} /\ c.who \in Users
  BY <1>1 DEF Calls
<1>3. answers \in SUBSET Answers
  BY DEF ChatTypes
<1>4. CallMade(c)
  OBVIOUS
<1> HIDE DEF c
<1>5. CASE calls' = Tail(calls)
  <2>1. answers' \in SUBSET Answers
    <3>0. c.who # "" => c.who \in Notes \cup Commands
      BY <1>2 DEF Users
    <3>1. ASSUME c.who # "", NEW r \in {"ok", "raised"}
          PROVE  [who |-> c.who, op |-> c.op, result |-> r] \in Answers
      BY <1>2, <3>0, <3>1 DEF Answers
    <3> QED BY <1>3, <1>4, <3>1 DEF CallMade
  <2>2. /\ calls' \in Seq(Calls) /\ Len(calls') = Len(calls) - 1
        /\ \A i \in 1 .. Len(calls) - 1 : calls'[i] = calls[i + 1]
    BY <1>1, <1>5, Tailed
  <2> QED BY <1>1, <2>1, <2>2 DEF c
<1>6. CASE ~(calls' = Tail(calls))
  <2>1. PICK d \in Calls : /\ d.op = c.op /\ d.ids = c.ids /\ d.who = c.who
                           /\ answers' = answers /\ calls' = <<d>> \o Tail(calls)
    BY <1>4, <1>6 DEF CallMade
  <2>2. /\ calls' \in Seq(Calls) /\ Len(calls') = Len(calls) /\ calls'[1] = d
        /\ \A i \in 2 .. Len(calls) : calls'[i] = calls[i]
    BY <1>1, <2>1, Tailed
  <2>3. ASSUME NEW i \in 1 .. Len(calls)
        PROVE  /\ calls'[i].op = calls[i].op
               /\ calls'[i].ids = calls[i].ids
               /\ calls'[i].who = calls[i].who
    <3>1. CASE i = 1
      BY <1>1, <2>1, <2>2, <3>1
    <3>2. CASE i # 1
      <4>1. i \in 2 .. Len(calls)
        BY <1>1, <3>2
      <4> QED BY <2>2, <4>1
    <3> QED BY <3>1, <3>2
  <2> QED BY <1>1, <1>3, <2>1, <2>2, <2>3 DEF c
<1> QED BY <1>5, <1>6

\* What is to be deleted stays so while the queue grows at its end.
LEMMA AskedDeletes ==
    ASSUME ChatTypes, NEW op \in {"send", "edit", "delete"}, NEW ids \in SUBSET Names,
           NEW who \in Users, Ask(op, ids, who)
    PROVE  /\ \A m : ToDelete(m) => ToDelete(m)'
           /\ op = "delete" => \A m \in ids : ToDelete(m)'
<1> DEFINE k == Len(calls)
           l == Len(calls')
<1>1. /\ \A i \in 1 .. k : calls'[i] = calls[i]
      /\ calls'[l].op = op /\ calls'[l].ids = ids
  BY AskedCalls
<1>a. k \in Nat /\ l = k + 1
  BY AskedCalls
<1>b. \A m : ToDelete(m) <=> \E i \in 1 .. k : calls[i].op = "delete" /\ m \in calls[i].ids
  BY DEF ToDelete
<1>c. \A m : ToDelete(m)' <=> \E i \in 1 .. l : calls'[i].op = "delete" /\ m \in calls'[i].ids
  BY DEF ToDelete
<1> HIDE DEF k, l
<1>d. l \in 1 .. l /\ \A i \in 1 .. k : i \in 1 .. l
  BY <1>a
<1>2. ASSUME NEW m, ToDelete(m) PROVE ToDelete(m)'
  <2>1. PICK i \in 1 .. k : calls[i].op = "delete" /\ m \in calls[i].ids
    BY <1>2, <1>b
  <2>2. i \in 1 .. l /\ calls'[i] = calls[i]
    BY <1>1, <1>d
  <2> QED BY <2>1, <2>2, <1>c
<1>3. ASSUME op = "delete", NEW m \in ids PROVE ToDelete(m)'
  BY <1>1, <1>3, <1>c, <1>d
<1> QED BY <1>2, <1>3

\* A call that is asked for while its handler waits for none, and no answer
\* that comes.
Waits(place) == place \in {"announcing", "intake"}

\* ChatCalls survives a call that is asked for by who waits for none.
LEMMA AskedOne ==
    ASSUME ChatTypes, ChatCalls,
           NEW op \in {"send", "edit", "delete"}, NEW ids \in SUBSET Names,
           NEW who \in Users, Ask(op, ids, who),
           answers' = answers,
           who \in Notes => ~Waits(at[who]) /\ Waits(at'[who]),
           \A n \in Notes : Waits(at[n]) => Waits(at'[n]),
           op = "send" => \A n \in Notes : Status(n) \in ids => n = who
    PROVE  ChatCalls'
<1> DEFINE k == Len(calls)
           l == Len(calls')
<1>a. k \in Nat /\ l = k + 1
  BY AskedCalls
<1>1. /\ \A i \in 1 .. k : calls'[i] = calls[i]
      /\ calls'[l].op = op /\ calls'[l].ids = ids /\ calls'[l].who = who
  BY AskedCalls
<1>2. /\ \A i, j \in 1 .. k : calls[i].who \in Notes /\ calls[i].who = calls[j].who => i = j
      /\ \A i \in 1 .. k : calls[i].who \in Notes => Waits(at[calls[i].who])
      /\ \A a \in answers : a.who \in Notes => Waits(at[a.who])
      /\ \A a \in answers : a.who \in Notes =>
            /\ \A b \in answers : b.who = a.who => b = a
            /\ \A i \in 1 .. k : calls[i].who # a.who
      /\ \A i \in 1 .. k : \A n \in Notes :
            calls[i].op = "send" /\ Status(n) \in calls[i].ids => calls[i].who = n
  BY DEF ChatCalls, Waits
<1>b. \/ ChatCalls'
      \/ ~ /\ \A i, j \in 1 .. l : calls'[i].who \in Notes /\ calls'[i].who = calls'[j].who => i = j
           /\ \A i \in 1 .. l : calls'[i].who \in Notes => Waits(at'[calls'[i].who])
           /\ \A a \in answers' : a.who \in Notes => Waits(at'[a.who])
           /\ \A a \in answers' : a.who \in Notes =>
                 /\ \A b \in answers' : b.who = a.who => b = a
                 /\ \A i \in 1 .. l : calls'[i].who # a.who
           /\ \A i \in 1 .. l : \A n \in Notes :
                 calls'[i].op = "send" /\ Status(n) \in calls'[i].ids => calls'[i].who = n
  BY DEF ChatCalls, Waits
<1> HIDE DEF k, l
<1>c. \A i \in 1 .. l : i = l \/ i \in 1 .. k
  BY <1>a
<1>3. \A i \in 1 .. k : calls[i].who # who \/ who \notin Notes
  BY <1>2
<1>4. \A a \in answers : a.who # who \/ who \notin Notes
  BY <1>2
<1>d. \A n \in Notes : (Waits(at[n]) => Waits(at'[n])) /\ (n = who => Waits(at'[n]))
  OBVIOUS
<1>5. \A i \in 1 .. l : \/ calls'[i].op = op /\ calls'[i].ids = ids /\ calls'[i].who = who /\ i = l
                        \/ calls'[i] = calls[i] /\ i \in 1 .. k
  BY <1>1, <1>c
<1>6. \A i, j \in 1 .. l : calls'[i].who \in Notes /\ calls'[i].who = calls'[j].who => i = j
  BY <1>2, <1>3, <1>5
<1>7. \A i \in 1 .. l : calls'[i].who \in Notes => Waits(at'[calls'[i].who])
  BY <1>2, <1>5, <1>d
<1>8. \A a \in answers' : a.who \in Notes => Waits(at'[a.who])
  BY <1>2, <1>d
<1>9. \A a \in answers' : a.who \in Notes =>
            /\ \A b \in answers' : b.who = a.who => b = a
            /\ \A i \in 1 .. l : calls'[i].who # a.who
  BY <1>2, <1>4, <1>5
<1>10. \A i \in 1 .. l : \A n \in Notes :
            calls'[i].op = "send" /\ Status(n) \in calls'[i].ids => calls'[i].who = n
  BY <1>2, <1>5
<1> QED BY <1>b, <1>6, <1>7, <1>8, <1>9, <1>10

\* An answer that is taken: nothing else is under way for its handler.
LEMMA TakenOne ==
    ASSUME ChatTypes, ChatCalls, NEW a \in answers, calls' = calls, answers' = answers \ {a},
           \A n \in Notes : Waits(at[n]) => Waits(at'[n]) \/ n = a.who
    PROVE  ChatCalls'
<1>1. \A i \in 1 .. Len(calls) : calls[i].who \in Notes => calls[i].who # a.who
  BY DEF ChatCalls
<1>2. \A b \in answers' : b.who \in Notes => b.who # a.who
  BY DEF ChatCalls
<1>3. \A i \in 1 .. Len(calls) : calls[i].who \in Notes => Waits(at'[calls[i].who])
  BY <1>1 DEF ChatCalls, Waits
<1>4. \A b \in answers' : b.who \in Notes => Waits(at'[b.who])
  BY <1>2 DEF ChatCalls, Waits
<1> QED BY <1>3, <1>4 DEF ChatCalls, Waits, Status

-----------------------------------------------------------------------------
\* Messages and those who wait are what the types name.
LEMMA NamesType ==
    /\ \A n \in Notes : Voice(n) \in Names /\ Status(n) \in Names
    /\ \A c \in Commands : Command(c) \in Names /\ <<"nothing", c>> \in Names
    /\ \A n \in Notes \cup Commands : n \in Users
    /\ "" \in Users /\ "" \notin Notes
    /\ \A c \in Commands : c \notin Notes
BY PlatformAssumption DEF Names, Users, Voice, Status, Command

\* A message that gets no turn any more waits for no call.
LEMMA DoomedRests ==
    ASSUME ChatNotes, NEW n \in Notes, Doomed(n)
    PROVE  ~Waits(at[n])
<1>1. ChatOutcome(n) /\ \A c \in Commands : n \in command[c].removes => n \in ran
  BY DEF ChatNotes
<1> QED BY <1>1 DEF ChatOutcome, Doomed, Waits

\* The queue is as it was.
LEMMA SameDeletes ==
    ASSUME calls' = calls
    PROVE  \A m : ToDelete(m)' <=> ToDelete(m)
BY DEF ToDelete

\* Where no message is posted, and one that newly gets no turn is deleted.
LEMMA DoomedStays ==
    ASSUME ChatDoomed, kept \subseteq kept', \A m : ToDelete(m) => ToDelete(m)',
           \A n \in Notes : Status(n) \in posted' => Status(n) \in posted,
           \A n \in Notes : Doomed(n)' => Doomed(n) \/ ToDelete(Status(n))'
    PROVE  ChatDoomed'
<1> SUFFICES ASSUME NEW n \in Notes, Doomed(n)', Status(n) \in posted'
             PROVE  Status(n) \in kept' \/ ToDelete(Status(n))'
  BY DEF ChatDoomed, Status
<1>1. Status(n) \in posted
  OBVIOUS
<1>2. CASE Doomed(n)
  <2>1. Status(n) \in kept \/ ToDelete(Status(n))
    BY <1>1, <1>2 DEF ChatDoomed
  <2> DEFINE m == Status(n)
  <2> HIDE DEF m
  <2>2. ToDelete(m) => ToDelete(m)'
    OBVIOUS
  <2> QED BY <2>1, <2>2 DEF m
<1>3. CASE ToDelete(Status(n))'
  BY <1>3
<1> QED BY <1>2, <1>3

\* What the adapter does leaves the messages alone.
LEMMA MadeKeeps ==
    ASSUME ChatInv, calls # <<>>, CallMade(Head(calls)), UNCHANGED voiceVars
    PROVE  ChatInv'
<1> USE DEF ChatInv
<1> DEFINE k == Len(calls)
           l == Len(calls')
<1>0. UNCHANGED <<at, spoken, pending, temp, turns, ran, outcome, logged, command>>
  BY DEF voiceVars
<1>1. /\ calls' \in Seq(Calls) /\ answers' \in SUBSET Answers
      /\ k \in Nat \ {0} /\ Head(calls) = calls[1]
  BY MadeQueue
<1>2. \/ l = k - 1 /\ \A i \in 1 .. k - 1 : calls'[i] = calls[i + 1]
      \/ /\ l = k /\ answers' = answers
         /\ \A i \in 1 .. k : /\ calls'[i].op = calls[i].op
                              /\ calls'[i].ids = calls[i].ids
                              /\ calls'[i].who = calls[i].who
  BY MadeQueue
<1>3. \/ answers' = answers
      \/ \E r \in {"ok", "raised"} : answers' = answers \cup
            {[who |-> calls[1].who, op |-> calls[1].op, result |-> r]}
  BY <1>1, <1>2 DEF CallMade
<1>a. 1 \in 1 .. k /\ \A i \in 1 .. k - 1 : i \in 1 .. k /\ i + 1 \in 1 .. k /\ i + 1 # 1
  BY <1>1
<1>b. \A i, j \in 1 .. k - 1 : i + 1 = j + 1 => i = j
  OBVIOUS
<1>c. \A i \in 1 .. k : i = 1 \/ (i - 1 \in 1 .. k - 1 /\ (i - 1) + 1 = i)
  BY <1>1
<1>4. ChatTypes' /\ ChatNotes'
  <2>1. ChatTypes'
    BY <1>0, <1>1 DEF ChatTypes
  <2>2. ChatNotes'
    BY <1>0 DEF ChatNotes, ChatOutcome, ChatPending, Voice, Status
  <2> QED BY <2>1, <2>2
<1>5. /\ \A i, j \in 1 .. k : calls[i].who \in Notes /\ calls[i].who = calls[j].who => i = j
      /\ \A i \in 1 .. k : calls[i].who \in Notes => Waits(at[calls[i].who])
      /\ \A a \in answers : a.who \in Notes => Waits(at[a.who])
      /\ \A a \in answers : a.who \in Notes =>
            /\ \A b \in answers : b.who = a.who => b = a
            /\ \A i \in 1 .. k : calls[i].who # a.who
      /\ \A i \in 1 .. k : \A n \in Notes :
            calls[i].op = "send" /\ Status(n) \in calls[i].ids => calls[i].who = n
  BY DEF ChatCalls, Waits
<1>6. ChatCalls'
  <2>1. \/ ChatCalls'
        \/ ~ /\ \A i, j \in 1 .. l : calls'[i].who \in Notes /\ calls'[i].who = calls'[j].who => i = j
             /\ \A i \in 1 .. l : calls'[i].who \in Notes => Waits(at[calls'[i].who])
             /\ \A a \in answers' : a.who \in Notes => Waits(at[a.who])
             /\ \A a \in answers' : a.who \in Notes =>
                   /\ \A b \in answers' : b.who = a.who => b = a
                   /\ \A i \in 1 .. l : calls'[i].who # a.who
             /\ \A i \in 1 .. l : \A n \in Notes :
                   calls'[i].op = "send" /\ Status(n) \in calls'[i].ids => calls'[i].who = n
    BY <1>0 DEF ChatCalls, Waits
  <2> HIDE DEF k, l
  <2>2. CASE l = k - 1 /\ \A i \in 1 .. k - 1 : calls'[i] = calls[i + 1]
    <3>0. \A i \in 1 .. l : i \in 1 .. k - 1
      BY <2>2
    <3>1. \A i, j \in 1 .. l : calls'[i].who \in Notes /\ calls'[i].who = calls'[j].who => i = j
      <4> SUFFICES ASSUME NEW i \in 1 .. l, NEW j \in 1 .. l,
                          calls'[i].who \in Notes, calls'[i].who = calls'[j].who
                   PROVE  i = j
        OBVIOUS
      <4>1. i \in 1 .. k - 1 /\ j \in 1 .. k - 1 /\ i + 1 \in 1 .. k /\ j + 1 \in 1 .. k
        BY <3>0, <1>a
      <4>2. calls'[i] = calls[i + 1] /\ calls'[j] = calls[j + 1]
        BY <2>2, <4>1
      <4>3. i + 1 = j + 1
        BY <1>5, <4>1, <4>2
      <4> QED BY <1>b, <4>1, <4>3
    <3>2. \A i \in 1 .. l : \E j \in 1 .. k : calls'[i] = calls[j] /\ j # 1
      BY <2>2, <3>0, <1>a
    <3> DEFINE w == calls[1].who
    <3>3. \A a \in answers' : a \in answers \/ a.who = w
      BY <1>3
    <3>4. \A a, b \in answers' : a \notin answers /\ b \notin answers => a = b
      BY <1>3
    <3>5. w \in Notes => /\ Waits(at[w])
                         /\ \A a \in answers : a.who # w
                         /\ \A j \in 1 .. k : j # 1 => calls[j].who # w
      BY <1>5, <1>a
    <3> HIDE DEF w
    <3>6. \A a \in answers' : a.who \in Notes => Waits(at[a.who])
      BY <1>5, <3>3, <3>5
    <3>7. \A a \in answers' : a.who \in Notes => \A b \in answers' : b.who = a.who => b = a
      BY <1>5, <3>3, <3>4, <3>5
    <3>8. \A a \in answers' : a.who \in Notes => \A i \in 1 .. l : calls'[i].who # a.who
      BY <1>5, <3>2, <3>3, <3>5
    <3>9. \A i \in 1 .. l : calls'[i].who \in Notes => Waits(at[calls'[i].who])
      BY <1>5, <3>2
    <3>10. \A i \in 1 .. l : \A n \in Notes :
              calls'[i].op = "send" /\ Status(n) \in calls'[i].ids => calls'[i].who = n
      BY <1>5, <3>2
    <3> QED BY <2>1, <3>1, <3>6, <3>7, <3>8, <3>9, <3>10
  <2>3. CASE /\ l = k /\ answers' = answers
             /\ \A i \in 1 .. k : /\ calls'[i].op = calls[i].op
                                  /\ calls'[i].ids = calls[i].ids
                                  /\ calls'[i].who = calls[i].who
    BY <1>5, <2>1, <2>3
  <2> QED BY <1>2, <2>2, <2>3
<1>7. ChatDoomed'
  <2> SUFFICES ASSUME NEW n \in Notes, Doomed(n)', Status(n) \in posted'
               PROVE  Status(n) \in kept' \/ ToDelete(Status(n))'
    BY DEF ChatDoomed, Status
  <2>1. Doomed(n)
    BY <1>0 DEF Doomed
  <2>2. ~Waits(at[n])
    BY <2>1, DoomedRests
  <2>3. Status(n) \in posted
    BY <1>1, <1>5, <1>a, <2>2 DEF CallMade
  <2>4. CASE Status(n) \in kept
    BY <2>4 DEF CallMade
  <2>5. CASE ToDelete(Status(n))
    <3>1. PICK i \in 1 .. k : calls[i].op = "delete" /\ Status(n) \in calls[i].ids
      BY <2>5 DEF ToDelete
    <3>2. \/ ToDelete(Status(n))'
          \/ ~ \E j \in 1 .. l : calls'[j].op = "delete" /\ Status(n) \in calls'[j].ids
      BY DEF ToDelete, Status
    <3> HIDE DEF k, l
    <3>3. CASE l = k /\ \A j \in 1 .. k : /\ calls'[j].op = calls[j].op
                                          /\ calls'[j].ids = calls[j].ids
      BY <3>1, <3>2, <3>3
    <3>4. CASE /\ l = k - 1 /\ i # 1
               /\ \A j \in 1 .. k - 1 : calls'[j] = calls[j + 1]
      <4>1. i - 1 \in 1 .. l /\ (i - 1) + 1 = i
        BY <1>c, <3>4
      <4>2. calls'[i - 1] = calls[i]
        BY <3>4, <4>1
      <4> QED BY <3>1, <3>2, <4>1, <4>2
    <3>5. CASE l = k - 1 /\ i = 1
      <4>1. l # k
        BY <1>1, <3>5
      <4>2. ASSUME NEW d \in Calls, calls' = <<d>> \o Tail(calls)
            PROVE  FALSE
        <5>1. calls \in Seq(Calls)
          BY DEF ChatTypes
        <5>2. Len(<<d>> \o Tail(calls)) = Len(calls)
          BY <5>1, Tailed
        <5> QED BY <4>1, <4>2, <5>2 DEF k, l
      <4>3. calls[1].op = "delete" /\ Status(n) \in calls[1].ids \cap posted'
        BY <3>1, <3>5
      <4> QED BY <1>1, <4>2, <4>3 DEF CallMade
    <3> QED BY <1>2, <3>3, <3>4, <3>5
  <2> QED BY <2>1, <2>3, <2>4, <2>5 DEF ChatDoomed
<1> QED BY <1>4, <1>6, <1>7

\* The start and the end of a platform, and its calls, keep the invariant.
LEMMA PlatformKeeps ==
    ASSUME ChatInv, PlatformNext, UNCHANGED voiceVars
    PROVE  ChatInv'
<1>1. CASE TelegramStart \/ DiscordStart \/ DiscordReady \/ PlatformStop
  <2>1. UNCHANGED <<calls, answers, posted, kept>>
    BY <1>1 DEF TelegramStart, DiscordStart, DiscordReady, PlatformStop
  <2>2. UNCHANGED <<at, spoken, pending, temp, turns, ran, outcome, logged, command>>
    BY DEF voiceVars
  <2>3. ChatTypes' /\ ChatNotes' /\ ChatCalls'
    BY <2>1, <2>2 DEF ChatInv, ChatTypes, ChatNotes, ChatOutcome, ChatPending, ChatCalls,
       Voice, Status
  <2>4. ChatDoomed'
    BY <2>1, <2>2 DEF ChatInv, ChatDoomed, Doomed, ToDelete, Status
  <2> QED BY <2>3, <2>4 DEF ChatInv
<1>2. CASE TelegramCall
  BY <1>2, TelegramMade, MadeKeeps DEF ChatInv
<1>3. CASE DiscordCall
  BY <1>3, DiscordMade, MadeKeeps DEF ChatInv
<1> QED BY <1>1, <1>2, <1>3 DEF PlatformNext

\* An update that is handed out: nothing is registered or called yet.
LEMMA RefusedKeeps ==
    ASSUME ChatInv, NEW n \in Notes, Refused(n)
    PROVE  ChatInv'
<1> USE DEF ChatInv
<1>1. /\ at[n] = "new" /\ at' = [at EXCEPT ![n] = "done"]
      /\ outcome' = [outcome EXCEPT ![n] = "refused"]
      /\ posted' = posted \cup {Voice(n)}
      /\ UNCHANGED <<answers, kept, pending, temp, turns, ran, command, calls, logged>>
  BY DEF Refused, Arrives, Go, Told
<1>2. ChatTypes'
  BY <1>1 DEF ChatTypes, Places, Outcomes
<1>3. at \in [Notes -> Places] /\ outcome \in [Notes -> Outcomes]
  BY DEF ChatTypes
<1>4. /\ at'[n] = "done" /\ outcome'[n] = "refused"
      /\ \A m \in Notes : m # n => at'[m] = at[m] /\ outcome'[m] = outcome[m]
  BY <1>1, <1>3
<1>5. ChatNotes'
  <2>1. \A m \in Notes : ChatOutcome(m) /\ ChatPending(m)
    BY DEF ChatNotes
  <2>2. outcome[n] = "none" /\ n \notin ran /\ n \notin temp
    BY <1>1, <2>1 DEF ChatOutcome
  <2>3. Voice(n) \notin DOMAIN pending /\ Status(n) \notin DOMAIN pending
    BY <1>1, <2>1, <2>2 DEF ChatPending
  <2>4. \A m \in Notes : m # n => ChatOutcome(m)' /\ ChatPending(m)'
    BY <1>1, <1>4, <2>1 DEF ChatOutcome, ChatPending, Voice, Status
  <2>5. ChatOutcome(n)' /\ ChatPending(n)'
    BY <1>1, <1>4, <2>2, <2>3 DEF ChatOutcome, ChatPending, Voice, Status
  <2>6. \A c \in Commands : /\ command'[c].removes \subseteq ran'
                            /\ command'[c].at = "new" => command'[c].removes = {}
    BY <1>1 DEF ChatNotes
  <2> QED BY <2>4, <2>5, <2>6 DEF ChatNotes
<1>6. ChatCalls'
  <2>1. \A m \in Notes : Waits(at[m]) => at'[m] = at[m]
    BY <1>1, <1>4 DEF Waits
  <2> QED BY <1>1, <2>1 DEF ChatCalls, Waits, Status
<1>7. ChatDoomed'
  <2>1. \A m \in Notes : Doomed(m)' => Doomed(m)
    BY <1>1, <1>4 DEF Doomed
  <2>2. \A m \in Notes : Status(m) \in posted' => Status(m) \in posted
    BY <1>1, NamesDiffer
  <2> QED BY <1>1, <2>1, <2>2, SameDeletes, DoomedStays
<1> QED BY <1>2, <1>5, <1>6, <1>7

\* What a step of the handler of n leaves alone: the other messages.
Others(n) ==
    /\ \A m \in Notes : m # n =>
          /\ at'[m] = at[m] /\ outcome'[m] = outcome[m]
          /\ m \in turns' <=> m \in turns
          /\ m \in ran' <=> m \in ran
          /\ m \in temp' <=> m \in temp
          /\ Voice(m) \in DOMAIN pending' <=> Voice(m) \in DOMAIN pending
          /\ Status(m) \in DOMAIN pending' <=> Status(m) \in DOMAIN pending
    /\ ran \subseteq ran' /\ command' = command

\* A step of one handler keeps ChatNotes if it does so for its own message.
LEMMA OthersStay ==
    ASSUME ChatNotes, NEW n \in Notes, Others(n), ChatOutcome(n)', ChatPending(n)'
    PROVE  ChatNotes'
<1>1. \A m \in Notes : ChatOutcome(m) /\ ChatPending(m)
  BY DEF ChatNotes
<1>2. ASSUME NEW m \in Notes PROVE ChatOutcome(m)' /\ ChatPending(m)'
  <2>1. CASE m = n
    BY <2>1
  <2>2. CASE m # n
    BY <1>1, <2>2 DEF Others, ChatOutcome, ChatPending, Voice, Status
  <2> QED BY <2>1, <2>2
<1>3. \A c \in Commands : /\ command'[c].removes \subseteq ran'
                          /\ command'[c].at = "new" => command'[c].removes = {}
  BY DEF ChatNotes, Others
<1> QED BY <1>2, <1>3 DEF ChatNotes

\* The entries of other messages survive a registration and a removal.
LEMMA OtherEntries ==
    ASSUME NEW n \in Notes, pending' = Restricted(pending, {Voice(n), Status(n)}) \/ Register(n)
    PROVE  \A m \in Notes : m # n =>
              /\ Voice(m) \in DOMAIN pending' <=> Voice(m) \in DOMAIN pending
              /\ Status(m) \in DOMAIN pending' <=> Status(m) \in DOMAIN pending
<1>1. \/ DOMAIN pending' = DOMAIN pending \ {Voice(n), Status(n)}
      \/ DOMAIN pending' = DOMAIN pending \cup {Voice(n), Status(n)}
  BY DEF Restricted, Register
<1> QED BY <1>1, NamesDiffer

\* A message that is logged, announced, or refused because voice is disabled.
LEMMA ArrivesKeeps ==
    ASSUME ChatInv, NEW n \in Notes, TextArrives(n) \/ VoiceArrives(n)
    PROVE  ChatInv'
<1> USE DEF ChatInv
<1>1. /\ at[n] = "new" /\ posted' = posted \cup {Voice(n)}
      /\ UNCHANGED <<answers, kept, pending, temp, turns, ran, command>>
      /\ \E place \in {"intake", "announcing", "done"} : at' = [at EXCEPT ![n] = place]
      /\ \/ Ask("send", {Status(n)}, n) /\ outcome' = outcome /\ Waits(at'[n])
         \/ /\ calls' = calls /\ outcome' = [outcome EXCEPT ![n] = "disabled"]
            /\ at'[n] = "done"
      /\ logged' = logged \/ logged' = logged \cup {Voice(n)}
  BY DEF TextArrives, VoiceArrives, Arrives, Go, Told, ChatTypes, Waits
<1>2. at \in [Notes -> Places] /\ outcome \in [Notes -> Outcomes]
  BY DEF ChatTypes
<1>3. /\ \A m \in Notes : m # n => at'[m] = at[m] /\ outcome'[m] = outcome[m]
      /\ outcome'[n] = "disabled" \/ outcome'[n] = outcome[n]
  BY <1>1, <1>2
<1>4. Status(n) \in Names /\ Voice(n) \in Names /\ n \in Users
  BY NamesType
<1>5. ChatTypes'
  <2>1. calls' \in Seq(Calls)
    BY <1>1, <1>4, AskedCalls DEF ChatTypes
  <2>2. at' \in [Notes -> Places] /\ outcome' \in [Notes -> Outcomes]
    BY <1>1, <1>2 DEF Places, Outcomes
  <2>3. logged' \in SUBSET Names
    BY <1>1, <1>4 DEF ChatTypes
  <2> QED BY <1>1, <2>1, <2>2, <2>3 DEF ChatTypes
<1>6. ChatNotes'
  <2>1. ChatOutcome(n) /\ ChatPending(n)
    BY DEF ChatNotes
  <2>2. outcome[n] = "none" /\ n \notin ran /\ n \notin temp
    BY <1>1, <2>1 DEF ChatOutcome
  <2>3. Voice(n) \notin DOMAIN pending /\ Status(n) \notin DOMAIN pending
    BY <1>1, <2>1, <2>2 DEF ChatPending
  <2>4. \/ outcome'[n] = "none" /\ at'[n] \in {"announcing", "intake"}
        \/ outcome'[n] = "disabled" /\ at'[n] = "done"
    BY <1>1, <1>2, <2>2 DEF Waits
  <2>5. ChatOutcome(n)' /\ ChatPending(n)'
    BY <1>1, <2>2, <2>3, <2>4 DEF ChatOutcome, ChatPending, Voice, Status
  <2>6. Others(n)
    BY <1>1, <1>3 DEF Others, Voice, Status
  <2> QED BY <2>5, <2>6, OthersStay
<1>7. ChatCalls'
  <2>1. \A m \in Notes : Waits(at[m]) => Waits(at'[m]) /\ m # n
    BY <1>1, <1>3 DEF Waits
  <2>2. CASE calls' = calls
    BY <1>1, <2>1, <2>2 DEF ChatCalls, Waits, Status
  <2>3. CASE Ask("send", {Status(n)}, n) /\ Waits(at'[n])
    <3>1. \A m \in Notes : Status(m) \in {Status(n)} => m = n
      BY NamesDiffer
    <3>2. ~Waits(at[n])
      BY <1>1 DEF Waits
    <3> QED BY <1>1, <1>4, <2>1, <2>3, <3>1, <3>2, AskedOne
  <2> QED BY <1>1, <2>2, <2>3
<1>8. ChatDoomed'
  <2>1. \A m \in Notes : Doomed(m)' => Doomed(m)
    BY <1>1, <1>3 DEF Doomed
  <2>2. \A m \in Notes : Status(m) \in posted' => Status(m) \in posted
    BY <1>1, NamesDiffer
  <2>3. \A m : ToDelete(m) => ToDelete(m)'
    BY <1>1, <1>4, AskedDeletes, SameDeletes
  <2> QED BY <1>1, <2>1, <2>2, <2>3, DoomedStays
<1> QED BY <1>5, <1>6, <1>7, <1>8

\* The status message was sent, or an error came back.
LEMMA AnnouncedKeeps ==
    ASSUME ChatInv, NEW n \in Notes, Announced(n)
    PROVE  ChatInv'
<1> USE DEF ChatInv
<1>1. /\ at[n] = "announcing"
      /\ UNCHANGED <<calls, posted, kept, turns, ran, logged, command>>
  BY DEF Announced
<1>2. PICK a \in answers : a.who = n /\ answers' = answers \ {a}
  BY DEF Announced, Take
<1>3. \/ /\ at' = [at EXCEPT ![n] = "done"] /\ outcome' = [outcome EXCEPT ![n] = "dropped"]
         /\ UNCHANGED <<pending, temp>>
      \/ /\ Register(n) /\ at' = [at EXCEPT ![n] = "fetching"]
         /\ temp' = temp \cup {n} /\ outcome' = outcome
      \/ /\ Register(n) /\ at' = [at EXCEPT ![n] = "done"]
         /\ outcome' = [outcome EXCEPT ![n] = "nofile"] /\ temp' = temp
  BY DEF Announced, Go, Told
<1>4. at \in [Notes -> Places] /\ outcome \in [Notes -> Outcomes]
  BY DEF ChatTypes
<1>5. /\ \A m \in Notes : m # n => at'[m] = at[m] /\ outcome'[m] = outcome[m]
      /\ temp' = temp \/ temp' = temp \cup {n}
  BY <1>3, <1>4
<1>6. ChatTypes'
  BY <1>1, <1>2, <1>3 DEF ChatTypes, Places, Outcomes
<1>7. ChatNotes'
  <2>1. ChatOutcome(n) /\ ChatPending(n)
    BY DEF ChatNotes
  <2>2. outcome[n] = "none" /\ n \notin ran /\ n \notin temp /\ turns \subseteq ran
    BY <1>1, <2>1 DEF ChatOutcome, ChatTypes
  <2>3. Voice(n) \notin DOMAIN pending /\ Status(n) \notin DOMAIN pending
    BY <1>1, <2>1, <2>2 DEF ChatPending
  <2>4. \A m \in Notes : m # n =>
              /\ Voice(m) \in DOMAIN pending' <=> Voice(m) \in DOMAIN pending
              /\ Status(m) \in DOMAIN pending' <=> Status(m) \in DOMAIN pending
    BY <1>3, OtherEntries
  <2>5. Others(n)
    BY <1>1, <1>5, <2>4 DEF Others
  <2>6. \/ /\ at'[n] = "done" /\ outcome'[n] = "dropped"
           /\ Voice(n) \notin DOMAIN pending' /\ Status(n) \notin DOMAIN pending' /\ temp' = temp
        \/ /\ at'[n] = "fetching" /\ outcome'[n] = "none" /\ Voice(n) \in DOMAIN pending'
        \/ /\ at'[n] = "done" /\ outcome'[n] = "nofile" /\ temp' = temp
    <3>1. CASE /\ at' = [at EXCEPT ![n] = "done"]
               /\ outcome' = [outcome EXCEPT ![n] = "dropped"] /\ UNCHANGED <<pending, temp>>
      BY <1>4, <2>3, <3>1
    <3>2. CASE /\ Register(n) /\ at' = [at EXCEPT ![n] = "fetching"] /\ outcome' = outcome
      <4>1. Voice(n) \in DOMAIN pending'
        BY <3>2 DEF Register
      <4> QED BY <1>4, <2>2, <3>2, <4>1
    <3>3. CASE /\ at' = [at EXCEPT ![n] = "done"]
               /\ outcome' = [outcome EXCEPT ![n] = "nofile"] /\ temp' = temp
      BY <1>4, <3>3
    <3> QED BY <1>3, <3>1, <3>2, <3>3
  <2>7. ChatOutcome(n)' /\ ChatPending(n)'
    BY <1>1, <2>2, <2>6 DEF ChatOutcome, ChatPending, Voice, Status
  <2> QED BY <2>5, <2>7, OthersStay
<1>8. ChatCalls'
  <2>1. \A m \in Notes : Waits(at[m]) => Waits(at'[m]) \/ m = a.who
    BY <1>2, <1>5
  <2> QED BY <1>1, <1>2, <2>1, TakenOne
<1>9. ChatDoomed'
  <2>1. ASSUME NEW m \in Notes, Doomed(m)' PROVE Doomed(m)
    <3>1. CASE m # n
      BY <1>1, <1>5, <2>1, <3>1 DEF Doomed
    <3>2. CASE m = n
      <4>1. ChatOutcome(n)
        BY DEF ChatNotes
      <4>2. at'[n] # "new" /\ outcome'[n] \notin {"refused", "disabled", "failed", "cancelled"}
        BY <1>1, <1>3, <1>4, <4>1 DEF ChatOutcome
      <4> QED BY <1>1, <2>1, <3>2, <4>2 DEF Doomed
    <3> QED BY <3>1, <3>2
  <2> QED BY <1>1, <2>1, SameDeletes, DoomedStays
<1> QED BY <1>6, <1>7, <1>8, <1>9

\* A transcription that fails.
LEMMA FailedKeeps ==
    ASSUME ChatInv, NEW n \in Notes, Failed(n)
    PROVE  ChatInv'
<1> USE DEF ChatInv
<1>1. /\ at[n] = "fetching" /\ at' = [at EXCEPT ![n] = "done"]
      /\ outcome' = [outcome EXCEPT ![n] = "failed"] /\ temp' = temp \ {n}
      /\ pending' = Restricted(pending, {Voice(n), Status(n)})
      /\ Ask("delete", {Status(n)}, "")
      /\ UNCHANGED <<answers, posted, kept, turns, ran, logged, command>>
  BY DEF Failed, Go, Told, Complete
<1>2. at \in [Notes -> Places] /\ outcome \in [Notes -> Outcomes]
  BY DEF ChatTypes
<1>3. /\ \A m \in Notes : m # n => at'[m] = at[m] /\ outcome'[m] = outcome[m]
      /\ at'[n] = "done" /\ outcome'[n] = "failed"
  BY <1>1, <1>2
<1>4. Status(n) \in Names /\ "" \in Users /\ "" \notin Notes
  BY NamesType
<1>5. ChatTypes'
  <2>1. calls' \in Seq(Calls)
    BY <1>1, <1>4, AskedCalls
  <2>2. at' \in [Notes -> Places] /\ outcome' \in [Notes -> Outcomes]
    BY <1>1, <1>2 DEF Places, Outcomes
  <2> QED BY <1>1, <2>1, <2>2 DEF ChatTypes
<1>6. ChatNotes'
  <2>1. ChatOutcome(n) /\ turns \subseteq ran
    BY DEF ChatNotes, ChatTypes
  <2>2. n \notin ran /\ n \notin temp'
    BY <1>1, <2>1 DEF ChatOutcome
  <2>3. DOMAIN pending' = DOMAIN pending \ {Voice(n), Status(n)}
    BY <1>1 DEF Restricted
  <2>4. Others(n)
    <3>1. \A m \in Notes : m # n =>
              /\ Voice(m) \in DOMAIN pending' <=> Voice(m) \in DOMAIN pending
              /\ Status(m) \in DOMAIN pending' <=> Status(m) \in DOMAIN pending
      BY <1>1, OtherEntries
    <3> QED BY <1>1, <1>3, <3>1 DEF Others
  <2>5. ChatOutcome(n)' /\ ChatPending(n)'
    BY <1>1, <1>3, <2>2, <2>3 DEF ChatOutcome, ChatPending, Voice, Status
  <2> QED BY <2>4, <2>5, OthersStay
<1>7. ChatCalls'
  <2>1. \A m \in Notes : Waits(at[m]) => Waits(at'[m])
    BY <1>1, <1>3 DEF Waits
  <2> QED BY <1>1, <1>4, <2>1, AskedOne
<1>8. ChatDoomed'
  <2>1. (\A m : ToDelete(m) => ToDelete(m)') /\ ToDelete(Status(n))'
    BY <1>1, <1>4, AskedDeletes
  <2>2. \A m \in Notes : Doomed(m)' => Doomed(m) \/ m = n
    BY <1>1, <1>3 DEF Doomed
  <2>3. \A m \in Notes : Doomed(m)' => Doomed(m) \/ ToDelete(Status(m))'
    BY <2>1, <2>2
  <2> QED BY <1>1, <2>1, <2>3, DoomedStays
<1> QED BY <1>5, <1>6, <1>7, <1>8

\* A transcript: the workflow takes the message, or it was cancelled.
LEMMA HandOffKeeps ==
    ASSUME ChatInv, NEW n \in Notes, HandOff(n)
    PROVE  ChatInv'
<1> USE DEF ChatInv
<1>1. /\ at[n] = "fetching"
      /\ UNCHANGED <<answers, posted, kept, turns, ran, outcome, command>>
  BY DEF HandOff
<1>2. at \in [Notes -> Places] /\ outcome \in [Notes -> Outcomes]
  BY DEF ChatTypes
<1>3. Status(n) \in Names /\ Voice(n) \in Names /\ n \in Users /\ "" \in Users /\ "" \notin Notes
  BY NamesType
<1>4. ChatOutcome(n) /\ ChatPending(n) /\ turns \subseteq ran
  BY DEF ChatNotes, ChatTypes
<1>5. outcome[n] \in {"none", "cancelled"} /\ n \notin ran
  BY <1>1, <1>4 DEF ChatOutcome
<1>6. CASE StillPending(n)
  <2>1. /\ pending' = Restricted(pending, {Voice(n), Status(n)})
        /\ at' = [at EXCEPT ![n] = "intake"] /\ logged' = logged \cup {Voice(n)}
        /\ Ask("edit", {Status(n)}, n) /\ temp' = temp
    BY <1>6 DEF HandOff, Complete, Go
  <2>2. /\ \A m \in Notes : m # n => at'[m] = at[m]
        /\ at'[n] = "intake"
    BY <1>2, <2>1
  <2>3. outcome[n] = "none"
    BY <1>4, <1>5, <1>6 DEF ChatPending, StillPending
  <2>4. ChatTypes'
    <3>1. calls' \in Seq(Calls)
      BY <1>3, <2>1, AskedCalls
    <3>2. at' \in [Notes -> Places]
      BY <1>2, <2>1 DEF Places
    <3> QED BY <1>1, <1>3, <2>1, <3>1, <3>2 DEF ChatTypes
  <2>5. ChatNotes'
    <3>1. DOMAIN pending' = DOMAIN pending \ {Voice(n), Status(n)}
      BY <2>1 DEF Restricted
    <3>2. Others(n)
      <4>1. \A m \in Notes : m # n =>
                /\ Voice(m) \in DOMAIN pending' <=> Voice(m) \in DOMAIN pending
                /\ Status(m) \in DOMAIN pending' <=> Status(m) \in DOMAIN pending
        BY <2>1, OtherEntries
      <4> QED BY <1>1, <2>1, <2>2, <4>1 DEF Others
    <3>3. ChatOutcome(n)' /\ ChatPending(n)'
      BY <1>1, <1>5, <2>1, <2>2, <2>3, <3>1 DEF ChatOutcome, ChatPending, Voice, Status
    <3> QED BY <3>2, <3>3, OthersStay
  <2>6. ChatCalls'
    <3>1. \A m \in Notes : Waits(at[m]) => Waits(at'[m])
      BY <1>1, <2>2 DEF Waits
    <3>2. ~Waits(at[n]) /\ Waits(at'[n])
      BY <1>1, <2>2 DEF Waits
    <3> QED BY <1>1, <1>3, <2>1, <3>1, <3>2, AskedOne
  <2>7. ChatDoomed'
    <3>1. \A m : ToDelete(m) => ToDelete(m)'
      BY <1>3, <2>1, AskedDeletes
    <3>2. \A m \in Notes : Doomed(m)' => Doomed(m)
      BY <1>1, <2>2 DEF Doomed
    <3> QED BY <1>1, <3>1, <3>2, DoomedStays
  <2> QED BY <2>4, <2>5, <2>6, <2>7
<1>7. CASE ~StillPending(n)
  <2>1. /\ at' = [at EXCEPT ![n] = "done"] /\ temp' = temp \ {n}
        /\ Ask("delete", {Status(n)}, "") /\ pending' = pending /\ logged' = logged
    BY <1>7 DEF HandOff, Go
  <2>2. /\ \A m \in Notes : m # n => at'[m] = at[m]
        /\ at'[n] = "done"
    BY <1>2, <2>1
  <2>3. outcome[n] = "cancelled" /\ Voice(n) \notin DOMAIN pending /\ Status(n) \notin DOMAIN pending
    BY <1>1, <1>4, <1>5, <1>7 DEF ChatPending, StillPending
  <2>4. ChatTypes'
    <3>1. calls' \in Seq(Calls)
      BY <1>3, <2>1, AskedCalls
    <3>2. at' \in [Notes -> Places]
      BY <1>2, <2>1 DEF Places
    <3> QED BY <1>1, <2>1, <3>1, <3>2 DEF ChatTypes
  <2>5. ChatNotes'
    <3>1. Others(n)
      BY <1>1, <2>1, <2>2 DEF Others, Voice, Status
    <3>2. ChatOutcome(n)' /\ ChatPending(n)'
      BY <1>1, <1>5, <2>1, <2>2, <2>3 DEF ChatOutcome, ChatPending, Voice, Status
    <3> QED BY <3>1, <3>2, OthersStay
  <2>6. ChatCalls'
    <3>1. \A m \in Notes : Waits(at[m]) => Waits(at'[m])
      BY <1>1, <2>2 DEF Waits
    <3> QED BY <1>1, <1>3, <2>1, <3>1, AskedOne
  <2>7. ChatDoomed'
    <3>1. \A m : ToDelete(m) => ToDelete(m)'
      BY <1>3, <2>1, AskedDeletes
    <3>2. \A m \in Notes : Doomed(m)' => Doomed(m)
      BY <1>1, <2>2 DEF Doomed
    <3> QED BY <1>1, <3>1, <3>2, DoomedStays
  <2> QED BY <2>4, <2>5, <2>6, <2>7
<1> QED BY <1>6, <1>7

\* The message joins a tree, or an error is answered.
LEMMA AdmittedKeeps ==
    ASSUME ChatInv, NEW n \in Notes, Admitted(n)
    PROVE  ChatInv'
<1> USE DEF ChatInv
<1>1. /\ at[n] = "intake" /\ at' = [at EXCEPT ![n] = "done"] /\ temp' = temp \ {n}
      /\ pending' = Restricted(pending, {Voice(n), Status(n)})
      /\ UNCHANGED <<calls, posted, kept, command>>
  BY DEF Admitted, Go, Complete
<1>2. PICK a \in answers : a.who = n /\ answers' = answers \ {a}
  BY DEF Admitted, Take
<1>3. \/ /\ turns' = turns \cup {n} /\ ran' = ran \cup {n}
         /\ outcome' = [outcome EXCEPT ![n] = "turn"] /\ logged' = logged \cup {Status(n)}
      \/ /\ UNCHANGED <<turns, ran, logged>>
         /\ outcome' = [outcome EXCEPT ![n] = "misreported"]
  BY DEF Admitted, Told
<1>4. at \in [Notes -> Places] /\ outcome \in [Notes -> Outcomes]
  BY DEF ChatTypes
<1>5. /\ \A m \in Notes : m # n => at'[m] = at[m] /\ outcome'[m] = outcome[m]
      /\ at'[n] = "done" /\ outcome'[n] \in {"turn", "misreported"}
  BY <1>1, <1>3, <1>4
<1>6. ChatTypes'
  <2>1. Status(n) \in Names
    BY NamesType
  <2>2. at' \in [Notes -> Places] /\ outcome' \in [Notes -> Outcomes]
    BY <1>1, <1>3, <1>4 DEF Places, Outcomes
  <2> QED BY <1>1, <1>2, <1>3, <2>1, <2>2 DEF ChatTypes
<1>7. ChatNotes'
  <2>1. ChatOutcome(n)
    BY DEF ChatNotes
  <2>2. n \notin ran /\ n \notin temp'
    BY <1>1, <2>1 DEF ChatOutcome
  <2>3. DOMAIN pending' = DOMAIN pending \ {Voice(n), Status(n)}
    BY <1>1 DEF Restricted
  <2>4. Others(n)
    <3>1. \A m \in Notes : m # n =>
              /\ Voice(m) \in DOMAIN pending' <=> Voice(m) \in DOMAIN pending
              /\ Status(m) \in DOMAIN pending' <=> Status(m) \in DOMAIN pending
      BY <1>1, OtherEntries
    <3> QED BY <1>1, <1>3, <1>5, <3>1 DEF Others
  <2>5. outcome'[n] = "turn" => n \in turns'
    BY <1>3, <1>4
  <2>6. n \in ran' => outcome'[n] = "turn"
    BY <1>3, <1>4, <2>2
  <2>7. ChatOutcome(n)' /\ ChatPending(n)'
    BY <1>5, <2>2, <2>3, <2>5, <2>6 DEF ChatOutcome, ChatPending, Voice, Status
  <2> QED BY <2>4, <2>7, OthersStay
<1>8. ChatCalls'
  <2>1. \A m \in Notes : Waits(at[m]) => Waits(at'[m]) \/ m = a.who
    BY <1>2, <1>5
  <2> QED BY <1>1, <1>2, <2>1, TakenOne
<1>9. ChatDoomed'
  <2>1. ASSUME NEW m \in Notes, Doomed(m)' PROVE Doomed(m)
    <3>1. CASE m # n
      BY <1>1, <1>5, <2>1, <3>1 DEF Doomed
    <3>2. CASE m = n
      BY <1>1, <1>5, <2>1, <3>2 DEF Doomed
    <3> QED BY <3>1, <3>2
  <2> QED BY <1>1, <2>1, SameDeletes, DoomedStays
<1> QED BY <1>6, <1>7, <1>8, <1>9

\* A /clear that was issued: what it removes or cancels is to be deleted.
LEMMA IssuedKeeps ==
    ASSUME ChatInv, NEW c \in Commands, NEW all \in BOOLEAN, NEW removes \in SUBSET turns,
           Issued(c, all, removes),
           NEW op \in {"send", "delete"}, NEW ids \in SUBSET Names, Ask(op, ids, c),
           op = "send" => \A n \in Notes : Status(n) \notin ids,
           \A n \in removes : op = "delete" /\ Status(n) \in ids,
           \/ UNCHANGED <<pending, outcome>>
           \/ \E n \in Notes :
                 /\ DOMAIN pending \cap {Voice(n), Status(n)} # {}
                 /\ Cancel(n) /\ Told(n, "cancelled")
                 /\ op = "delete" /\ Status(n) \in ids
    PROVE  ChatInv'
<1> USE DEF ChatInv
<1> DEFINE r == [at |-> "waiting", all |-> all, removes |-> removes]
<1>1. /\ command[c].at = "new" /\ command' = [command EXCEPT ![c] = r]
      /\ posted' = posted \cup {Command(c)} /\ logged' = logged \cup {Command(c)}
      /\ UNCHANGED <<answers, kept, at, temp, turns, ran>>
  BY DEF Issued
<1>2. /\ outcome \in [Notes -> Outcomes] /\ turns \subseteq ran /\ ran \subseteq Notes
      /\ command \in [Commands -> [at : {"new", "waiting", "done"}, all : BOOLEAN,
                                   removes : SUBSET Notes]]
  BY DEF ChatTypes
<1>3. Command(c) \in Names /\ c \in Users /\ c \notin Notes
  BY NamesType
<1>4. r \in [at : {"new", "waiting", "done"}, all : BOOLEAN, removes : SUBSET Notes]
  BY <1>2
<1>5. r.removes = removes /\ r.at = "waiting"
  OBVIOUS
<1> HIDE DEF r
<1>6. command'[c] = r /\ \A d \in Commands : d # c => command'[d] = command[d]
  BY <1>1, <1>2
<1>7. \E who \in Notes \cup {""} :
         /\ outcome' = IF who \in Notes THEN [outcome EXCEPT ![who] = "cancelled"] ELSE outcome
         /\ who \in Notes => /\ DOMAIN pending \cap {Voice(who), Status(who)} # {}
                             /\ pending' = Restricted(pending, {Voice(who), Status(who)})
                             /\ op = "delete" /\ Status(who) \in ids
         /\ who \notin Notes => pending' = pending
  <2>1. CASE UNCHANGED <<pending, outcome>>
    BY <2>1, NamesType
  <2>2. CASE \E n \in Notes :
                 /\ DOMAIN pending \cap {Voice(n), Status(n)} # {}
                 /\ Cancel(n) /\ Told(n, "cancelled")
                 /\ op = "delete" /\ Status(n) \in ids
    BY <2>2 DEF Cancel, Told
  <2> QED BY <2>1, <2>2
<1>8. PICK who \in Notes \cup {""} :
         /\ outcome' = IF who \in Notes THEN [outcome EXCEPT ![who] = "cancelled"] ELSE outcome
         /\ who \in Notes => /\ DOMAIN pending \cap {Voice(who), Status(who)} # {}
                             /\ pending' = Restricted(pending, {Voice(who), Status(who)})
                             /\ op = "delete" /\ Status(who) \in ids
         /\ who \notin Notes => pending' = pending
  BY <1>7
<1>9. \A n \in Notes : outcome'[n] = IF n = who THEN "cancelled" ELSE outcome[n]
  BY <1>2, <1>8
<1>10. \A n \in Notes : n # who =>
          /\ Voice(n) \in DOMAIN pending' <=> Voice(n) \in DOMAIN pending
          /\ Status(n) \in DOMAIN pending' <=> Status(n) \in DOMAIN pending
  BY <1>8, OtherEntries
<1>11. ChatTypes'
  <2>1. calls' \in Seq(Calls)
    BY <1>3, AskedCalls
  <2>2. command' \in [Commands -> [at : {"new", "waiting", "done"}, all : BOOLEAN,
                                   removes : SUBSET Notes]]
    BY <1>1, <1>2, <1>4
  <2>3. outcome' \in [Notes -> Outcomes]
    BY <1>2, <1>8 DEF Outcomes
  <2> QED BY <1>1, <1>3, <2>1, <2>2, <2>3 DEF ChatTypes
<1>12. ChatNotes'
  <2>0. \A n \in Notes : ChatOutcome(n) /\ ChatPending(n)
    BY DEF ChatNotes
  <2>1. \A d \in Commands : /\ command'[d].removes \subseteq ran'
                            /\ command'[d].at = "new" => command'[d].removes = {}
    BY <1>1, <1>2, <1>5, <1>6 DEF ChatNotes
  <2>2. \A d \in Commands : command[d].removes \subseteq command'[d].removes
    BY <1>1, <1>6 DEF ChatNotes
  <2>3. ASSUME NEW n \in Notes PROVE ChatOutcome(n)' /\ ChatPending(n)'
    <3>1. CASE n # who
      <4>1. outcome'[n] = outcome[n]
        BY <1>9, <3>1
      <4>2. outcome[n] = "cleared" => \E d \in Commands : n \in command'[d].removes
        BY <2>0, <2>2 DEF ChatOutcome
      <4>3. ChatOutcome(n)'
        BY <1>1, <2>0, <4>1, <4>2 DEF ChatOutcome
      <4>4. ChatPending(n)'
        BY <1>1, <1>10, <2>0, <3>1, <4>1 DEF ChatPending, Voice, Status
      <4> QED BY <4>3, <4>4
    <3>2. CASE n = who
      <4>1. outcome'[n] = "cancelled"
        BY <1>9, <3>2
      <4>2. (at[n] = "fetching" /\ outcome[n] = "none") \/ outcome[n] = "nofile"
        BY <1>8, <2>0, <3>2 DEF ChatPending
      <4>3. at[n] \in {"fetching", "done"} /\ n \notin ran
        BY <2>0, <4>2, <1>11 DEF ChatOutcome, ChatTypes, Places
      <4>4. DOMAIN pending' = DOMAIN pending \ {Voice(n), Status(n)}
        BY <1>8, <3>2 DEF Restricted
      <4>5. ChatOutcome(n)'
        BY <1>1, <2>0, <4>1, <4>3 DEF ChatOutcome
      <4>6. ChatPending(n)'
        BY <1>1, <4>1, <4>4 DEF ChatPending, Voice, Status
      <4> QED BY <4>5, <4>6
    <3> QED BY <3>1, <3>2
  <2> QED BY <2>1, <2>3 DEF ChatNotes
<1>13. ChatCalls'
  BY <1>1, <1>3, AskedOne
<1>14. ChatDoomed'
  <2>1. /\ \A m : ToDelete(m) => ToDelete(m)'
        /\ op = "delete" => \A m \in ids : ToDelete(m)'
    BY <1>3, AskedDeletes
  <2>2. \A n \in Notes : Status(n) \in posted' => Status(n) \in posted
    BY <1>1, NamesDiffer
  <2>3. ASSUME NEW n \in Notes, Doomed(n)' PROVE Doomed(n) \/ ToDelete(Status(n))'
    <3>1. CASE n = who
      BY <1>8, <2>1, <3>1
    <3>2. CASE n # who
      <4>1. at'[n] = at[n] /\ outcome'[n] = outcome[n]
        BY <1>1, <1>9, <3>2
      <4>2. ASSUME n \in removes PROVE ToDelete(Status(n))'
        BY <2>1, <4>2
      <4>3. (\E d \in Commands : n \in command'[d].removes) =>
               n \in removes \/ \E d \in Commands : n \in command[d].removes
        BY <1>5, <1>6
      <4> QED BY <2>3, <4>1, <4>2, <4>3 DEF Doomed
    <3> QED BY <3>1, <3>2
  <2> QED BY <1>1, <2>1, <2>2, <2>3, DoomedStays
<1> QED BY <1>11, <1>12, <1>13, <1>14

\* A /clear in reply to a turn, to a pending note, or to anything else.
LEMMA ClearReplyKeeps ==
    ASSUME ChatInv, NEW c \in Commands, ClearReply(c)
    PROVE  ChatInv'
<1>1. PICK n \in Notes : \E m \in {Voice(n), Status(n)} \cap posted :
        IF n \in turns
        THEN /\ Issued(c, FALSE, {n}) /\ UNCHANGED <<pending, outcome>>
             /\ Ask("delete", {Voice(n), Status(n), Command(c)}, c)
        ELSE /\ Issued(c, FALSE, {})
             /\ IF m \in DOMAIN pending
                THEN /\ Cancel(n) /\ Told(n, "cancelled")
                     /\ Ask("delete", {Voice(n), Status(n), Command(c)}, c)
                ELSE /\ UNCHANGED <<pending, outcome>>
                     /\ Ask("send", {<<"nothing", c>>}, c)
  BY DEF ClearReply
<1>2. /\ {Voice(n), Status(n), Command(c)} \in SUBSET Names
      /\ {<<"nothing", c>>} \in SUBSET Names
      /\ \A k \in Notes : Status(k) \notin {<<"nothing", c>>}
  BY NamesType, NamesDiffer
<1> DEFINE all == {Voice(n), Status(n), Command(c)}
           none == {<<"nothing", c>>}
           one == {n}
           removed == {}
<1>3. CASE n \in turns
  <2>1. /\ Issued(c, FALSE, one) /\ UNCHANGED <<pending, outcome>>
        /\ Ask("delete", all, c)
    BY <1>1, <1>3
  <2>2. all \in SUBSET Names /\ one \in SUBSET turns /\ \A k \in one : Status(k) \in all
    BY <1>2, <1>3
  <2> HIDE DEF all, one
  <2> QED BY <2>1, <2>2, IssuedKeeps
<1>4. CASE /\ Ask("send", {<<"nothing", c>>}, c) /\ UNCHANGED <<pending, outcome>>
           /\ Issued(c, FALSE, {})
  <2>1. /\ Issued(c, FALSE, removed) /\ UNCHANGED <<pending, outcome>>
        /\ Ask("send", none, c)
    BY <1>4
  <2>2. /\ none \in SUBSET Names /\ removed \in SUBSET turns
        /\ \A k \in Notes : Status(k) \notin none
        /\ \A k \in removed : FALSE
    BY <1>2
  <2> HIDE DEF none, removed
  <2> QED BY <2>1, <2>2, IssuedKeeps
<1>5. CASE /\ DOMAIN pending \cap {Voice(n), Status(n)} # {}
           /\ Issued(c, FALSE, {}) /\ Cancel(n) /\ Told(n, "cancelled")
           /\ Ask("delete", {Voice(n), Status(n), Command(c)}, c)
  <2>1. /\ Issued(c, FALSE, removed) /\ Ask("delete", all, c)
        /\ DOMAIN pending \cap {Voice(n), Status(n)} # {}
        /\ Cancel(n) /\ Told(n, "cancelled")
    BY <1>5
  <2>2. /\ all \in SUBSET Names /\ removed \in SUBSET turns /\ Status(n) \in all
        /\ \A k \in removed : FALSE
    BY <1>2
  <2> HIDE DEF all, removed
  <2> QED BY <2>1, <2>2, IssuedKeeps
<1> QED BY <1>1, <1>3, <1>4, <1>5

\* A /clear without a reply.
LEMMA ClearEverythingKeeps ==
    ASSUME ChatInv, NEW c \in Commands, ClearEverything(c)
    PROVE  ChatInv'
<1> DEFINE ids == logged \cup {Command(c)} \cup UNION {{Voice(n), Status(n)} : n \in turns}
<1>1. Issued(c, TRUE, turns) /\ UNCHANGED <<pending, outcome>> /\ Ask("delete", ids, c)
  BY DEF ClearEverything
<1>2. logged \subseteq Names /\ turns \subseteq Notes
  BY DEF ChatInv, ChatTypes
<1> DEFINE A == {{Voice(n), Status(n)} : n \in turns}
<1>3. \A n \in turns : {Voice(n), Status(n)} \in A /\ Status(n) \in Names /\ Voice(n) \in Names
  BY <1>2, NamesType
<1>4. \A n \in turns : Status(n) \in ids
  BY <1>3
<1>5. \A S \in A : S \subseteq Names
  BY <1>3
<1>6. ids = logged \cup {Command(c)} \cup UNION A
  OBVIOUS
<1>7. Command(c) \in Names
  BY NamesType
<1> HIDE DEF ids, A
<1>8. ids \in SUBSET Names
  BY <1>2, <1>5, <1>6, <1>7
<1> QED BY <1>1, <1>4, <1>8, IssuedKeeps

\* The deletions are done: the turns go.
LEMMA ClearEndsKeeps ==
    ASSUME ChatInv, NEW c \in Commands, ClearEnds(c)
    PROVE  ChatInv'
<1> USE DEF ChatInv
<1> DEFINE gone == IF command[c].all THEN turns ELSE turns \cap command[c].removes
<1>1. /\ command' = [command EXCEPT ![c].at = "done"] /\ turns' = turns \ gone
      /\ logged' = (IF command[c].all THEN {} ELSE logged)
      /\ UNCHANGED <<calls, posted, kept, at, pending, temp, ran>>
  BY DEF ClearEnds
<1>2. PICK a \in answers : a.who = c /\ answers' = answers \ {a}
  BY DEF ClearEnds, Take
<1>3. outcome' = [n \in Notes |->
                    CASE n \in gone \cap command[c].removes -> "cleared"
                      [] n \in gone \ command[c].removes -> "swept"
                      [] OTHER -> outcome[n]]
  BY DEF ClearEnds
<1>4. gone \subseteq turns
  OBVIOUS
<1> HIDE DEF gone
<1>5. /\ turns \subseteq ran /\ ran \subseteq Notes /\ outcome \in [Notes -> Outcomes]
      /\ command \in [Commands -> [at : {"new", "waiting", "done"}, all : BOOLEAN,
                                   removes : SUBSET Notes]]
  BY DEF ChatTypes
<1>6. /\ \A n \in gone : outcome'[n] = IF n \in command[c].removes THEN "cleared" ELSE "swept"
      /\ \A n \in Notes : n \notin gone => outcome'[n] = outcome[n]
  BY <1>3, <1>4, <1>5
<1>7. /\ \A d \in Commands : command'[d].removes = command[d].removes
      /\ \A d \in Commands : command'[d].at = "new" => command[d].at = "new"
      /\ command' \in [Commands -> [at : {"new", "waiting", "done"}, all : BOOLEAN,
                                    removes : SUBSET Notes]]
  BY <1>1, <1>5
<1>8. ChatTypes'
  <2>1. outcome' \in [Notes -> Outcomes]
    <3>1. \A n \in Notes : outcome'[n] \in Outcomes
      BY <1>4, <1>5, <1>6 DEF Outcomes
    <3> QED BY <1>3, <3>1
  <2> QED BY <1>1, <1>2, <1>5, <1>7, <2>1 DEF ChatTypes
<1>9. ChatNotes'
  <2>0. \A n \in Notes : ChatOutcome(n) /\ ChatPending(n)
    BY DEF ChatNotes
  <2>1. ASSUME NEW n \in Notes PROVE ChatOutcome(n)' /\ ChatPending(n)'
    <3>1. CASE n \notin gone
      <4>1. outcome'[n] = outcome[n] /\ (n \in turns => n \in turns')
        BY <1>1, <1>6, <3>1
      <4>2. ChatOutcome(n)'
        BY <1>1, <1>7, <2>0, <4>1 DEF ChatOutcome
      <4>3. ChatPending(n)'
        BY <1>1, <2>0, <4>1 DEF ChatPending, Voice, Status
      <4> QED BY <4>2, <4>3
    <3>2. CASE n \in gone
      <4>1. at[n] = "done" /\ outcome[n] \in {"turn", "cleared", "swept"} /\ n \notin temp
        BY <1>4, <1>5, <2>0, <3>2 DEF ChatOutcome
      <4>2. outcome'[n] \in {"cleared", "swept"}
            /\ (outcome'[n] = "cleared" => n \in command'[c].removes)
        BY <1>6, <1>7, <3>2
      <4>3. ChatOutcome(n)'
        BY <1>1, <4>1, <4>2 DEF ChatOutcome
      <4>4. Voice(n) \notin DOMAIN pending /\ Status(n) \notin DOMAIN pending
        BY <2>0, <4>1 DEF ChatPending
      <4>5. ChatPending(n)'
        BY <1>1, <4>1, <4>4 DEF ChatPending, Voice, Status
      <4> QED BY <4>3, <4>5
    <3> QED BY <3>1, <3>2
  <2>2. \A d \in Commands : /\ command'[d].removes \subseteq ran'
                            /\ command'[d].at = "new" => command'[d].removes = {}
    BY <1>1, <1>7 DEF ChatNotes
  <2> QED BY <2>1, <2>2 DEF ChatNotes
<1>10. ChatCalls'
  <2>1. \A m \in Notes : Waits(at[m]) => Waits(at'[m]) \/ m = a.who
    BY <1>1
  <2> QED BY <1>1, <1>2, <2>1, TakenOne
<1>11. ChatDoomed'
  <2>1. ASSUME NEW n \in Notes, Doomed(n)' PROVE Doomed(n)
    <3>1. outcome'[n] \in {"refused", "disabled", "failed", "cancelled"} => outcome'[n] = outcome[n]
      BY <1>6
    <3> QED BY <1>1, <1>7, <2>1, <3>1 DEF Doomed
  <2> QED BY <1>1, <2>1, SameDeletes, DoomedStays
<1> QED BY <1>8, <1>9, <1>10, <1>11

-----------------------------------------------------------------------------
\* The invariant of the chat holds always: every handler, command and answer of
\* the platform keeps it, for any messages and commands.
THEOREM ChatInvariant == WindowSpec => []ChatInv
<1>1. WindowInit => ChatInv
  <2> SUFFICES ASSUME WindowInit PROVE ChatInv
    OBVIOUS
  <2>1. /\ calls = <<>> /\ answers = {} /\ posted = {} /\ kept = {}
        /\ at = [n \in Notes |-> "new"] /\ pending = [m \in {} |-> ""]
        /\ temp = {} /\ turns = {} /\ ran = {} /\ logged = {}
        /\ outcome = [n \in Notes |-> "none"]
        /\ command = [c \in Commands |-> [at |-> "new", all |-> FALSE, removes |-> {}]]
    BY DEF WindowInit, VoiceInit, PlatformInit, NoPending
  <2>2. calls \in Seq(Calls) /\ Len(calls) = 0
    BY <2>1, EmptySeq
  <2>3. ChatTypes
    BY <2>1, <2>2 DEF ChatTypes, Places, Outcomes
  <2>4. ChatNotes
    BY <2>1 DEF ChatNotes, ChatOutcome, ChatPending
  <2>5. ChatCalls
    BY <2>1, <2>2 DEF ChatCalls
  <2>6. ChatDoomed
    BY <2>1 DEF ChatDoomed
  <2> QED BY <2>3, <2>4, <2>5, <2>6 DEF ChatInv
<1>2. ChatInv /\ [WindowNext]_<<noteVars, turnVars, scene>> => ChatInv'
  <2> SUFFICES ASSUME ChatInv, [WindowNext]_<<noteVars, turnVars, scene>>
               PROVE  ChatInv'
    OBVIOUS
  <2>1. CASE PlatformNext /\ UNCHANGED voiceVars
    BY <2>1, PlatformKeeps
  <2>2. ASSUME NEW n \in Notes, \/ Refused(n) \/ TextArrives(n) \/ VoiceArrives(n)
                                \/ Announced(n) \/ Failed(n) \/ HandOff(n) \/ Admitted(n)
        PROVE  ChatInv'
    BY <2>2, RefusedKeeps, ArrivesKeeps, AnnouncedKeeps, FailedKeeps, HandOffKeeps, AdmittedKeeps
  <2>3. ASSUME NEW c \in Commands, ClearReply(c) \/ ClearEverything(c) \/ ClearEnds(c)
        PROVE  ChatInv'
    BY <2>3, ClearReplyKeeps, ClearEverythingKeeps, ClearEndsKeeps
  <2>4. CASE UNCHANGED noteVars
    <3>1. UNCHANGED <<calls, answers, posted, kept, at, pending, temp, turns, ran, outcome,
                      logged, command>>
      BY <2>4 DEF noteVars, platformVars, voiceVars
    <3>2. ChatTypes' /\ ChatNotes' /\ ChatCalls'
      BY <3>1 DEF ChatInv, ChatTypes, ChatNotes, ChatOutcome, ChatPending, ChatCalls,
         Voice, Status
    <3>3. ChatDoomed'
      BY <3>1 DEF ChatInv, ChatDoomed, Doomed, ToDelete, Status
    <3> QED BY <3>2, <3>3 DEF ChatInv
  <2> QED BY <2>1, <2>2, <2>3, <2>4 DEF WindowNext, VoiceNext
<1> QED BY <1>1, <1>2, PTL DEF WindowSpec

\* A voice note whose cancellation was confirmed starts no turn: a cancelled
\* note is not pending, so its hand-off ends it, and it never waits for a call.
THEOREM CancelledNeverRunsHolds == WindowSpec => CancelledNeverRuns
<1>1. ChatInv /\ [WindowNext]_<<noteVars, turnVars, scene>> =>
         [\A n \in Notes : outcome[n] = "cancelled" => n \notin ran']_noteVars
  <2> SUFFICES ASSUME ChatInv, WindowNext, UNCHANGED noteVars => FALSE,
                      NEW n \in Notes, outcome[n] = "cancelled"
               PROVE  n \notin ran'
    BY DEF noteVars
  <2>1. ChatOutcome(n) /\ n \notin ran
    BY DEF ChatInv, ChatNotes, ChatOutcome
  <2>2. at[n] # "intake"
    BY <2>1 DEF ChatOutcome
  <2>3. CASE ran' = ran
    BY <2>1, <2>3
  <2>4. ASSUME NEW k \in Notes, Admitted(k) PROVE n \notin ran'
    BY <2>1, <2>2, <2>4 DEF Admitted
  <2>5. ran' = ran \/ \E k \in Notes : Admitted(k)
    <3>1. VoiceNext
      BY DEF WindowNext
    <3>2. CASE UNCHANGED voiceVars
      BY <3>2 DEF voiceVars
    <3>3. ASSUME NEW k \in Notes, \/ Refused(k) \/ TextArrives(k) \/ VoiceArrives(k)
                                  \/ Announced(k) \/ Failed(k) \/ HandOff(k)
          PROVE  ran' = ran
      BY <3>3 DEF Refused, TextArrives, VoiceArrives, Arrives, Announced, Failed, HandOff
    <3>4. ASSUME NEW c \in Commands, ClearReply(c) \/ ClearEverything(c) \/ ClearEnds(c)
          PROVE  ran' = ran
      BY <3>4 DEF ClearReply, ClearEverything, ClearEnds, Issued
    <3> QED BY <3>1, <3>2, <3>3, <3>4 DEF VoiceNext
  <2> QED BY <2>3, <2>4, <2>5
<1> QED BY <1>1, ChatInvariant, PTL DEF WindowSpec, CancelledNeverRuns

\* When nothing is under way, a message that is dealt with leaves no audio file,
\* no pending entry and no status message, but for the named exceptions.
THEOREM NothingLeftBehindHolds == WindowSpec => []NothingLeftBehind
<1>1. ChatInv => NothingLeftBehind
  <2> SUFFICES ASSUME ChatInv, NEW n \in Notes, Settled(n)
               PROVE  /\ n \notin temp
                      /\ outcome[n] # "nofile" => DOMAIN pending \cap {Voice(n), Status(n)} = {}
                      /\ Status(n) \in posted /\ n \notin turns =>
                            \/ outcome[n] \in {"dropped", "nofile", "misreported", "swept"}
                            \/ Status(n) \in kept \cup stray
    BY DEF NothingLeftBehind
  <2>1. ChatOutcome(n) /\ ChatPending(n) /\ at[n] = "done" /\ outcome[n] \in Outcomes
    BY DEF ChatInv, ChatNotes, ChatTypes, Settled
  <2>2. n \notin temp
    BY <2>1 DEF ChatOutcome
  <2>3. outcome[n] # "nofile" => Voice(n) \notin DOMAIN pending /\ Status(n) \notin DOMAIN pending
    BY <2>1 DEF ChatPending
  <2>4. ASSUME Status(n) \in posted, n \notin turns,
               outcome[n] \notin {"dropped", "nofile", "misreported", "swept"}
        PROVE  Status(n) \in kept
    <3>1. Doomed(n)
      BY <2>1, <2>4 DEF ChatOutcome, Outcomes, Doomed
    <3>2. Status(n) \in kept \/ ToDelete(Status(n))
      BY <2>4, <3>1 DEF ChatInv, ChatDoomed
    <3>3. Len(calls) = 0
      BY EmptySeq DEF Settled
    <3> QED BY <3>2, <3>3 DEF ToDelete
  <2> QED BY <2>2, <2>3, <2>4
<1> QED BY <1>1, ChatInvariant, PTL

-----------------------------------------------------------------------------
(***************************************************************************)
(* The transcript of a turn.  Its invariant says which segment an open     *)
(* block writes into, that no segment of text comes behind the one of the  *)
(* block that runs, and how the stack of the subagents stands to the       *)
(* subagents that run.                                                     *)
(***************************************************************************)

\* What By and Pieces make of an element, as functions.
PieceSet == {"main", "sub", "done"} \X Nat
SegmentKinds == {"text", "thinking", "tool", "subagent", "error"}
Segments == [kind : SegmentKinds, parts : Seq(PieceSet)]
OfAgent(agent) == [p \in PieceSet |-> IF p[1] = agent THEN <<p>> ELSE <<>>]
OfKind(kind, agent) ==
    [seg \in Segments |-> IF seg.kind = kind THEN By(seg.parts, agent) ELSE <<>>]

\* By, when one more piece is said.
LEMMA ByAppends ==
    ASSUME NEW parts \in Seq(PieceSet), NEW p \in PieceSet, NEW agent
    PROVE  /\ By(<<>>, agent) = <<>> /\ By(parts, agent) \in Seq(PieceSet)
           /\ p[1] = agent => By(Append(parts, p), agent) = Append(By(parts, agent), p)
           /\ p[1] # agent => By(Append(parts, p), agent) = By(parts, agent)
<1> DEFINE F == OfAgent(agent)
           G(s) == FlattenSeq(Each(s, F))
<1>1. F \in [PieceSet -> Seq(PieceSet)]
  <2>1. \A q \in PieceSet : <<q>> \in Seq(PieceSet)
    OBVIOUS
  <2>2. <<>> \in Seq(PieceSet)
    BY EmptySeq
  <2> HIDE DEF F
  <2> QED BY <2>1, <2>2 DEF F, OfAgent
<1>2. \A s \in Seq(PieceSet) : By(s, agent) = G(s)
  <2> SUFFICES ASSUME NEW s \in Seq(PieceSet) PROVE By(s, agent) = G(s)
    OBVIOUS
  <2>1. \A k \in DOMAIN s : s[k] \in PieceSet
    OBVIOUS
  <2>2. \A k \in DOMAIN s : F[s[k]] = IF s[k][1] = agent THEN <<s[k]>> ELSE <<>>
    BY <2>1 DEF OfAgent
  <2> HIDE DEF F
  <2>3. [k \in DOMAIN s |-> IF s[k][1] = agent THEN <<s[k]>> ELSE <<>>] = Each(s, F)
    BY <2>2 DEF Each
  <2> QED BY <2>3 DEF By
<1>3. F[p] = IF p[1] = agent THEN <<p>> ELSE <<>>
  BY DEF OfAgent
<1>4. By(<<>>, agent) = <<>>
  <2>1. DOMAIN <<>> = {}
    BY EmptyDomain
  <2>2. [k \in DOMAIN <<>> |-> IF (<<>>)[k][1] = agent THEN <<(<<>>)[k]>> ELSE <<>>] = <<>>
    BY <2>1, EmptySeq
  <2>3. FlattenSeq(<<>>) = <<>>
    BY FlattenUnfolds, EmptySeq
  <2> QED BY <2>2, <2>3 DEF By
<1> HIDE DEF F
<1>5. /\ FlattenSeq(Each(parts, F)) \in Seq(PieceSet)
      /\ FlattenSeq(Each(Append(parts, p), F)) = FlattenSeq(Each(parts, F)) \o F[p]
  <2>1. Maps(F, PieceSet, PieceSet)
    BY <1>1 DEF Maps
  <2> QED BY <2>1, EachFacts
<1>6. Append(parts, p) \in Seq(PieceSet)
  BY AppendProperties
<1>7. By(parts, agent) \in Seq(PieceSet) /\ By(Append(parts, p), agent) = By(parts, agent) \o F[p]
  BY <1>2, <1>5, <1>6
<1>8. CASE p[1] = agent
  <2>1. By(parts, agent) \o <<p>> = Append(By(parts, agent), p)
    BY <1>7, AppendIsConcat
  <2> QED BY <1>3, <1>4, <1>7, <1>8, <2>1
<1>9. CASE p[1] # agent
  <2>1. By(parts, agent) \o <<>> = By(parts, agent)
    BY <1>7, ConcatEmptySeq
  <2> QED BY <1>3, <1>4, <1>7, <1>9, <2>1
<1> QED BY <1>8, <1>9

\* What a segment has of a kind and an agent.
Of(seg, kind, agent) == IF seg.kind = kind THEN By(seg.parts, agent) ELSE <<>>

\* Pieces is FlattenSeq of what the segments have.
LEMMA PiecesAreEach ==
    ASSUME NEW segs, segs \in Seq(Segments), NEW kind, NEW agent
    PROVE  /\ Maps(OfKind(kind, agent), Segments, PieceSet)
           /\ Pieces(segs, kind, agent) = FlattenSeq(Each(segs, OfKind(kind, agent)))
           /\ \A seg \in Segments : OfKind(kind, agent)[seg] = Of(seg, kind, agent)
<1> DEFINE F == OfKind(kind, agent)
<1>1. \A seg \in Segments : F[seg] = Of(seg, kind, agent)
  BY DEF OfKind, Of
<1>2. \A seg \in Segments : seg.parts \in Seq(PieceSet)
  BY DEF Segments
<1>3. \A parts \in Seq(PieceSet) : By(parts, agent) \in Seq(PieceSet)
  <2>1. <<"main", 0>> \in PieceSet
    BY DEF PieceSet
  <2> QED BY <2>1, ByAppends
<1>4. \A seg \in Segments : F[seg] \in Seq(PieceSet)
  <2>1. <<>> \in Seq(PieceSet)
    BY EmptySeq
  <2> QED BY <1>1, <1>2, <1>3, <2>1 DEF Of
<1>5. F \in [Segments -> Seq(PieceSet)]
  <2>1. F = [seg \in Segments |-> F[seg]]
    BY DEF OfKind
  <2> HIDE DEF F
  <2> QED BY <1>4, <2>1
<1>6. Pieces(segs, kind, agent) = FlattenSeq(Each(segs, F))
  <2>1. \A k \in DOMAIN segs : segs[k] \in Segments
    OBVIOUS
  <2>2. \A k \in DOMAIN segs : F[segs[k]] = IF segs[k].kind = kind
                                           THEN By(segs[k].parts, agent) ELSE <<>>
    BY <1>1, <2>1 DEF Of
  <2> HIDE DEF F
  <2>3. [k \in DOMAIN segs |-> IF segs[k].kind = kind THEN By(segs[k].parts, agent) ELSE <<>>]
          = Each(segs, F)
    BY <2>2 DEF Each
  <2> QED BY <2>3 DEF Pieces
<1> QED BY <1>1, <1>5, <1>6 DEF Maps

\* Pieces, when a segment is appended.
LEMMA PiecesAppend ==
    ASSUME NEW segs \in Seq(Segments), NEW seg \in Segments, NEW kind, NEW agent
    PROVE  /\ Pieces(<<>>, kind, agent) = <<>> /\ Pieces(segs, kind, agent) \in Seq(PieceSet)
           /\ Pieces(Append(segs, seg), kind, agent)
                = Pieces(segs, kind, agent) \o Of(seg, kind, agent)
<1> DEFINE F == OfKind(kind, agent)
<1>1. Append(segs, seg) \in Seq(Segments)
  BY AppendProperties
<1>2. /\ Maps(F, Segments, PieceSet) /\ Pieces(segs, kind, agent) = FlattenSeq(Each(segs, F))
      /\ F[seg] = Of(seg, kind, agent)
  BY PiecesAreEach
<1>3. Pieces(Append(segs, seg), kind, agent) = FlattenSeq(Each(Append(segs, seg), F))
  BY <1>1, PiecesAreEach
<1> HIDE DEF F
<1>4. /\ FlattenSeq(Each(segs, F)) \in Seq(PieceSet)
      /\ FlattenSeq(Each(Append(segs, seg), F)) = FlattenSeq(Each(segs, F)) \o F[seg]
  <2>1. Maps(F, Segments, PieceSet)
    BY <1>2
  <2> QED BY <2>1, EachFacts
<1>5. Pieces(<<>>, kind, agent) = <<>>
  <2>1. DOMAIN <<>> = {}
    BY EmptyDomain
  <2>2. [k \in DOMAIN <<>> |-> IF (<<>>)[k].kind = kind THEN By((<<>>)[k].parts, agent) ELSE <<>>]
          = <<>>
    BY <2>1, EmptySeq
  <2>3. FlattenSeq(<<>>) = <<>>
    BY FlattenUnfolds, EmptySeq
  <2> QED BY <2>2, <2>3 DEF Pieces
<1> QED BY <1>2, <1>3, <1>4, <1>5

\* The segment at spot grows by p.
Grown(segs, new, spot, p) ==
    /\ spot \in DOMAIN segs
    /\ new = [segs EXCEPT ![spot].parts = Append(@, p)]

\* Its facts.
LEMMA GrownFacts ==
    ASSUME NEW segs, segs \in Seq(Segments), NEW new, NEW spot, NEW p, p \in PieceSet,
           Grown(segs, new, spot, p)
    PROVE  /\ new \in Seq(Segments) /\ Len(new) = Len(segs) /\ DOMAIN new = DOMAIN segs
           /\ \A k \in DOMAIN segs : k # spot => new[k] = segs[k]
           /\ new[spot].kind = segs[spot].kind
           /\ new[spot].parts = Append(segs[spot].parts, p) /\ segs[spot].parts \in Seq(PieceSet)
<1> DEFINE L == Len(segs)
           old == segs[spot]
           seg == [old EXCEPT !.parts = Append(@, p)]
<1>1. L \in Nat /\ DOMAIN segs = 1 .. L /\ spot \in 1 .. L /\ new = [segs EXCEPT ![spot] = seg]
  BY DEF Grown
<1>2. old \in Segments
  BY <1>1
<1>3. old.parts \in Seq(PieceSet) /\ old.kind \in SegmentKinds
  BY <1>2 DEF Segments
<1>4. Append(old.parts, p) \in Seq(PieceSet)
  BY <1>3, AppendProperties
<1>5. seg \in Segments /\ seg.kind = old.kind /\ seg.parts = Append(old.parts, p)
  <2> HIDE DEF old
  <2> QED BY <1>2, <1>3, <1>4 DEF Segments
<1> HIDE DEF seg, old, L
<1>6. /\ DOMAIN new = 1 .. L /\ new[spot] = seg /\ \A k \in 1 .. L : k # spot => new[k] = segs[k]
      /\ new = [k \in 1 .. L |-> new[k]]
  BY <1>1
<1>7. \A k \in 1 .. L : segs[k] \in Segments
  BY <1>1
<1>8. \A k \in 1 .. L : new[k] \in Segments
  BY <1>5, <1>6, <1>7
<1>9. new \in Seq(Segments) /\ Len(new) = L
  BY <1>1, <1>6, <1>8
<1> QED BY <1>1, <1>3, <1>5, <1>6, <1>9 DEF L, old

\* Pieces, when a segment grows by a piece: what is of another kind or agent stays.
LEMMA PiecesStay ==
    ASSUME NEW segs, segs \in Seq(Segments), NEW new, NEW spot, NEW p, p \in PieceSet,
           Grown(segs, new, spot, p), NEW kind, NEW agent,
           segs[spot].kind # kind \/ p[1] # agent
    PROVE  Pieces(new, kind, agent) = Pieces(segs, kind, agent)
<1>1. /\ new \in Seq(Segments) /\ DOMAIN new = DOMAIN segs
      /\ \A k \in DOMAIN segs : k # spot => new[k] = segs[k]
      /\ new[spot].kind = segs[spot].kind
      /\ new[spot].parts = Append(segs[spot].parts, p) /\ segs[spot].parts \in Seq(PieceSet)
  BY GrownFacts
<1>2. Of(new[spot], kind, agent) = Of(segs[spot], kind, agent)
  <2>1. p[1] # agent => By(Append(segs[spot].parts, p), agent) = By(segs[spot].parts, agent)
    BY <1>1, ByAppends
  <2> QED BY <1>1, <2>1 DEF Of
<1>3. \A k \in DOMAIN segs : Of(new[k], kind, agent) = Of(segs[k], kind, agent)
  BY <1>1, <1>2
<1>4. [k \in DOMAIN new |-> IF new[k].kind = kind THEN By(new[k].parts, agent) ELSE <<>>]
       = [k \in DOMAIN segs |-> IF segs[k].kind = kind THEN By(segs[k].parts, agent) ELSE <<>>]
  BY <1>1, <1>3 DEF Of
<1> QED BY <1>4 DEF Pieces

\* And what is of its kind and agent grows, if no segment behind it is of the kind.
LEMMA PiecesGrow ==
    ASSUME NEW segs, segs \in Seq(Segments), NEW new, NEW spot, NEW p, p \in PieceSet,
           Grown(segs, new, spot, p), NEW kind, NEW agent,
           segs[spot].kind = kind, p[1] = agent,
           \A k \in DOMAIN segs : k > spot => segs[k].kind # kind
    PROVE  Pieces(new, kind, agent) = Append(Pieces(segs, kind, agent), p)
<1> DEFINE F == OfKind(kind, agent)
           V == Seq(PieceSet)
           ss == Each(segs, F)
           tt == Each(new, F)
<1>1. /\ new \in Seq(Segments) /\ DOMAIN new = DOMAIN segs /\ Len(new) = Len(segs)
      /\ \A k \in DOMAIN segs : k # spot => new[k] = segs[k]
      /\ new[spot].kind = segs[spot].kind
      /\ new[spot].parts = Append(segs[spot].parts, p) /\ segs[spot].parts \in Seq(PieceSet)
  BY GrownFacts
<1>2. /\ Len(segs) \in Nat /\ DOMAIN segs = 1 .. Len(segs) /\ spot \in 1 .. Len(segs)
      /\ \A k \in 1 .. Len(segs) : segs[k] \in Segments /\ new[k] \in Segments
  BY <1>1 DEF Grown
<1>3. /\ Maps(F, Segments, PieceSet) /\ Pieces(segs, kind, agent) = FlattenSeq(ss)
      /\ \A seg \in Segments : F[seg] = Of(seg, kind, agent)
  BY PiecesAreEach
<1>4. Pieces(new, kind, agent) = FlattenSeq(tt)
  BY <1>1, PiecesAreEach
<1> HIDE DEF F
<1>5. \A seg \in Segments : F[seg] \in V
  <2> HIDE DEF V
  <2> QED BY <1>3 DEF Maps, V
<1>6. ss \in Seq(V) /\ Len(ss) = Len(segs) /\ \A k \in 1 .. Len(segs) : ss[k] = F[segs[k]]
  <2> HIDE DEF V
  <2>1. ss = [k \in 1 .. Len(segs) |-> F[segs[k]]]
    BY <1>2 DEF Each
  <2>2. \A k \in 1 .. Len(segs) : F[segs[k]] \in V
    BY <1>2, <1>5
  <2> HIDE DEF ss
  <2> QED BY <1>2, <2>1, <2>2
<1>7. tt \in Seq(V) /\ Len(tt) = Len(segs) /\ \A k \in 1 .. Len(segs) : tt[k] = F[new[k]]
  <2> HIDE DEF V
  <2>1. tt = [k \in 1 .. Len(segs) |-> F[new[k]]]
    BY <1>1, <1>2 DEF Each
  <2>2. \A k \in 1 .. Len(segs) : F[new[k]] \in V
    BY <1>2, <1>5
  <2> HIDE DEF tt
  <2> QED BY <1>2, <2>1, <2>2
<1> HIDE DEF ss, tt
<1>8. tt[spot] = Append(ss[spot], p)
  <2>1. ss[spot] = By(segs[spot].parts, agent)
    BY <1>2, <1>3, <1>6 DEF Of
  <2>2. tt[spot] = By(new[spot].parts, agent)
    BY <1>1, <1>2, <1>3, <1>7 DEF Of
  <2>3. By(Append(segs[spot].parts, p), agent) = Append(By(segs[spot].parts, agent), p)
    BY <1>1, ByAppends
  <2> QED BY <1>1, <2>1, <2>2, <2>3
<1>9. \A k \in 1 .. Len(segs) : k # spot => tt[k] = ss[k]
  <2>1. \A k \in 1 .. Len(segs) : k # spot => new[k] = segs[k]
    BY <1>1, <1>2
  <2>2. \A k \in 1 .. Len(segs) : tt[k] = F[new[k]] /\ ss[k] = F[segs[k]]
    BY <1>6, <1>7
  <2> QED BY <2>1, <2>2
<1>10. \A k \in 1 .. Len(segs) : k > spot => ss[k] = <<>>
  BY <1>2, <1>3, <1>6 DEF Of
<1>11. GrowsAt(ss, tt, spot, p)
  BY <1>2, <1>6, <1>7, <1>8, <1>9, <1>10 DEF GrowsAt
<1>12. FlattenSeq(tt) = Append(FlattenSeq(ss), p)
  <2>1. ss \in Seq(Seq(PieceSet)) /\ tt \in Seq(Seq(PieceSet))
    BY <1>6, <1>7
  <2> QED BY <1>11, <2>1, FlattenGrows
<1> QED BY <1>3, <1>4, <1>12

\* Ids of calls that have one, and of those that have none.
StackIds == {"task", "__task"} \X Nat

\* When a pair roughly matches a pair, and a triple.
LEMMA MatchPair ==
    ASSUME NEW x, NEW y, NEW u, NEW v
    PROVE  RoughlyMatch(<<x, y>>, <<u, v>>) <=> x = u /\ y = v
<1>1. <<x, y>> # NoId /\ <<u, v>> # NoId
  BY DEF NoId
<1>2. /\ IsPrefix(<<x, y>>, <<u, v>>) <=> x = u /\ y = v
      /\ IsPrefix(<<u, v>>, <<x, y>>) <=> u = x /\ v = y
  BY PairOfPair
<1> QED BY <1>1, <1>2 DEF RoughlyMatch

\* How a pair on the stack compares to an id that is a triple.
LEMMA MatchTriple ==
    ASSUME NEW x, NEW y, NEW u, NEW v, NEW w
    PROVE  RoughlyMatch(<<x, y>>, <<u, v, w>>) <=> x = u /\ y = v
<1>1. <<x, y>> # NoId /\ <<u, v, w>> # NoId
  BY DEF NoId
<1>2. /\ IsPrefix(<<x, y>>, <<u, v, w>>) <=> x = u /\ y = v
      /\ ~IsPrefix(<<u, v, w>>, <<x, y>>)
  BY PairOfTriple, TripleOfPair
<1> QED BY <1>1, <1>2 DEF RoughlyMatch

\* An id is its two parts.
LEMMA StackId ==
    ASSUME NEW a \in StackIds
    PROVE  a = <<a[1], a[2]>> /\ a # NoId /\ a[1] \in {"task", "__task"} /\ a[2] \in Nat
<1>1. PICK x \in {"task", "__task"}, n \in Nat : a = <<x, n>>
  BY DEF StackIds
<1>2. a[1] = x /\ a[2] = n
  BY <1>1
<1>3. <<x, n>> # <<>>
  OBVIOUS
<1> QED BY <1>1, <1>2, <1>3 DEF NoId

\* The entries that match an id are those of its call.
Hits(s, id) == {i \in DOMAIN s : RoughlyMatch(s[i], id)}

\* Pop by the places of the stack that its id roughly matches.
LEMMA PopHits ==
    ASSUME NEW s \in Seq(StackIds), NEW id, id # NoId
    PROVE  Pop(s, id) = IF Hits(s, id) = {} THEN s ELSE SubSeq(s, 1, Max(Hits(s, id)) - 1)
<1>1. s = <<>> => Hits(s, id) = {}
  BY EmptyDomain DEF Hits
<1> QED BY <1>1 DEF Pop, Hits

\* A Task is closed by its id, and by one with a suffix.
TaskIds(t) == {<<"task", t>>, <<"task", t, "x">>}

\* An id of subagent t's task roughly matches that task on the stack, and nothing else.
LEMMA TaskIdFacts ==
    ASSUME NEW t, NEW id \in TaskIds(t), NEW s \in Seq(StackIds)
    PROVE  /\ id # NoId
           /\ \A i \in DOMAIN s : RoughlyMatch(s[i], id) <=> s[i] = <<"task", t>>
<1>1. id # NoId
  <2>1. <<"task", t>> # NoId /\ <<"task", t, "x">> # NoId
    BY DEF NoId
  <2> QED BY <2>1 DEF TaskIds
<1>2. ASSUME NEW i \in DOMAIN s PROVE RoughlyMatch(s[i], id) <=> s[i] = <<"task", t>>
  <2> DEFINE a == s[i]
             x == a[1]
             n == a[2]
  <2>1. a \in StackIds
    OBVIOUS
  <2>2. a = <<x, n>>
    <3> HIDE DEF a
    <3> QED BY <2>1, StackId
  <2> HIDE DEF x, n
  <2>3. RoughlyMatch(<<x, n>>, id) <=> x = "task" /\ n = t
    <3>1. CASE id = <<"task", t>>
      BY <3>1, MatchPair
    <3>2. CASE id = <<"task", t, "x">>
      BY <3>2, MatchTriple
    <3> QED BY <3>1, <3>2 DEF TaskIds
  <2>4. <<x, n>> = <<"task", t>> <=> x = "task" /\ n = t
    OBVIOUS
  <2> QED BY <2>2, <2>3, <2>4
<1> QED BY <1>1, <1>2

\* On a stack without repetitions it takes away its entry and those above.
LEMMA PopTask ==
    ASSUME NEW s \in Seq(StackIds), NEW t, NEW id \in TaskIds(t),
           \A i, j \in DOMAIN s : s[i] = s[j] => i = j
    PROVE  \/ Pop(s, id) = s /\ \A i \in DOMAIN s : s[i] # <<"task", t>>
           \/ \E h \in DOMAIN s : s[h] = <<"task", t>> /\ Pop(s, id) = SubSeq(s, 1, h - 1)
<1> DEFINE H == Hits(s, id)
<1>1. id # NoId /\ \A i \in DOMAIN s : i \in H <=> s[i] = <<"task", t>>
  BY TaskIdFacts DEF Hits
<1>2. Pop(s, id) = IF H = {} THEN s ELSE SubSeq(s, 1, Max(H) - 1)
  BY <1>1, PopHits
<1>3. H \subseteq DOMAIN s /\ DOMAIN s \subseteq Int
  BY DEF Hits
<1> HIDE DEF H
<1>4. CASE H = {}
  BY <1>1, <1>2, <1>4
<1>5. CASE H # {}
  <2>1. PICK h \in H : TRUE
    BY <1>5
  <2>2. h \in DOMAIN s /\ s[h] = <<"task", t>> /\ h \in Int
    BY <1>1, <1>3, <2>1
  <2>3. \A i \in H : i = h
    BY <1>1, <1>3, <2>2
  <2>4. Max(H) = h
    BY <2>1, <2>2, <2>3 DEF Max
  <2> QED BY <1>2, <1>5, <2>2, <2>4
<1> QED BY <1>4, <1>5

\* With its id, the result of a Task whose call had one does nothing else.
LEMMA ResultOfTask ==
    ASSUME NEW s \in Seq(StackIds), NEW t, NEW id \in TaskIds(t),
           \A i, j \in DOMAIN s : s[i] = s[j] => i = j,
           \A i \in DOMAIN s : s[i][1] = "task"
    PROVE  \/ PopResult(s, id) = s /\ \A i \in DOMAIN s : s[i] # <<"task", t>>
           \/ \E h \in DOMAIN s : s[h] = <<"task", t>> /\ PopResult(s, id) = SubSeq(s, 1, h - 1)
<1>1. s # <<>> => ~Synthetic(Last(s))
  <2> SUFFICES ASSUME s # <<>> PROVE ~Synthetic(Last(s))
    OBVIOUS
  <2>1. Len(s) \in DOMAIN s
    BY EmptySeq
  <2>2. Last(s)[1] = "task"
    BY <2>1 DEF Last
  <2> QED BY <2>2 DEF Synthetic
<1>2. PopResult(s, id) = Pop(s, id)
  BY <1>1 DEF PopResult
<1> QED BY <1>2, PopTask

\* The result of a call without an id closes the newest entry, when all are of such calls.
LEMMA ResultWithoutId ==
    ASSUME NEW s \in Seq(StackIds), s # <<>>, NEW t, NEW id \in {NoId, <<"task", t>>}, id \notin names,
           \A i \in DOMAIN s : s[i][1] = "__task"
    PROVE  PopResult(s, id) = Front(s)
<1>1. Synthetic(Last(s))
  <2>1. Len(s) \in DOMAIN s
    BY EmptySeq
  <2>2. Last(s)[1] = "__task" /\ Last(s) \in StackIds
    BY <2>1 DEF Last
  <2>3. Last(s) # <<>>
    BY <2>2, StackId DEF NoId
  <2> QED BY <2>2, <2>3 DEF Synthetic
<1>2. Pop(s, NoId) = Front(s)
  BY <1>1 DEF Pop
<1>3. CASE id = NoId
  BY <1>2, <1>3 DEF PopResult
<1>4. CASE id = <<"task", t>>
  <2>1. id \in TaskIds(t)
    BY <1>4 DEF TaskIds
  <2>2. id # NoId /\ \A i \in DOMAIN s : RoughlyMatch(s[i], id) <=> s[i] = <<"task", t>>
    BY <2>1, TaskIdFacts
  <2>3. \A i \in DOMAIN s : s[i] # <<"task", t>>
    OBVIOUS
  <2>4. Hits(s, id) = {}
    BY <2>2, <2>3 DEF Hits
  <2>5. Pop(s, id) = s
    BY <2>2, <2>4, PopHits
  <2>6. LooksLikeTask(id)
    <3>1. <<"task", t>> # <<>> /\ <<"task", t>>[1] = "task"
      OBVIOUS
    <3> QED BY <1>4, <3>1 DEF LooksLikeTask
  <2> QED BY <1>1, <1>2, <2>2, <2>5, <2>6 DEF PopResult
<1> QED BY <1>3, <1>4

\* No entry matches the id of another tool.
LEMMA PopTool ==
    ASSUME NEW s \in Seq(StackIds), NEW id \in ToolIds
    PROVE  id # NoId /\ Pop(s, id) = s
<1>1. PICK u : id = <<u, 1>> /\ u \notin {"task", "__task"}
  BY DEF ToolIds
<1>2. id # NoId
  BY <1>1 DEF NoId
<1>3. ASSUME NEW i \in DOMAIN s PROVE ~RoughlyMatch(s[i], id)
  <2> DEFINE a == s[i]
             x == a[1]
             n == a[2]
  <2>1. a \in StackIds
    OBVIOUS
  <2>2. a = <<x, n>> /\ x \in {"task", "__task"}
    <3> HIDE DEF a
    <3> QED BY <2>1, StackId
  <2> HIDE DEF x, n
  <2>3. RoughlyMatch(<<x, n>>, <<u, 1>>) <=> x = u /\ n = 1
    BY MatchPair
  <2> QED BY <1>1, <2>2, <2>3
<1>4. Hits(s, id) = {}
  BY <1>3 DEF Hits
<1> QED BY <1>2, <1>4, PopHits

\* The result of another tool leaves the stack as it is, unless nothing tells it from a Task's.
LEMMA ResultOfTool ==
    ASSUME NEW s \in Seq(StackIds), NEW id \in ToolIds, id \in names \/ ~LooksLikeTask(id)
    PROVE  PopResult(s, id) = s
BY PopTool DEF PopResult

\* The types of a turn.
BlockNames == {"none", "text", "thinking", "tool"}
Indexes == Blocks \cup {-1}
CliStates == [tasks : Seq(Nat), made : Nat, ids : BOOLEAN, streams : BOOLEAN,
              block : BlockNames \X Indexes, events : Nat, over : BOOLEAN,
              ended : Endings \cup {"none"}, overtaken : BOOLEAN, called : BOOLEAN,
              guessed : BOOLEAN]
OpenBlocks == [tool : BOOLEAN, thinking : Nat, text : Nat]

TurnTypes ==
    /\ cli \in CliStates /\ said \in Seq(PieceSet)
    /\ segments \in Seq(Segments) /\ open \in [Blocks -> OpenBlocks]
    /\ names \subseteq ToolIds /\ stack \in Seq(StackIds)

\* What a block writes into is a segment of its kind.
WritesTo(segs, spot, kind) == spot # 0 => spot \in DOMAIN segs /\ segs[spot].kind = kind

OpenInv == \A i \in Blocks : /\ WritesTo(segments, open[i].text, "text")
                             /\ WritesTo(segments, open[i].thinking, "thinking")

\* A block that says something runs while no subagent does.
BlockInv == /\ cli.block # NoBlockYet => cli.block[2] \in Blocks
            /\ cli.block[1] \in {"text", "thinking"} => cli.streams /\ cli.tasks = <<>>

\* No segment of text is behind the one that a block of text writes into.
LastText(segs, spot) == spot # 0 => \A k \in DOMAIN segs : k > spot => segs[k].kind # "text"

LastInv == ~cli.over /\ cli.block[1] = "text" => LastText(segments, open[cli.block[2]].text)

\* Tasks are numbered as they are made.
TasksInv == /\ \A j \in DOMAIN cli.tasks : cli.tasks[j] <= cli.made
            /\ \A i, j \in DOMAIN cli.tasks : i < j => cli.tasks[i] < cli.tasks[j]

\* With ids, every entry of the stack is of a task that runs; as long as none has ended
\* before a younger one the entries are the tasks.  Without, the entries are numbered, and
\* there are as many as tasks until the result of a tool has been taken for that of a task.
OfTasks(st, tasks) == \A k \in DOMAIN st : \E j \in DOMAIN tasks : st[k] = <<"task", tasks[j]>>
Distinct(st) == \A k, l \in DOMAIN st : st[k] = st[l] => k = l
AreTasks(st, tasks) ==
    Len(st) = Len(tasks) /\ \A k \in DOMAIN st : st[k] = <<"task", tasks[k]>>
AreNumbers(st, tasks) == Len(st) <= Len(tasks) /\ \A k \in DOMAIN st : st[k] = <<"__task", k>>

StackInv ==
    /\ cli.called => ~cli.ids
    /\ cli.ids => OfTasks(stack, cli.tasks) /\ Distinct(stack)
    /\ cli.ids /\ ~cli.overtaken => AreTasks(stack, cli.tasks)
    /\ ~cli.ids => AreNumbers(stack, cli.tasks)
    /\ ~cli.ids /\ ~cli.guessed => Len(stack) = Len(cli.tasks)

\* The context of a subagent may have been closed too early.
ClosedEarly == cli.overtaken \/ cli.guessed

TurnInv == TurnTypes /\ OpenInv /\ BlockInv /\ LastInv /\ TasksInv /\ StackInv /\ TranscriptTrue

\* While no task runs the stack is empty, and while one runs it is not, unless a context
\* was closed too early.
LEMMA StackAndTasks ==
    ASSUME TurnInv
    PROVE  /\ cli.tasks = <<>> => stack = <<>>
           /\ cli.tasks # <<>> /\ ~ClosedEarly => stack # <<>>
<1>1. /\ stack \in Seq(StackIds) /\ cli.tasks \in Seq(Nat) /\ cli.ids \in BOOLEAN
      /\ cli.overtaken \in BOOLEAN /\ cli.guessed \in BOOLEAN
  BY DEF TurnInv, TurnTypes, CliStates
<1>2. ASSUME cli.tasks = <<>> PROVE stack = <<>>
  <2>1. CASE cli.ids
    <3>1. DOMAIN cli.tasks = {}
      BY <1>2, EmptyDomain
    <3>2. DOMAIN stack = {}
      BY <2>1, <3>1 DEF TurnInv, StackInv, OfTasks
    <3> QED BY <1>1, <3>2, EmptySeq
  <2>2. CASE ~cli.ids
    <3>1. Len(stack) <= 0 /\ Len(stack) \in Nat
      BY <1>1, <1>2, <2>2 DEF TurnInv, StackInv, AreNumbers
    <3> QED BY <1>1, <3>1, EmptySeq
  <2> QED BY <2>1, <2>2
<1>3. ASSUME cli.tasks # <<>>, ~ClosedEarly PROVE stack # <<>>
  <2>1. Len(stack) = Len(cli.tasks)
    BY <1>1, <1>3 DEF TurnInv, StackInv, ClosedEarly, AreTasks
  <2>2. Len(cli.tasks) # 0
    BY <1>1, <1>3, EmptySeq
  <2> QED BY <2>1, <2>2, EmptySeq
<1> QED BY <1>2, <1>3

\* What a new segment changes.
LEMMA SegmentAppended ==
    ASSUME NEW segs, segs \in Seq(Segments), NEW seg, seg \in Segments, NEW new,
           new = Append(segs, seg)
    PROVE  /\ new \in Seq(Segments) /\ Len(new) = Len(segs) + 1 /\ Len(segs) \in Nat
           /\ DOMAIN new = 1 .. (Len(segs) + 1) /\ DOMAIN segs = 1 .. Len(segs)
           /\ \A k \in DOMAIN segs : k \in DOMAIN new /\ new[k] = segs[k]
           /\ new[Len(segs) + 1] = seg
<1>1. /\ new \in Seq(Segments) /\ Len(new) = Len(segs) + 1 /\ Len(segs) \in Nat
      /\ (\A k \in 1 .. Len(segs) : new[k] = segs[k]) /\ new[Len(segs) + 1] = seg
  BY AppendProperties
<1>2. DOMAIN new = 1 .. (Len(segs) + 1) /\ DOMAIN segs = 1 .. Len(segs)
  BY <1>1
<1>3. \A k \in 1 .. Len(segs) : k \in 1 .. (Len(segs) + 1)
  BY <1>1
<1> QED BY <1>1, <1>2, <1>3

\* A heading adds no piece.
LEMMA HeadingAppended ==
    ASSUME NEW segs, segs \in Seq(Segments), NEW kind, kind \in SegmentKinds
    PROVE  /\ NewSegment(kind) \in Segments /\ NewSegment(kind).kind = kind
           /\ \A k, a : Pieces(Append(segs, NewSegment(kind)), k, a) = Pieces(segs, k, a)
<1> DEFINE seg == NewSegment(kind)
           new == Append(segs, seg)
<1>1. seg \in Segments /\ seg.kind = kind /\ seg.parts = <<>>
  BY EmptySeq DEF NewSegment, Segments
<1>2. ASSUME NEW k, NEW a PROVE Pieces(new, k, a) = Pieces(segs, k, a)
  <2>1. Pieces(segs, k, a) \in Seq(PieceSet)
    <3> HIDE DEF seg
    <3> QED BY <1>1, PiecesAppend
  <2>2. Pieces(new, k, a) = Pieces(segs, k, a) \o Of(seg, k, a)
    <3> HIDE DEF seg
    <3> QED BY <1>1, PiecesAppend
  <2>3. By(<<>>, a) = <<>>
    <3>1. <<"main", 0>> \in PieceSet /\ <<>> \in Seq(PieceSet)
      BY EmptySeq DEF PieceSet
    <3> QED BY <3>1, ByAppends
  <2>4. Of(seg, k, a) = <<>>
    BY <1>1, <2>3 DEF Of
  <2> QED BY <2>1, <2>2, <2>4, ConcatEmptySeq
<1> QED BY <1>1, <1>2

\* A segment of one piece, and what is told with it.
OfOnePiece(seg, kind, p) == seg = [kind |-> kind, parts |-> <<p>>]
ToldMore(segs, kind, p, new) ==
    \A k, a : Pieces(new, k, a) = IF k = kind /\ p[1] = a THEN Append(Pieces(segs, k, a), p)
                                                         ELSE Pieces(segs, k, a)

\* A segment of one piece adds that to what is of its kind and agent, and nothing to others.
LEMMA FreshAppended ==
    ASSUME NEW segs \in Seq(Segments), NEW kind \in SegmentKinds, NEW p \in PieceSet,
           NEW seg, OfOnePiece(seg, kind, p), NEW new, new = Append(segs, seg)
    PROVE  /\ seg \in Segments /\ seg.kind = kind
           /\ ToldMore(segs, kind, p, new)
<1>0. seg = [kind |-> kind, parts |-> <<p>>]
  BY DEF OfOnePiece
<1>1. seg \in Segments /\ seg.kind = kind /\ seg.parts = <<p>>
  <2>1. <<p>> \in Seq(PieceSet)
    OBVIOUS
  <2> QED BY <1>0, <2>1 DEF Segments
<1>2. ASSUME NEW k, NEW a
      PROVE  Pieces(new, k, a) = IF k = kind /\ p[1] = a THEN Append(Pieces(segs, k, a), p)
                                                       ELSE Pieces(segs, k, a)
  <2> DEFINE old == Pieces(segs, k, a)
  <2>1. old \in Seq(PieceSet) /\ Pieces(new, k, a) = old \o Of(seg, k, a)
    BY <1>1, PiecesAppend
  <2>2. /\ p[1] = a => By(<<p>>, a) = <<p>>
        /\ p[1] # a => By(<<p>>, a) = <<>>
    <3>1. <<>> \in Seq(PieceSet) /\ Append(<<>>, p) = <<p>>
      BY EmptySeq
    <3>2. /\ By(<<>>, a) = <<>>
          /\ p[1] = a => By(Append(<<>>, p), a) = Append(By(<<>>, a), p)
          /\ p[1] # a => By(Append(<<>>, p), a) = By(<<>>, a)
      BY <3>1, ByAppends
    <3> QED BY <3>1, <3>2
  <2>3. Of(seg, k, a) = IF k = kind /\ p[1] = a THEN <<p>> ELSE <<>>
    BY <1>1, <2>2 DEF Of
  <2> HIDE DEF old
  <2>4. old \o <<>> = old
    BY <2>1, ConcatEmptySeq
  <2>5. Append(old, p) = old \o <<p>>
    BY <2>1, AppendIsConcat
  <2>6. Pieces(new, k, a) = IF k = kind /\ p[1] = a THEN Append(old, p) ELSE old
    BY <2>1, <2>3, <2>4, <2>5
  <2> QED BY <2>6 DEF old
<1> QED BY <1>1, <1>2 DEF ToldMore

\* The segments of segs are still there.
Keeps(segs, new) ==
    DOMAIN segs \subseteq DOMAIN new /\ \A k \in DOMAIN segs : new[k].kind = segs[k].kind

\* What a block writes into it still does, and an index that was stopped into nothing.
NoneOpened(old, new) ==
    \A i \in Blocks : new[i].text \in {0, old[i].text} /\ new[i].thinking \in {0, old[i].thinking}

\* Open blocks keep what they write to, when no segment changes and none of them is opened.
LEMMA WritesKept ==
    ASSUME NEW segs, NEW new, Keeps(segs, new), NEW old, NEW next, NoneOpened(old, next),
           \A i \in Blocks : /\ WritesTo(segs, old[i].text, "text")
                             /\ WritesTo(segs, old[i].thinking, "thinking")
    PROVE  \A i \in Blocks : /\ WritesTo(new, next[i].text, "text")
                             /\ WritesTo(new, next[i].thinking, "thinking")
BY DEF Keeps, NoneOpened, WritesTo

\* Stopping an index opens none.
LEMMA StoppedFacts ==
    ASSUME NEW o \in [Blocks -> OpenBlocks], NEW i \in Blocks
    PROVE  Stopped(o, i) \in [Blocks -> OpenBlocks] /\ NoneOpened(o, Stopped(o, i))
<1> DEFINE b == o[i]
           c == IF b.tool THEN [b EXCEPT !.tool = FALSE]
                ELSE IF b.thinking # 0 THEN [b EXCEPT !.thinking = 0] ELSE [b EXCEPT !.text = 0]
<1>1. b \in OpenBlocks
  OBVIOUS
<1>2. c \in OpenBlocks /\ c.text \in {0, b.text} /\ c.thinking \in {0, b.thinking}
  <2> HIDE DEF b
  <2>1. 0 \in Nat
    OBVIOUS
  <2> QED BY <1>1, <2>1 DEF OpenBlocks
<1>3. Stopped(o, i) = [o EXCEPT ![i] = c]
  BY DEF Stopped
<1> HIDE DEF c
<1>4. Stopped(o, i)[i] = c /\ \A j \in Blocks : j # i => Stopped(o, i)[j] = o[j]
  BY <1>3
<1> QED BY <1>2, <1>3, <1>4 DEF NoneOpened

\* Tasks and settings of the CLI are as they were; calls without an id come only from
\* providers that leave ids out.
SameTasks ==
    /\ cli' \in CliStates
    /\ cli'.tasks = cli.tasks /\ cli'.made = cli.made /\ cli'.ids = cli.ids
    /\ cli'.streams = cli.streams /\ cli'.overtaken = cli.overtaken
    /\ cli'.called => cli.called \/ ~cli.ids
    /\ cli.guessed => cli'.guessed

\* The parts about the subagents, when nothing of theirs changes.
LEMMA TasksKept ==
    ASSUME TurnInv, SameTasks, stack' = stack
    PROVE  TasksInv' /\ StackInv' /\ stack' \in Seq(StackIds)
<1>1. TasksInv' /\ stack' \in Seq(StackIds)
  BY DEF TurnInv, TurnTypes, SameTasks, TasksInv
<1>2. StackInv'
  BY DEF TurnInv, SameTasks, StackInv
<1> QED BY <1>1, <1>2

\* Nothing that is shown changes.
LEMMA QuietStep ==
    ASSUME TurnInv, SameTasks, stack' = stack, names' \subseteq ToolIds,
           said' = said, segments' = segments, open' = open,
           cli'.block = cli.block, cli.over => cli'.over
    PROVE  TurnInv'
<1>1. TasksInv' /\ StackInv' /\ stack' \in Seq(StackIds)
  BY TasksKept
<1>2. TurnTypes'
  BY <1>1 DEF TurnInv, TurnTypes, SameTasks
<1>3. OpenInv' /\ LastInv' /\ BlockInv'
  BY DEF TurnInv, OpenInv, LastInv, BlockInv, SameTasks
<1>4. TranscriptTrue'
  BY DEF TurnInv, TranscriptTrue, SameTasks
<1> QED BY <1>1, <1>2, <1>3, <1>4 DEF TurnInv

\* A heading is shown.
Headings == {"subagent", "tool", "error"}

\* A new segment that is no text and no thinking.
LEMMA HeadingStep ==
    ASSUME TurnInv, NEW kind \in Headings, segments' = Append(segments, NewSegment(kind)),
           open' \in [Blocks -> OpenBlocks], NoneOpened(open, open'), said' = said,
           ClosedEarly => ClosedEarly',
           \/ open' = open /\ cli'.block = cli.block /\ (cli.over => cli'.over)
           \/ cli'.block[1] # "text"
    PROVE  /\ segments' \in Seq(Segments) /\ OpenInv' /\ LastInv' /\ TranscriptTrue'
<1> DEFINE seg == NewSegment(kind)
           L == Len(segments)
<1>1. segments \in Seq(Segments) /\ kind \in SegmentKinds /\ kind # "text"
  BY DEF TurnInv, TurnTypes, Headings, SegmentKinds
<1>2. /\ seg \in Segments /\ seg.kind = kind
      /\ \A k, a : Pieces(segments', k, a) = Pieces(segments, k, a)
  <2>1. /\ NewSegment(kind) \in Segments /\ NewSegment(kind).kind = kind
        /\ \A k, a : Pieces(Append(segments, NewSegment(kind)), k, a) = Pieces(segments, k, a)
    BY <1>1, HeadingAppended
  <2> QED BY <2>1
<1>3. segments' = Append(segments, seg)
  OBVIOUS
<1> HIDE DEF seg
<1>4. /\ segments' \in Seq(Segments) /\ L \in Nat
      /\ DOMAIN segments' = 1 .. (L + 1) /\ DOMAIN segments = 1 .. L
      /\ \A k \in DOMAIN segments : k \in DOMAIN segments' /\ segments'[k] = segments[k]
      /\ segments'[L + 1] = seg
  BY <1>1, <1>2, <1>3, SegmentAppended
<1>5. Keeps(segments, segments')
  BY <1>4 DEF Keeps
<1>6. OpenInv'
  <2>1. \A i \in Blocks : /\ WritesTo(segments, open[i].text, "text")
                          /\ WritesTo(segments, open[i].thinking, "thinking")
    BY DEF TurnInv, OpenInv
  <2>2. \A i \in Blocks : /\ WritesTo(segments', open'[i].text, "text")
                          /\ WritesTo(segments', open'[i].thinking, "thinking")
    BY <1>5, <2>1, WritesKept
  <2> QED BY <2>2 DEF OpenInv
<1>7. LastInv'
  <2> SUFFICES ASSUME ~cli'.over, cli'.block[1] = "text"
               PROVE  LastText(segments', open'[cli'.block[2]].text)
    BY DEF LastInv
  <2>1. open' = open /\ cli'.block = cli.block /\ ~cli.over
    OBVIOUS
  <2> DEFINE spot == open[cli.block[2]].text
  <2>2. LastText(segments, spot)
    BY <2>1 DEF TurnInv, LastInv
  <2>3. LastText(segments', spot)
    <3> HIDE DEF spot
    <3>1. \A k \in DOMAIN segments' : k = L + 1 \/ k \in DOMAIN segments
      BY <1>4
    <3>2. segments'[L + 1].kind # "text"
      BY <1>1, <1>2, <1>4
    <3> QED BY <1>4, <2>2, <3>1, <3>2 DEF LastText
  <2> QED BY <2>1, <2>3
<1>8. TranscriptTrue'
  <2>1. /\ Pieces(segments', "text", "main") = said'
        /\ ClosedEarly' \/ \A k \in {"text", "thinking"} : Pieces(segments', k, "sub") = <<>>
    BY <1>2 DEF TurnInv, TranscriptTrue, ClosedEarly
  <2> QED BY <2>1 DEF TranscriptTrue, ClosedEarly
<1> QED BY <1>4, <1>6, <1>7, <1>8

\* What Did leaves of the CLI.
LEMMA DidFacts ==
    ASSUME TurnInv
    PROVE  /\ Did(cli) => SameTasks /\ cli'.block = cli.block /\ cli'.over = cli.over
           /\ \A b \in BlockNames \X Indexes :
                 Did([cli EXCEPT !.block = b]) => SameTasks /\ cli'.block = b /\ cli'.over = cli.over
           /\ \A b \in BlockNames \X Indexes : \A c \in BOOLEAN :
                 Did([cli EXCEPT !.block = b, !.called = c]) /\ (c => cli.called \/ ~cli.ids) =>
                     SameTasks /\ cli'.block = b /\ cli'.over = cli.over
           /\ \A g \in BOOLEAN :
                 Did([cli EXCEPT !.guessed = g]) /\ (cli.guessed => g) =>
                     /\ SameTasks /\ cli'.block = cli.block /\ cli'.over = cli.over
                     /\ cli'.guessed = g /\ cli'.called = cli.called
<1> DEFINE W == BlockNames \X Indexes
           E == Endings \cup {"none"}
<1>1. cli \in CliStates
  BY DEF TurnInv, TurnTypes
<1>2. cli.events + 1 \in Nat
  BY <1>1 DEF CliStates
<1> HIDE DEF W, E
<1>3. Did(cli) => SameTasks /\ cli'.block = cli.block /\ cli'.over = cli.over
  BY <1>1, <1>2 DEF Did, SameTasks, CliStates
<1>4. \A b \in W : Did([cli EXCEPT !.block = b]) =>
                      SameTasks /\ cli'.block = b /\ cli'.over = cli.over
  BY <1>1, <1>2 DEF Did, SameTasks, CliStates, W
<1>5. ASSUME NEW b \in W, NEW c \in BOOLEAN, Did([cli EXCEPT !.block = b, !.called = c]),
             c => cli.called \/ ~cli.ids
      PROVE  SameTasks /\ cli'.block = b /\ cli'.over = cli.over
  <2> DEFINE Q == Seq(Nat)
  <2>1. CliStates = [tasks : Q, made : Nat, ids : BOOLEAN, streams : BOOLEAN, block : W,
                     events : Nat, over : BOOLEAN, ended : E, overtaken : BOOLEAN,
                     called : BOOLEAN, guessed : BOOLEAN]
    BY DEF CliStates, W, E
  <2> HIDE DEF Q
  <2>2. cli' = [cli EXCEPT !.block = b, !.called = c, !.events = cli.events + 1]
    BY <1>1, <1>5, <2>1 DEF Did
  <2>3. cli' \in CliStates
    BY <1>1, <1>2, <1>5, <2>1, <2>2
  <2>4. /\ cli'.tasks = cli.tasks /\ cli'.made = cli.made /\ cli'.ids = cli.ids
        /\ cli'.streams = cli.streams /\ cli'.overtaken = cli.overtaken /\ cli'.called = c
        /\ cli'.guessed = cli.guessed /\ cli'.block = b /\ cli'.over = cli.over
    BY <1>1, <2>1, <2>2
  <2> QED BY <1>5, <2>3, <2>4 DEF SameTasks
<1>6. \A g \in BOOLEAN : Did([cli EXCEPT !.guessed = g]) /\ (cli.guessed => g) =>
                            /\ SameTasks /\ cli'.block = cli.block /\ cli'.over = cli.over
                            /\ cli'.guessed = g /\ cli'.called = cli.called
  BY <1>1, <1>2 DEF Did, SameTasks, CliStates
<1> QED BY <1>3, <1>4, <1>5, <1>6 DEF W

\* A fresh segment of one piece, that no subagent said.
LEMMA FreshStep ==
    ASSUME TurnInv, NEW kind \in {"text", "thinking"}, NEW p \in PieceSet, p[1] # "sub",
           segments' = Append(segments, [kind |-> kind, parts |-> <<p>>]),
           said' = IF p[1] = "main" /\ kind = "text" THEN Append(said, p) ELSE said,
           ClosedEarly => ClosedEarly'
    PROVE  /\ segments' \in Seq(Segments) /\ said' \in Seq(PieceSet) /\ TranscriptTrue'
           /\ Keeps(segments, segments') /\ Len(segments) \in Nat
           /\ DOMAIN segments' = 1 .. (Len(segments) + 1)
           /\ segments'[Len(segments) + 1].kind = kind
<1> DEFINE seg == [kind |-> kind, parts |-> <<p>>]
<1>1. /\ segments \in Seq(Segments) /\ kind \in SegmentKinds /\ said \in Seq(PieceSet)
  BY DEF TurnInv, TurnTypes, SegmentKinds
<1>2. seg \in Segments /\ seg.kind = kind /\ ToldMore(segments, kind, p, Append(segments, seg))
  <2>1. OfOnePiece(seg, kind, p)
    BY DEF OfOnePiece
  <2> HIDE DEF seg
  <2>2. seg \in Segments /\ seg.kind = kind /\ ToldMore(segments, kind, p, Append(segments, seg))
    BY <1>1, <2>1, FreshAppended
  <2> QED BY <2>2
<1>3. segments' = Append(segments, seg)
  OBVIOUS
<1> HIDE DEF seg
<1>4. \A k, a : Pieces(segments', k, a) = IF k = kind /\ p[1] = a
                                          THEN Append(Pieces(segments, k, a), p)
                                          ELSE Pieces(segments, k, a)
  BY <1>2, <1>3 DEF ToldMore
<1>5. /\ segments' \in Seq(Segments) /\ Len(segments) \in Nat
      /\ DOMAIN segments' = 1 .. (Len(segments) + 1) /\ DOMAIN segments = 1 .. Len(segments)
      /\ \A k \in DOMAIN segments : k \in DOMAIN segments' /\ segments'[k] = segments[k]
      /\ segments'[Len(segments) + 1] = seg
  BY <1>1, <1>2, <1>3, SegmentAppended
<1>6. Keeps(segments, segments')
  BY <1>5 DEF Keeps
<1>7. said' \in Seq(PieceSet)
  <2>1. Append(said, p) \in Seq(PieceSet)
    BY <1>1, AppendProperties
  <2> QED BY <1>1, <2>1
<1>8. TranscriptTrue'
  <2>1. Pieces(segments, "text", "main") = said
    BY DEF TurnInv, TranscriptTrue
  <2>2. Pieces(segments', "text", "main") = said'
    BY <1>4, <2>1
  <2>3. ClosedEarly' \/ \A k \in {"text", "thinking"} : Pieces(segments', k, "sub") = <<>>
    BY <1>4 DEF TurnInv, TranscriptTrue, ClosedEarly
  <2> QED BY <2>2, <2>3 DEF TranscriptTrue, ClosedEarly
<1> QED BY <1>2, <1>5, <1>6, <1>7, <1>8

\* What a subagent says shows when a context was closed too early.
LEMMA SubagentStep ==
    ASSUME TurnInv, NEW kind \in {"text", "thinking"}, NEW p \in PieceSet, p[1] = "sub",
           segments' = Append(segments, [kind |-> kind, parts |-> <<p>>]),
           said' = said, ClosedEarly'
    PROVE  /\ segments' \in Seq(Segments) /\ said' \in Seq(PieceSet) /\ TranscriptTrue'
           /\ Keeps(segments, segments')
<1> DEFINE seg == [kind |-> kind, parts |-> <<p>>]
<1>1. segments \in Seq(Segments) /\ kind \in SegmentKinds /\ said \in Seq(PieceSet)
  BY DEF TurnInv, TurnTypes, SegmentKinds
<1>2. seg \in Segments /\ seg.kind = kind /\ ToldMore(segments, kind, p, Append(segments, seg))
  <2>1. OfOnePiece(seg, kind, p)
    BY DEF OfOnePiece
  <2> HIDE DEF seg
  <2>2. seg \in Segments /\ seg.kind = kind /\ ToldMore(segments, kind, p, Append(segments, seg))
    BY <1>1, <2>1, FreshAppended
  <2> QED BY <2>2
<1>3. segments' = Append(segments, seg)
  OBVIOUS
<1> HIDE DEF seg
<1>4. Pieces(segments', "text", "main") = Pieces(segments, "text", "main")
  <2>1. \A k, a : Pieces(segments', k, a) = IF k = kind /\ p[1] = a
                                            THEN Append(Pieces(segments, k, a), p)
                                            ELSE Pieces(segments, k, a)
    BY <1>2, <1>3 DEF ToldMore
  <2> QED BY <2>1
<1>5. /\ segments' \in Seq(Segments)
      /\ \A k \in DOMAIN segments : k \in DOMAIN segments' /\ segments'[k] = segments[k]
  BY <1>1, <1>2, <1>3, SegmentAppended
<1>6. TranscriptTrue'
  BY <1>4 DEF TurnInv, TranscriptTrue, ClosedEarly
<1> QED BY <1>1, <1>5, <1>6 DEF Keeps

\* Without an index no block is meant.
LEMMA NoIndex == -1 \notin Blocks
BY TranscriptAssumption

\* A chunk of a whole message.
LEMMA ChunkKeeps ==
    ASSUME TurnInv, NEW kind \in {"text", "thinking"}, Chunk(kind)
    PROVE  TurnInv'
<1> DEFINE agent == IF cli.tasks = <<>> THEN "main" ELSE "sub"
           piece == <<agent, cli.events>>
<1>1. cli \in CliStates /\ cli.events \in Nat
  BY DEF TurnInv, TurnTypes, CliStates
<1>2. piece \in PieceSet /\ piece[1] = agent
  BY <1>1 DEF PieceSet
<1>3. SameTasks /\ cli'.block = cli.block /\ cli'.over = cli.over
  BY DidFacts DEF Chunk
<1>4. said' = IF agent = "main" /\ kind = "text" THEN Append(said, piece) ELSE said
  BY DEF Chunk
<1>5. CASE InSubagent
  <2>1. segments' = segments /\ open' = open /\ names' = names /\ stack' = stack
    BY <1>5 DEF Chunk, ApplyDelta, bufferVars
  <2>2. cli.tasks # <<>>
    BY <1>5, StackAndTasks DEF InSubagent
  <2>3. said' = said
    BY <1>4, <2>2
  <2>4. names' \subseteq ToolIds
    BY <2>1 DEF TurnInv, TurnTypes
  <2> QED BY <1>3, <2>1, <2>3, <2>4, QuietStep
<1>6. CASE ~InSubagent
  <2>1. /\ segments' = Append(segments, [kind |-> kind, parts |-> <<piece>>])
        /\ open' = open /\ names' = names /\ stack' = stack
    BY <1>6, NoIndex DEF Chunk, ApplyDelta
  <2> HIDE DEF piece
  <2>2. cli.tasks # <<>> => ClosedEarly
    BY <1>6, StackAndTasks DEF InSubagent
  <2>3. ~(cli.streams /\ cli.tasks = <<>>)
    BY NoIndex DEF Chunk, InBlock
  <2>4. cli'.block[1] \notin {"text", "thinking"}
    BY <1>3, <2>3 DEF TurnInv, BlockInv
  <2>5. ClosedEarly => ClosedEarly'
    BY <1>3 DEF SameTasks, ClosedEarly
  <2>6. /\ segments' \in Seq(Segments) /\ said' \in Seq(PieceSet) /\ TranscriptTrue'
        /\ Keeps(segments, segments')
    <3>1. CASE agent = "main"
      <4>1. piece[1] # "sub" /\ said' = IF piece[1] = "main" /\ kind = "text"
                                        THEN Append(said, piece) ELSE said
        BY <1>2, <1>4, <3>1
      <4> HIDE DEF agent
      <4> QED BY <1>2, <2>1, <2>5, <4>1, FreshStep
    <3>2. CASE agent = "sub"
      <4>1. ClosedEarly' /\ said' = said /\ piece[1] = "sub"
        BY <1>2, <1>4, <2>2, <2>5, <3>2
      <4> QED BY <1>2, <2>1, <4>1, SubagentStep
    <3> QED BY <3>1, <3>2
  <2>7. TasksInv' /\ StackInv' /\ stack' \in Seq(StackIds)
    BY <1>3, <2>1, TasksKept
  <2>8. OpenInv'
    <3>1. NoneOpened(open, open')
      BY <2>1 DEF NoneOpened
    <3>2. \A i \in Blocks : /\ WritesTo(segments, open[i].text, "text")
                            /\ WritesTo(segments, open[i].thinking, "thinking")
      BY DEF TurnInv, OpenInv
    <3>3. \A i \in Blocks : /\ WritesTo(segments', open'[i].text, "text")
                            /\ WritesTo(segments', open'[i].thinking, "thinking")
      BY <2>6, <3>1, <3>2, WritesKept
    <3> QED BY <3>3 DEF OpenInv
  <2>9. LastInv' /\ BlockInv'
    BY <1>3, <2>4 DEF TurnInv, LastInv, BlockInv
  <2>10. TurnTypes'
    BY <1>3, <2>1, <2>6, <2>7 DEF TurnInv, TurnTypes, SameTasks
  <2> QED BY <2>6, <2>7, <2>8, <2>9, <2>10 DEF TurnInv
<1> QED BY <1>5, <1>6

\* The kinds that hold pieces.
Sayings == {"text", "thinking"}

\* An index is given a segment.
Given(o, i, kind, n) == [o EXCEPT ![i][kind] = n]

\* A block that is given the segment it writes to; the other blocks.
LEMMA OpenedFacts ==
    ASSUME NEW o \in [Blocks -> OpenBlocks], NEW i \in Blocks, NEW kind \in Sayings,
           NEW n \in Nat, NEW p, p = Given(o, i, kind, n)
    PROVE  /\ p \in [Blocks -> OpenBlocks] /\ \A j \in Blocks : j # i => p[j] = o[j]
           /\ kind = "text" => p[i].text = n /\ p[i].thinking = o[i].thinking
           /\ kind = "thinking" => p[i].thinking = n /\ p[i].text = o[i].text
<1> DEFINE b == o[i]
           c == IF kind = "text" THEN [b EXCEPT !.text = n] ELSE [b EXCEPT !.thinking = n]
<1>1. b \in OpenBlocks
  OBVIOUS
<1>2. p = [o EXCEPT ![i] = c]
  <2>1. CASE kind = "text"
    BY <2>1 DEF Given
  <2>2. CASE kind = "thinking"
    BY <2>2 DEF Given
  <2> QED BY <2>1, <2>2 DEF Sayings
<1>3. /\ c \in OpenBlocks
      /\ kind = "text" => c.text = n /\ c.thinking = b.thinking
      /\ kind = "thinking" => c.thinking = n /\ c.text = b.text
  <2> HIDE DEF b
  <2> QED BY <1>1 DEF OpenBlocks, Sayings
<1> HIDE DEF c
<1>4. p[i] = c /\ \A j \in Blocks : j # i => p[j] = o[j]
  BY <1>2
<1>5. p \in [Blocks -> OpenBlocks]
  BY <1>2, <1>3
<1> QED BY <1>3, <1>4, <1>5

\* It writes into it, the others write where they did.
LEMMA OpenedStep ==
    ASSUME OpenInv, open \in [Blocks -> OpenBlocks], Keeps(segments, segments'),
           NEW n \in Nat, n \in DOMAIN segments',
           NEW kind \in Sayings, segments'[n].kind = kind,
           NEW i \in Blocks, NEW o \in [Blocks -> OpenBlocks], NoneOpened(open, o),
           open' = [o EXCEPT ![i][kind] = n]
    PROVE  /\ OpenInv' /\ open' \in [Blocks -> OpenBlocks]
           /\ kind = "text" => open'[i].text = n
<1>1. /\ open' \in [Blocks -> OpenBlocks] /\ \A j \in Blocks : j # i => open'[j] = o[j]
      /\ kind = "text" => open'[i].text = n /\ open'[i].thinking = o[i].thinking
      /\ kind = "thinking" => open'[i].thinking = n /\ open'[i].text = o[i].text
  <2>1. ASSUME NEW p, p = Given(o, i, kind, n)
        PROVE
           /\ p \in [Blocks -> OpenBlocks] /\ \A j \in Blocks : j # i => p[j] = o[j]
           /\ kind = "text" => p[i].text = n /\ p[i].thinking = o[i].thinking
           /\ kind = "thinking" => p[i].thinking = n /\ p[i].text = o[i].text
    BY <2>1, OpenedFacts
  <2>2. open' = Given(o, i, kind, n)
    BY DEF Given
  <2> QED BY <2>1, <2>2
<1>2. \A j \in Blocks : /\ WritesTo(segments', o[j].text, "text")
                        /\ WritesTo(segments', o[j].thinking, "thinking")
  <2>1. \A j \in Blocks : /\ WritesTo(segments, open[j].text, "text")
                          /\ WritesTo(segments, open[j].thinking, "thinking")
    BY DEF OpenInv
  <2> QED BY <2>1, WritesKept
<1>3. WritesTo(segments', n, kind)
  BY DEF WritesTo
<1>4. \A j \in Blocks : /\ WritesTo(segments', open'[j].text, "text")
                        /\ WritesTo(segments', open'[j].thinking, "thinking")
  BY <1>1, <1>2, <1>3 DEF Sayings
<1> QED BY <1>1, <1>4 DEF OpenInv

\* The main agent's blocks come while no subagent runs.
LEMMA MainBlock ==
    ASSUME NEW i \in Blocks, InBlock(i)
    PROVE  cli.streams /\ cli.tasks = <<>>
BY NoIndex DEF InBlock

\* A block starts.
LEMMA BlockStartKeeps ==
    ASSUME TurnInv, NEW kind \in Sayings, NEW i \in Blocks, BlockStart(kind, i)
    PROVE  TurnInv'
<1> DEFINE L == Len(segments)
           b == <<kind, i>>
           o == Stopped(open, i)
<1>1. cli.streams /\ cli.tasks = <<>> /\ ~InSubagent
  BY MainBlock, StackAndTasks DEF BlockStart, InSubagent
<1>2. b \in BlockNames \X Indexes /\ b[1] = kind /\ b[2] = i
  BY DEF BlockNames, Indexes, Sayings
<1>3. Did([cli EXCEPT !.block = b]) /\ said' = said
  BY DEF BlockStart
<1>4. /\ segments' = Append(segments, NewSegment(kind)) /\ open' = [o EXCEPT ![i][kind] = L + 1]
      /\ names' = names /\ stack' = stack
  BY <1>1 DEF BlockStart, ApplyStart
<1> HIDE DEF b
<1>5. SameTasks /\ cli'.block = b /\ cli'.over = cli.over
  BY <1>2, <1>3, DidFacts
<1>6. /\ segments \in Seq(Segments) /\ kind \in SegmentKinds /\ open \in [Blocks -> OpenBlocks]
      /\ said \in Seq(PieceSet) /\ names \subseteq ToolIds
  BY DEF TurnInv, TurnTypes, SegmentKinds, Sayings
<1>7. o \in [Blocks -> OpenBlocks] /\ NoneOpened(open, o)
  BY <1>6, StoppedFacts
<1>8. /\ NewSegment(kind) \in Segments /\ NewSegment(kind).kind = kind
      /\ \A k, a : Pieces(Append(segments, NewSegment(kind)), k, a) = Pieces(segments, k, a)
  <2>1. segments \in Seq(Segments) /\ kind \in SegmentKinds
    BY <1>6
  <2> QED BY <2>1, HeadingAppended
<1> DEFINE seg == NewSegment(kind)
<1>9. segments' = Append(segments, seg) /\ seg \in Segments /\ seg.kind = kind
  BY <1>4, <1>8
<1> HIDE DEF o, seg, L
<1>10. /\ segments' \in Seq(Segments) /\ L \in Nat
       /\ DOMAIN segments' = 1 .. (L + 1) /\ DOMAIN segments = 1 .. L
       /\ \A k \in DOMAIN segments : k \in DOMAIN segments' /\ segments'[k] = segments[k]
       /\ segments'[L + 1] = seg
  BY <1>6, <1>9, SegmentAppended DEF L
<1>11. Keeps(segments, segments')
  BY <1>10 DEF Keeps
<1>12. /\ OpenInv' /\ open' \in [Blocks -> OpenBlocks]
       /\ kind = "text" => open'[i].text = L + 1
  <2>1. L + 1 \in Nat /\ L + 1 \in DOMAIN segments' /\ segments'[L + 1].kind = kind
    BY <1>9, <1>10
  <2>2. OpenInv
    BY DEF TurnInv
  <2> QED BY <1>4, <1>6, <1>7, <1>11, <2>1, <2>2, OpenedStep
<1>13. LastInv'
  <2> SUFFICES ASSUME cli'.block[1] = "text" PROVE LastText(segments', open'[cli'.block[2]].text)
    BY DEF LastInv
  <2>1. open'[cli'.block[2]].text = L + 1
    BY <1>2, <1>5, <1>12
  <2>2. LastText(segments', L + 1)
    BY <1>10 DEF LastText
  <2> QED BY <2>1, <2>2
<1>14. BlockInv'
  BY <1>1, <1>2, <1>5 DEF BlockInv, SameTasks
<1>15. TasksInv' /\ StackInv' /\ stack' \in Seq(StackIds)
  BY <1>4, <1>5, TasksKept
<1>16. TranscriptTrue'
  <2>1. \A k, a : Pieces(segments', k, a) = Pieces(segments, k, a)
    BY <1>4, <1>8
  <2>2. /\ Pieces(segments', "text", "main") = said'
        /\ ClosedEarly' \/ \A k \in {"text", "thinking"} : Pieces(segments', k, "sub") = <<>>
    BY <1>3, <1>5, <2>1 DEF TurnInv, TranscriptTrue, SameTasks, ClosedEarly
  <2> QED BY <2>2 DEF TranscriptTrue, ClosedEarly
<1>17. TurnTypes'
  BY <1>3, <1>4, <1>5, <1>6, <1>10, <1>12, <1>15 DEF TurnTypes, SameTasks
<1> QED BY <1>12, <1>13, <1>14, <1>15, <1>16, <1>17 DEF TurnInv

\* A block stops.
LEMMA BlockStopKeeps ==
    ASSUME TurnInv, BlockStop
    PROVE  TurnInv'
<1> DEFINE b == NoBlockYet
<1>1. b \in BlockNames \X Indexes /\ b[1] = "none"
  BY DEF BlockNames, Indexes, NoBlockYet
<1>2. Did([cli EXCEPT !.block = b]) /\ said' = said
  BY DEF BlockStop
<1> HIDE DEF b
<1>3. SameTasks /\ cli'.block = b
  BY <1>1, <1>2, DidFacts
<1>4. /\ open' = Stopped(open, cli.block[2]) /\ segments' = segments /\ names' = names
      /\ stack' = stack /\ cli.block # NoBlockYet
  BY DEF BlockStop, ApplyStop
<1>5. /\ segments \in Seq(Segments) /\ open \in [Blocks -> OpenBlocks] /\ cli.block[2] \in Blocks
      /\ said \in Seq(PieceSet) /\ names \subseteq ToolIds
  BY <1>4 DEF TurnInv, TurnTypes, BlockInv
<1>6. open' \in [Blocks -> OpenBlocks] /\ NoneOpened(open, open')
  BY <1>4, <1>5, StoppedFacts
<1>7. OpenInv'
  <2>1. \A i \in Blocks : /\ WritesTo(segments, open[i].text, "text")
                          /\ WritesTo(segments, open[i].thinking, "thinking")
    BY DEF TurnInv, OpenInv
  <2>2. Keeps(segments, segments')
    BY <1>4 DEF Keeps
  <2>3. \A i \in Blocks : /\ WritesTo(segments', open'[i].text, "text")
                          /\ WritesTo(segments', open'[i].thinking, "thinking")
    BY <1>6, <2>1, <2>2, WritesKept
  <2> QED BY <2>3 DEF OpenInv
<1>8. LastInv' /\ BlockInv'
  BY <1>1, <1>3 DEF LastInv, BlockInv, b
<1>9. TasksInv' /\ StackInv' /\ stack' \in Seq(StackIds)
  BY <1>3, <1>4, TasksKept
<1>10. TranscriptTrue'
  BY <1>2, <1>3, <1>4 DEF TurnInv, TranscriptTrue, SameTasks
<1>11. TurnTypes'
  BY <1>2, <1>3, <1>4, <1>5, <1>6, <1>9 DEF TurnTypes, SameTasks
<1> QED BY <1>7, <1>8, <1>9, <1>10, <1>11 DEF TurnInv

\* What a block writes into grows by what the main agent says.
LEMMA GrownStep ==
    ASSUME TurnInv, NEW kind \in Sayings, NEW spot, spot \in DOMAIN segments,
           segments[spot].kind = kind, kind = "text" => LastText(segments, spot), spot # 0,
           NEW p, p \in PieceSet, p[1] = "main", Grown(segments, segments', spot, p),
           said' = IF kind = "text" THEN Append(said, p) ELSE said,
           ClosedEarly => ClosedEarly'
    PROVE  /\ segments' \in Seq(Segments) /\ said' \in Seq(PieceSet) /\ TranscriptTrue'
           /\ DOMAIN segments' = DOMAIN segments
           /\ \A k \in DOMAIN segments : segments'[k].kind = segments[k].kind
<1>1. segments \in Seq(Segments) /\ said \in Seq(PieceSet)
  BY DEF TurnInv, TurnTypes
<1>2. /\ segments' \in Seq(Segments) /\ DOMAIN segments' = DOMAIN segments
      /\ \A k \in DOMAIN segments : k # spot => segments'[k] = segments[k]
      /\ segments'[spot].kind = segments[spot].kind
  BY <1>1, GrownFacts
<1>3. \A k \in DOMAIN segments : segments'[k].kind = segments[k].kind
  BY <1>2
<1>4. \A k : Pieces(segments', k, "sub") = Pieces(segments, k, "sub")
  <2>1. p[1] # "sub"
    OBVIOUS
  <2> QED BY <1>1, <2>1, PiecesStay
<1>5. Pieces(segments', "text", "main") = said'
  <2>1. Pieces(segments, "text", "main") = said
    BY DEF TurnInv, TranscriptTrue
  <2>2. CASE kind = "text"
    <3>1. /\ segments[spot].kind = "text"
          /\ \A k \in DOMAIN segments : k > spot => segments[k].kind # "text"
      BY <2>2 DEF LastText
    <3>2. Pieces(segments', "text", "main") = Append(Pieces(segments, "text", "main"), p)
      BY <1>1, <3>1, PiecesGrow
    <3> QED BY <2>1, <2>2, <3>2
  <2>3. CASE kind # "text"
    <3>1. segments[spot].kind # "text"
      BY <2>3
    <3>2. Pieces(segments', "text", "main") = Pieces(segments, "text", "main")
      BY <1>1, <3>1, PiecesStay
    <3> QED BY <2>1, <2>3, <3>2
  <2> QED BY <2>2, <2>3
<1>6. said' \in Seq(PieceSet)
  <2>1. Append(said, p) \in Seq(PieceSet)
    BY <1>1, AppendProperties
  <2> QED BY <1>1, <2>1
<1>7. TranscriptTrue'
  BY <1>4, <1>5 DEF TurnInv, TranscriptTrue, ClosedEarly
<1> QED BY <1>2, <1>3, <1>6, <1>7

\* A block says a piece.
LEMMA BlockDeltaKeeps ==
    ASSUME TurnInv, BlockDelta
    PROVE  TurnInv'
<1> DEFINE kind == cli.block[1]
           i == cli.block[2]
           spot == open[i][kind]
           piece == <<"main", cli.events>>
           L == Len(segments)
<1>1. kind \in Sayings /\ i \in Blocks /\ cli.streams /\ cli.tasks = <<>> /\ ~cli.over
  <2>1. cli.block[1] \in {"text", "thinking"} /\ ~cli.over
    BY DEF BlockDelta, Room
  <2>2. cli.block # NoBlockYet
    BY <2>1 DEF NoBlockYet
  <2> QED BY <2>1, <2>2 DEF TurnInv, BlockInv, Sayings
<1>2. ~InSubagent
  BY <1>1, StackAndTasks DEF InSubagent
<1>3. SameTasks /\ cli'.block = cli.block /\ cli'.over = cli.over
  BY DidFacts DEF BlockDelta
<1>4. /\ segments \in Seq(Segments) /\ open \in [Blocks -> OpenBlocks]
      /\ said \in Seq(PieceSet) /\ names \subseteq ToolIds /\ cli.events \in Nat
  BY DEF TurnInv, TurnTypes, CliStates
<1>5. piece \in PieceSet /\ piece[1] = "main"
  BY <1>4 DEF PieceSet
<1>6. said' = IF kind = "text" THEN Append(said, piece) ELSE said
  BY DEF BlockDelta
<1>7. ApplyDelta(kind, i, piece)
  BY DEF BlockDelta
<1>8. ClosedEarly => ClosedEarly'
  BY <1>3 DEF SameTasks, ClosedEarly
<1>9. /\ kind = "text" => spot = open[i].text /\ LastText(segments, spot)
      /\ kind = "thinking" => spot = open[i].thinking
  BY <1>1 DEF TurnInv, LastInv
<1>10. \A j \in Blocks : /\ WritesTo(segments, open[j].text, "text")
                         /\ WritesTo(segments, open[j].thinking, "thinking")
  BY DEF TurnInv, OpenInv
<1>11. WritesTo(segments, spot, kind)
  BY <1>1, <1>9, <1>10 DEF Sayings
<1> HIDE DEF piece
<1>12. CASE spot # 0
  <2>1. /\ segments' = [segments EXCEPT ![spot].parts = Append(@, piece)]
        /\ open' = open /\ names' = names /\ stack' = stack
    BY <1>1, <1>2, <1>7, <1>12 DEF ApplyDelta
  <2>2. spot \in DOMAIN segments /\ segments[spot].kind = kind
    BY <1>11, <1>12 DEF WritesTo
  <2> HIDE DEF spot
  <2>3. Grown(segments, segments', spot, piece)
    BY <2>1, <2>2 DEF Grown
  <2>4. kind = "text" => LastText(segments, spot)
    BY <1>9
  <2>5. /\ segments' \in Seq(Segments) /\ said' \in Seq(PieceSet) /\ TranscriptTrue'
        /\ DOMAIN segments' = DOMAIN segments
        /\ \A k \in DOMAIN segments : segments'[k].kind = segments[k].kind
    <3> HIDE DEF kind
    <3> QED BY <1>1, <1>5, <1>6, <1>8, <1>12, <2>2, <2>3, <2>4, GrownStep
  <2>6. OpenInv'
    <3>1. \A j \in Blocks : /\ WritesTo(segments', open'[j].text, "text")
                            /\ WritesTo(segments', open'[j].thinking, "thinking")
      BY <1>10, <2>1, <2>5 DEF WritesTo
    <3> QED BY <3>1 DEF OpenInv
  <2>7. LastInv' /\ BlockInv'
    <3>1. BlockInv'
      BY <1>3 DEF TurnInv, BlockInv, SameTasks
    <3>2. LastInv'
      BY <1>3, <2>1, <2>5 DEF TurnInv, LastInv, LastText
    <3> QED BY <3>1, <3>2
  <2>8. TasksInv' /\ StackInv' /\ stack' \in Seq(StackIds)
    BY <1>3, <2>1, TasksKept
  <2>9. TurnTypes'
    BY <1>3, <1>4, <2>1, <2>5, <2>8 DEF TurnTypes, SameTasks
  <2> QED BY <2>5, <2>6, <2>7, <2>8, <2>9 DEF TurnInv
<1>13. CASE spot = 0
  <2>1. /\ segments' = Append(segments, [kind |-> kind, parts |-> <<piece>>])
        /\ open' = [open EXCEPT ![i][kind] = L + 1] /\ names' = names /\ stack' = stack
    BY <1>1, <1>2, <1>7, <1>13 DEF ApplyDelta
  <2> HIDE DEF spot
  <2>2. /\ segments' \in Seq(Segments) /\ said' \in Seq(PieceSet) /\ TranscriptTrue'
        /\ Keeps(segments, segments') /\ L \in Nat /\ DOMAIN segments' = 1 .. (L + 1)
        /\ segments'[L + 1].kind = kind
    <3>1. said' = IF piece[1] = "main" /\ kind = "text" THEN Append(said, piece) ELSE said
      BY <1>5, <1>6
    <3>2. piece[1] # "sub"
      BY <1>5
    <3>3. kind \in {"text", "thinking"}
      BY <1>1 DEF Sayings
    <3> HIDE DEF kind
    <3> QED BY <1>5, <1>8, <2>1, <3>1, <3>2, <3>3, FreshStep
  <2>3. OpenInv' /\ open' \in [Blocks -> OpenBlocks] /\ (kind = "text" => open'[i].text = L + 1)
    <3>1. L + 1 \in Nat /\ L + 1 \in DOMAIN segments' /\ segments'[L + 1].kind = kind
      BY <2>2
    <3>2. OpenInv /\ NoneOpened(open, open)
      BY DEF TurnInv, NoneOpened
    <3>3. Keeps(segments, segments')
      BY <2>2
    <3> HIDE DEF L, kind, i
    <3> QED BY <1>1, <1>4, <2>1, <3>1, <3>2, <3>3, OpenedStep
  <2>4. LastInv'
    <3> SUFFICES ASSUME cli'.block[1] = "text"
                 PROVE  LastText(segments', open'[cli'.block[2]].text)
      BY DEF LastInv
    <3>1. open'[cli'.block[2]].text = L + 1
      BY <1>3, <2>3
    <3>2. LastText(segments', L + 1)
      BY <2>2 DEF LastText
    <3> QED BY <3>1, <3>2
  <2>5. BlockInv'
    BY <1>3 DEF TurnInv, BlockInv, SameTasks
  <2>6. TasksInv' /\ StackInv' /\ stack' \in Seq(StackIds)
    BY <1>3, <2>1, TasksKept
  <2>7. TurnTypes'
    BY <1>3, <1>4, <2>1, <2>2, <2>3, <2>6 DEF TurnTypes, SameTasks
  <2> QED BY <2>2, <2>3, <2>4, <2>5, <2>6, <2>7 DEF TurnInv
<1> QED BY <1>12, <1>13

\* A call stops what was open under its index, and is a block of its own.
LEMMA CallFacts ==
    ASSUME open \in [Blocks -> OpenBlocks], NEW i \in Indexes
    PROVE  /\ i \in Blocks => Stopped(open, i) \in [Blocks -> OpenBlocks]
                              /\ NoneOpened(open, Stopped(open, i))
           /\ NoneOpened(open, open)
           /\ Then(i) \in BlockNames \X Indexes /\ Then(i)[1] \in {"tool", "none"}
           /\ Then(i) # NoBlockYet => Then(i)[2] \in Blocks
<1>1. i \in Blocks => Stopped(open, i) \in [Blocks -> OpenBlocks]
                      /\ NoneOpened(open, Stopped(open, i))
  BY StoppedFacts
<1>2. NoneOpened(open, open)
  BY DEF NoneOpened
<1>3. CASE i \in Blocks
  <2>1. Then(i) = <<"tool", i>>
    BY <1>3 DEF Then
  <2>2. <<"tool", i>> \in BlockNames \X Indexes
    BY DEF BlockNames
  <2> QED BY <1>1, <1>2, <1>3, <2>1, <2>2
<1>4. CASE i \notin Blocks
  <2>1. Then(i) = NoBlockYet
    BY <1>4 DEF Then
  <2>2. NoBlockYet \in BlockNames \X Indexes /\ NoBlockYet[1] = "none"
    BY DEF NoBlockYet, BlockNames, Indexes
  <2> QED BY <1>2, <1>4, <2>1, <2>2
<1> QED BY <1>3, <1>4

\* A tool is called.
LEMMA ToolKeeps ==
    ASSUME TurnInv, NEW i \in Indexes, NEW id \in CallIds, Tool(i, id)
    PROVE  TurnInv'
<1> DEFINE b == Then(i)
           c == cli.called \/ id = NoId
           o == IF i \in Blocks THEN [Stopped(open, i) EXCEPT ![i].tool = TRUE] ELSE open
<1>1. /\ open' = o /\ names' = names \cup ({id} \ {NoId}) /\ stack' = stack /\ said' = said
      /\ segments' = IF InSubagent THEN segments ELSE Append(segments, NewSegment("tool"))
      /\ Did([cli EXCEPT !.block = b, !.called = c])
  BY DEF Tool, ApplyTool
<1>2. /\ segments \in Seq(Segments) /\ open \in [Blocks -> OpenBlocks]
      /\ said \in Seq(PieceSet) /\ names \subseteq ToolIds
  BY DEF TurnInv, TurnTypes
<1>3. /\ i \in Blocks => Stopped(open, i) \in [Blocks -> OpenBlocks]
                         /\ NoneOpened(open, Stopped(open, i))
      /\ NoneOpened(open, open)
      /\ b \in BlockNames \X Indexes /\ b[1] \in {"tool", "none"}
      /\ b # NoBlockYet => b[2] \in Blocks
  BY <1>2, CallFacts
<1>4. SameTasks /\ cli'.block = b /\ cli'.over = cli.over
  <2>1. c \in BOOLEAN /\ (c => cli.called \/ ~cli.ids)
    <3>1. NoId \notin ToolIds
      BY DEF ToolIds, NoId
    <3> QED BY <3>1 DEF CallIds, TurnInv, TurnTypes, CliStates
  <2> HIDE DEF b, c
  <2> QED BY <1>1, <1>3, <2>1, DidFacts
<1> HIDE DEF b, c
<1>5. o \in [Blocks -> OpenBlocks] /\ NoneOpened(open, o)
  <2>1. CASE i \in Blocks
    <3> DEFINE s == Stopped(open, i)
               blk == [s[i] EXCEPT !.tool = TRUE]
    <3>1. s \in [Blocks -> OpenBlocks] /\ NoneOpened(open, s)
      BY <1>3, <2>1
    <3>2. o = [s EXCEPT ![i] = blk]
      BY <2>1
    <3> HIDE DEF s
    <3>3. s[i] \in OpenBlocks
      BY <2>1, <3>1
    <3>4. blk \in OpenBlocks /\ blk.text = s[i].text /\ blk.thinking = s[i].thinking
      BY <3>3 DEF OpenBlocks
    <3> HIDE DEF blk, o
    <3>5. o[i] = blk /\ \A j \in Blocks : j # i => o[j] = s[j]
      BY <2>1, <3>1, <3>2
    <3>6. o \in [Blocks -> OpenBlocks]
      BY <2>1, <3>1, <3>2, <3>4
    <3> QED BY <3>1, <3>4, <3>5, <3>6 DEF NoneOpened
  <2>2. CASE i \notin Blocks
    BY <1>2, <1>3, <2>2
  <2> QED BY <2>1, <2>2
<1> HIDE DEF o
<1>6. /\ segments' \in Seq(Segments) /\ OpenInv' /\ LastInv' /\ TranscriptTrue'
  <2>1. CASE ~InSubagent
    <3>1. segments' = Append(segments, NewSegment("tool")) /\ "tool" \in Headings
      BY <1>1, <2>1 DEF Headings
    <3>2. open' \in [Blocks -> OpenBlocks] /\ NoneOpened(open, open') /\ cli'.block[1] # "text"
      BY <1>1, <1>3, <1>4, <1>5
    <3>3. (ClosedEarly => ClosedEarly') /\ said' = said
      BY <1>1, <1>4 DEF SameTasks, ClosedEarly
    <3> QED BY <3>1, <3>2, <3>3, HeadingStep
  <2>2. CASE InSubagent
    <3>1. segments' = segments
      BY <1>1, <2>2
    <3>2. \A j \in Blocks : /\ WritesTo(segments, open[j].text, "text")
                            /\ WritesTo(segments, open[j].thinking, "thinking")
      BY DEF TurnInv, OpenInv
    <3>3. Keeps(segments, segments')
      BY <3>1 DEF Keeps
    <3>4. NoneOpened(open, open')
      BY <1>1, <1>5
    <3>5. \A j \in Blocks : /\ WritesTo(segments', open'[j].text, "text")
                            /\ WritesTo(segments', open'[j].thinking, "thinking")
      BY <3>2, <3>3, <3>4, WritesKept
    <3>6. OpenInv'
      BY <3>5 DEF OpenInv
    <3>7. LastInv'
      BY <1>3, <1>4 DEF LastInv
    <3>8. TranscriptTrue'
      BY <1>1, <1>4, <3>1 DEF TurnInv, TranscriptTrue, SameTasks
    <3> QED BY <1>2, <3>1, <3>6, <3>7, <3>8
  <2> QED BY <2>1, <2>2
<1>7. BlockInv'
  BY <1>3, <1>4 DEF BlockInv
<1>8. TasksInv' /\ StackInv' /\ stack' \in Seq(StackIds)
  BY <1>1, <1>4, TasksKept
<1>9. TurnTypes'
  <2>1. names' \subseteq ToolIds
    BY <1>1, <1>2 DEF CallIds
  <2> QED BY <1>1, <1>2, <1>4, <1>5, <1>6, <1>8, <2>1 DEF TurnTypes, SameTasks
<1> QED BY <1>6, <1>7, <1>8, <1>9 DEF TurnInv

\* Without ids, a result takes at most the newest entry from the stack.
LEMMA ResultOfOther ==
    ASSUME TurnInv, ~cli.ids, NEW id \in ToolIds \cup {NoId},
           stack # <<>>, ~(id \in names \/ (id # NoId /\ ~LooksLikeTask(id)))
    PROVE  PopResult(stack, id) = Front(stack)
<1>1. stack \in Seq(StackIds) /\ \A i \in DOMAIN stack : stack[i] = <<"__task", i>>
  BY DEF TurnInv, TurnTypes, StackInv, AreNumbers
<1>2. Synthetic(Last(stack))
  <2>1. Len(stack) \in DOMAIN stack
    BY <1>1, EmptySeq
  <2>2. Last(stack)[1] = "__task" /\ Last(stack) \in StackIds
    BY <1>1, <2>1 DEF Last
  <2>3. Last(stack) # <<>>
    BY <2>2, StackId DEF NoId
  <2> QED BY <2>2, <2>3 DEF Synthetic
<1>3. Pop(stack, NoId) = Front(stack)
  BY <1>2 DEF Pop
<1>4. CASE id = NoId
  BY <1>3, <1>4 DEF PopResult
<1>5. CASE id # NoId
  <2>1. Pop(stack, id) = stack
    BY <1>1, <1>5, PopTool
  <2> QED BY <1>2, <1>3, <1>5, <2>1 DEF PopResult
<1> QED BY <1>4, <1>5

\* One entry less.
LEMMA FrontFacts ==
    ASSUME NEW s \in Seq(StackIds), s # <<>>
    PROVE  /\ Front(s) \in Seq(StackIds) /\ Len(Front(s)) = Len(s) - 1
           /\ \A k \in DOMAIN Front(s) : k \in DOMAIN s /\ Front(s)[k] = s[k]
<1> DEFINE m == Len(s) - 1
<1>1. m \in Nat /\ m <= Len(s) /\ DOMAIN s = 1 .. Len(s) /\ Len(s) \in Nat
  BY EmptySeq
<1>2. Front(s) = SubSeq(s, 1, m)
  BY DEF Front
<1> HIDE DEF m
<1>3. /\ SubSeq(s, 1, m) \in Seq(StackIds) /\ Len(SubSeq(s, 1, m)) = m
      /\ \A x \in 1 .. m : SubSeq(s, 1, m)[x] = s[x]
  BY <1>1, FirstFacts
<1>4. DOMAIN Front(s) = 1 .. m /\ \A x \in 1 .. m : x \in 1 .. Len(s)
  BY <1>1, <1>2, <1>3
<1> QED BY <1>1, <1>2, <1>3, <1>4 DEF m

\* The result of a tool changes nothing that is shown.
LEMMA ToolResultKeeps ==
    ASSUME TurnInv, NEW id \in CallIds, ToolResult(id)
    PROVE  TurnInv'
<1> DEFINE g == cli.guessed \/ LikeATask(id)
<1>1. /\ segments' = segments /\ open' = open /\ names' = names /\ said' = said
      /\ Did([cli EXCEPT !.guessed = g])
      /\ stack' = (IF InSubagent THEN PopResult(stack, id) ELSE stack)
      /\ id \in names \/ cli.called
  BY DEF ToolResult, ApplyResult
<1>2. g \in BOOLEAN
  BY DEF TurnInv, TurnTypes, CliStates, LikeATask
<1>3. /\ SameTasks /\ cli'.block = cli.block /\ cli'.over = cli.over /\ cli'.guessed = g
      /\ cli'.called = cli.called
  <2>1. cli.guessed => g
    OBVIOUS
  <2> HIDE DEF g
  <2> QED BY <1>1, <1>2, <2>1, DidFacts
<1>4. stack \in Seq(StackIds) /\ names \subseteq ToolIds /\ id \in ToolIds \cup {NoId}
  BY DEF TurnInv, TurnTypes, CallIds
<1>5. CASE id \in names \/ (id # NoId /\ ~LooksLikeTask(id))
  <2>1. id \in ToolIds
    BY <1>4, <1>5
  <2>2. PopResult(stack, id) = stack
    BY <1>4, <1>5, <2>1, ResultOfTool
  <2>3. stack' = stack
    BY <1>1, <2>2
  <2> QED BY <1>1, <1>3, <1>4, <2>3, QuietStep
<1>6. CASE ~(id \in names \/ (id # NoId /\ ~LooksLikeTask(id))) /\ stack = <<>>
  <2>1. stack' = stack
    BY <1>1, <1>6 DEF InSubagent
  <2> QED BY <1>1, <1>3, <1>4, <2>1, QuietStep
<1>7. CASE ~(id \in names \/ (id # NoId /\ ~LooksLikeTask(id))) /\ stack # <<>>
  <2>1. ~cli.ids
    BY <1>1, <1>7 DEF TurnInv, StackInv
  <2>2. cli.tasks # <<>> /\ cli'.guessed
    <3>1. cli.tasks # <<>>
      BY <1>7, StackAndTasks
    <3> QED BY <1>3, <1>7, <3>1 DEF LikeATask
  <2>3. stack' = Front(stack)
    BY <1>1, <1>4, <1>7, <2>1, ResultOfOther DEF InSubagent
  <2>4. /\ stack' \in Seq(StackIds) /\ Len(stack') = Len(stack) - 1
        /\ \A k \in DOMAIN stack' : k \in DOMAIN stack /\ stack'[k] = stack[k]
    BY <1>4, <1>7, <2>3, FrontFacts
  <2>5. AreNumbers(stack', cli.tasks)
    <3>1. AreNumbers(stack, cli.tasks) /\ Len(stack) \in Nat /\ Len(cli.tasks) \in Nat
      BY <1>4, <2>1 DEF TurnInv, TurnTypes, CliStates, StackInv
    <3> QED BY <2>4, <3>1 DEF AreNumbers
  <2>6. TasksInv' /\ StackInv'
    <3>1. TasksInv'
      BY <1>3 DEF TurnInv, TasksInv, SameTasks
    <3>2. StackInv'
      BY <1>3, <2>1, <2>2, <2>5 DEF StackInv, SameTasks
    <3> QED BY <3>1, <3>2
  <2>7. TurnTypes'
    BY <1>1, <1>3, <2>4 DEF TurnInv, TurnTypes, SameTasks
  <2>8. OpenInv' /\ LastInv' /\ BlockInv'
    BY <1>1, <1>3 DEF TurnInv, OpenInv, LastInv, BlockInv, SameTasks
  <2>9. TranscriptTrue'
    BY <1>1, <1>3, <2>2 DEF TurnInv, TranscriptTrue
  <2> QED BY <2>6, <2>7, <2>8, <2>9 DEF TurnInv
<1> QED BY <1>5, <1>6, <1>7

\* An error is shown.
LEMMA ErrorShown ==
    ASSUME TurnInv, ApplyError, said' = said, SameTasks, cli'.block = cli.block,
           cli.over => cli'.over
    PROVE  TurnInv'
<1>1. /\ segments' = Append(segments, NewSegment("error")) /\ "error" \in Headings
      /\ open' = open /\ names' = names /\ stack' = stack
  BY DEF ApplyError, Headings
<1>2. open \in [Blocks -> OpenBlocks] /\ said \in Seq(PieceSet) /\ names \subseteq ToolIds
  BY DEF TurnInv, TurnTypes
<1>3. NoneOpened(open, open') /\ open' \in [Blocks -> OpenBlocks]
  BY <1>1, <1>2 DEF NoneOpened
<1>4. ClosedEarly => ClosedEarly'
  BY DEF SameTasks, ClosedEarly
<1>5. segments' \in Seq(Segments) /\ OpenInv' /\ LastInv' /\ TranscriptTrue'
  BY <1>1, <1>3, <1>4, HeadingStep
<1>6. BlockInv'
  BY DEF TurnInv, BlockInv, SameTasks
<1>7. TasksInv' /\ StackInv' /\ stack' \in Seq(StackIds)
  BY <1>1, TasksKept
<1>8. TurnTypes'
  BY <1>1, <1>2, <1>3, <1>5, <1>7 DEF TurnTypes, SameTasks
<1> QED BY <1>5, <1>6, <1>7, <1>8 DEF TurnInv

\* The turn ends.
LEMMA OverFacts ==
    ASSUME TurnInv, NEW status \in Endings, cli' = [cli EXCEPT !.over = TRUE, !.ended = status]
    PROVE  SameTasks /\ cli'.block = cli.block /\ cli'.over /\ cli'.ended = status
<1> DEFINE W == BlockNames \X Indexes
           E == Endings \cup {"none"}
<1>1. cli \in CliStates /\ status \in E
  BY DEF TurnInv, TurnTypes
<1>2. CliStates = [tasks : Seq(Nat), made : Nat, ids : BOOLEAN, streams : BOOLEAN, block : W,
                   events : Nat, over : BOOLEAN, ended : E, overtaken : BOOLEAN,
                   called : BOOLEAN, guessed : BOOLEAN]
  BY DEF CliStates
<1> HIDE DEF W, E
<1> QED BY <1>1, <1>2 DEF SameTasks

\* Nothing happens to the transcript.
LEMMA NothingShown ==
    ASSUME TurnInv, UNCHANGED bufferVars, said' = said, SameTasks, cli'.block = cli.block,
           cli.over => cli'.over
    PROVE  TurnInv'
<1>1. segments' = segments /\ open' = open /\ names' = names /\ stack' = stack
  BY DEF bufferVars
<1>2. names' \subseteq ToolIds
  BY <1>1 DEF TurnInv, TurnTypes
<1> QED BY <1>1, <1>2, QuietStep

\* An error event, an exception and a cancellation.
LEMMA ErrorKeeps ==
    ASSUME TurnInv, ErrorEvent
    PROVE  TurnInv'
<1>1. ApplyError /\ said' = said /\ Did(cli)
  BY DEF ErrorEvent
<1>2. SameTasks /\ cli'.block = cli.block /\ cli'.over = cli.over
  BY <1>1, DidFacts
<1> QED BY <1>1, <1>2, ErrorShown

\* The end of the turn.
LEMMA EndsWithKeeps ==
    ASSUME TurnInv, NEW status \in Endings, EndsWith(status)
    PROVE  TurnInv'
<1>1. said' = said /\ cli' = [cli EXCEPT !.over = TRUE, !.ended = status]
  BY DEF EndsWith
<1>2. SameTasks /\ cli'.block = cli.block /\ cli'.over
  BY <1>1, OverFacts
<1>3. UNCHANGED bufferVars \/ ApplyError
  BY DEF EndsWith
<1> QED BY <1>1, <1>2, <1>3, NothingShown, ErrorShown

\* A CLI that exits.
LEMMA ExitKeeps ==
    ASSUME TurnInv, Exit
    PROVE  TurnInv'
<1> DEFINE p == <<"done", 0>>
<1>1. said' = said /\ cli' = [cli EXCEPT !.over = TRUE, !.ended = "complete"]
  BY DEF Exit
<1>2. SameTasks /\ cli'.block = cli.block /\ cli'.over /\ (ClosedEarly => ClosedEarly')
  <2>1. "complete" \in Endings
    BY DEF Endings
  <2> QED BY <1>1, <2>1, OverFacts DEF SameTasks, ClosedEarly
<1>3. ApplyError \/ UNCHANGED bufferVars \/ (~InSubagent /\ ApplyDelta("text", -1, p))
  BY DEF Exit, ApplyDelta
<1>4. CASE ApplyError
  BY <1>1, <1>2, <1>4, ErrorShown
<1>5. CASE UNCHANGED bufferVars
  BY <1>1, <1>2, <1>5, NothingShown
<1>6. CASE ~InSubagent /\ ApplyDelta("text", -1, p)
  <2>1. /\ segments' = Append(segments, [kind |-> "text", parts |-> <<p>>])
        /\ open' = open /\ names' = names /\ stack' = stack
    BY <1>6, NoIndex DEF ApplyDelta
  <2>2. p \in PieceSet /\ p[1] = "done"
    BY DEF PieceSet
  <2> HIDE DEF p
  <2>3. /\ segments' \in Seq(Segments) /\ said' \in Seq(PieceSet) /\ TranscriptTrue'
        /\ Keeps(segments, segments')
    <3>1. p[1] # "sub" /\ said' = IF p[1] = "main" /\ "text" = "text" THEN Append(said, p) ELSE said
      BY <1>1, <2>2
    <3>2. "text" \in {"text", "thinking"}
      OBVIOUS
    <3> QED BY <1>2, <2>1, <2>2, <3>1, <3>2, FreshStep
  <2>4. OpenInv'
    <3>1. \A i \in Blocks : /\ WritesTo(segments, open[i].text, "text")
                            /\ WritesTo(segments, open[i].thinking, "thinking")
      BY DEF TurnInv, OpenInv
    <3>2. NoneOpened(open, open')
      BY <2>1 DEF NoneOpened
    <3>3. \A i \in Blocks : /\ WritesTo(segments', open'[i].text, "text")
                            /\ WritesTo(segments', open'[i].thinking, "thinking")
      BY <2>3, <3>1, <3>2, WritesKept
    <3> QED BY <3>3 DEF OpenInv
  <2>5. LastInv' /\ BlockInv'
    BY <1>2 DEF TurnInv, LastInv, BlockInv, SameTasks
  <2>6. TasksInv' /\ StackInv' /\ stack' \in Seq(StackIds)
    BY <1>2, <2>1, TasksKept
  <2>7. TurnTypes'
    BY <1>2, <2>1, <2>3, <2>6 DEF TurnInv, TurnTypes, SameTasks
  <2> QED BY <2>3, <2>4, <2>5, <2>6, <2>7 DEF TurnInv
<1> QED BY <1>3, <1>4, <1>5, <1>6

\* A second passes.
LEMMA TickKeeps ==
    ASSUME TurnInv, Tick
    PROVE  TurnInv'
<1>1. cli' = cli /\ said' = said /\ UNCHANGED bufferVars
  BY DEF Tick, cliVars
<1>2. SameTasks
  BY <1>1 DEF TurnInv, TurnTypes, SameTasks
<1> QED BY <1>1, <1>2, NothingShown

\* A task starts.
LEMMA TaskStarts ==
    ASSUME TurnInv, NEW n, n = cli.made + 1, cli' \in CliStates,
           cli'.tasks = Append(cli.tasks, n), cli'.made = n,
           cli'.ids = cli.ids, cli'.overtaken = cli.overtaken,
           cli'.called = cli.called, cli'.guessed = cli.guessed,
           stack' = Push(stack, IF cli.ids THEN <<"task", n>> ELSE NoId)
    PROVE  TasksInv' /\ StackInv' /\ stack' \in Seq(StackIds)
<1> DEFINE id == IF cli.ids THEN <<"task", n>> ELSE <<"__task", Len(stack) + 1>>
           T == Len(cli.tasks)
           S == Len(stack)
<1>1. /\ stack \in Seq(StackIds) /\ cli.tasks \in Seq(Nat) /\ cli.made \in Nat /\ n \in Nat
      /\ T \in Nat /\ S \in Nat /\ DOMAIN cli.tasks = 1 .. T /\ DOMAIN stack = 1 .. S
  BY DEF TurnInv, TurnTypes, CliStates
<1>2. /\ \A j \in 1 .. T : cli.tasks[j] <= cli.made /\ cli.tasks[j] \in Nat
      /\ \A i, j \in 1 .. T : i < j => cli.tasks[i] < cli.tasks[j]
  <2>1. /\ \A j \in DOMAIN cli.tasks : cli.tasks[j] <= cli.made
        /\ \A i, j \in DOMAIN cli.tasks : i < j => cli.tasks[i] < cli.tasks[j]
    BY DEF TurnInv, TasksInv
  <2>2. ASSUME NEW j \in 1 .. T PROVE j \in DOMAIN cli.tasks /\ cli.tasks[j] \in Nat
    <3>1. j \in DOMAIN cli.tasks
      BY <1>1
    <3> HIDE DEF T
    <3> QED BY <1>1, <3>1
  <2> QED BY <2>1, <2>2
<1>3. stack' = Append(stack, id)
  <2>1. <<"task", n>> # NoId
    BY DEF NoId
  <2> QED BY <2>1 DEF Push
<1>4. id \in StackIds
  BY <1>1 DEF StackIds
<1>5. id = IF cli.ids THEN <<"task", n>> ELSE <<"__task", S + 1>>
  OBVIOUS
<1> HIDE DEF id
<1>6. /\ stack' \in Seq(StackIds) /\ Len(stack') = S + 1 /\ DOMAIN stack' = 1 .. (S + 1)
      /\ (\A k \in 1 .. S : stack'[k] = stack[k]) /\ stack'[S + 1] = id
  <2>1. /\ Append(stack, id) \in Seq(StackIds) /\ Len(Append(stack, id)) = S + 1
        /\ (\A k \in 1 .. S : Append(stack, id)[k] = stack[k]) /\ Append(stack, id)[S + 1] = id
    BY <1>1, <1>4, AppendProperties
  <2>2. DOMAIN Append(stack, id) = 1 .. (S + 1)
    BY <2>1
  <2> QED BY <1>3, <2>1, <2>2
<1>7. /\ Len(cli'.tasks) = T + 1 /\ DOMAIN cli'.tasks = 1 .. (T + 1)
      /\ (\A k \in 1 .. T : cli'.tasks[k] = cli.tasks[k]) /\ cli'.tasks[T + 1] = n
  <2>1. /\ Append(cli.tasks, n) \in Seq(Nat) /\ Len(Append(cli.tasks, n)) = T + 1
        /\ (\A k \in 1 .. T : Append(cli.tasks, n)[k] = cli.tasks[k])
        /\ Append(cli.tasks, n)[T + 1] = n
    BY <1>1, AppendProperties
  <2> QED BY <1>1, <2>1
<1> HIDE DEF T, S
<1>8. \A k \in 1 .. (T + 1) : k = T + 1 \/ k \in 1 .. T
  BY <1>1
<1>9. \A k \in 1 .. (S + 1) : k = S + 1 \/ k \in 1 .. S
  BY <1>1
<1>10. \A j \in 1 .. T : cli.tasks[j] < n
  BY <1>1, <1>2
<1>11. TasksInv'
  <2>1. \A j \in 1 .. (T + 1) : cli'.tasks[j] <= n
    BY <1>1, <1>2, <1>7, <1>8, <1>10
  <2>2. \A i, j \in 1 .. (T + 1) : i < j => cli'.tasks[i] < cli'.tasks[j]
    <3> SUFFICES ASSUME NEW i \in 1 .. (T + 1), NEW j \in 1 .. (T + 1), i < j
                 PROVE  cli'.tasks[i] < cli'.tasks[j]
      OBVIOUS
    <3>1. i \in 1 .. T
      BY <1>1
    <3>2. CASE j = T + 1
      BY <1>7, <1>10, <3>1, <3>2
    <3>3. CASE j \in 1 .. T
      BY <1>2, <1>7, <3>1, <3>3
    <3> QED BY <1>8, <3>2, <3>3
  <2> QED BY <1>7, <2>1, <2>2 DEF TasksInv
<1>12. cli.ids => OfTasks(stack', cli'.tasks) /\ Distinct(stack')
  <2> SUFFICES ASSUME cli.ids PROVE OfTasks(stack', cli'.tasks) /\ Distinct(stack')
    OBVIOUS
  <2>1. \A k \in 1 .. S : \E j \in 1 .. T : stack[k] = <<"task", cli.tasks[j]>>
    BY <1>1 DEF TurnInv, StackInv, OfTasks, S, T
  <2>2. \A k, l \in 1 .. S : stack[k] = stack[l] => k = l
    BY <1>1 DEF TurnInv, StackInv, Distinct
  <2>3. id = <<"task", n>>
    BY <1>5
  <2>4. \A k \in 1 .. S : stack[k] # id
    <3>1. \A m \in Nat : m < n => <<"task", m>> # <<"task", n>>
      BY <1>1
    <3> QED BY <1>2, <1>10, <2>1, <2>3, <3>1
  <2>5. Distinct(stack')
    <3>1. ASSUME NEW k \in 1 .. (S + 1), NEW l \in 1 .. (S + 1), stack'[k] = stack'[l]
          PROVE  k = l
      <4>1. CASE k \in 1 .. S /\ l \in 1 .. S
        BY <1>6, <2>2, <3>1, <4>1
      <4>2. CASE k = S + 1 /\ l \in 1 .. S
        BY <1>6, <2>4, <3>1, <4>2
      <4>3. CASE k \in 1 .. S /\ l = S + 1
        BY <1>6, <2>4, <3>1, <4>3
      <4> QED BY <1>9, <4>1, <4>2, <4>3
    <3> QED BY <1>6, <3>1 DEF Distinct
  <2>6. \A j \in 1 .. T : j \in 1 .. (T + 1)
    BY <1>1
  <2>7. T + 1 \in 1 .. (T + 1)
    BY <1>1
  <2>8. ASSUME NEW k \in 1 .. (S + 1)
        PROVE  \E j \in 1 .. (T + 1) : stack'[k] = <<"task", cli'.tasks[j]>>
    <3>1. CASE k = S + 1
      <4>1. stack'[k] = <<"task", cli'.tasks[T + 1]>>
        BY <1>6, <1>7, <2>3, <3>1
      <4> QED BY <2>7, <4>1
    <3>2. CASE k \in 1 .. S
      <4>1. PICK j \in 1 .. T : stack[k] = <<"task", cli.tasks[j]>>
        BY <2>1, <3>2
      <4>2. stack'[k] = <<"task", cli'.tasks[j]>>
        BY <1>6, <1>7, <3>2, <4>1
      <4> QED BY <2>6, <4>1, <4>2
    <3> QED BY <1>9, <3>1, <3>2
  <2>9. OfTasks(stack', cli'.tasks)
    BY <1>6, <1>7, <2>8 DEF OfTasks
  <2> QED BY <2>5, <2>9
<1>13. cli.ids /\ ~cli.overtaken => AreTasks(stack', cli'.tasks)
  <2> SUFFICES ASSUME cli.ids, ~cli.overtaken PROVE AreTasks(stack', cli'.tasks)
    OBVIOUS
  <2>1. S = T /\ \A k \in 1 .. S : stack[k] = <<"task", cli.tasks[k]>>
    BY <1>1 DEF TurnInv, StackInv, AreTasks, S, T
  <2> QED BY <1>5, <1>6, <1>7, <1>9, <2>1 DEF AreTasks
<1>14. ~cli.ids => AreNumbers(stack', cli'.tasks) /\ (~cli.guessed => Len(stack') = Len(cli'.tasks))
  <2> SUFFICES ASSUME ~cli.ids
               PROVE  /\ AreNumbers(stack', cli'.tasks)
                      /\ ~cli.guessed => Len(stack') = Len(cli'.tasks)
    OBVIOUS
  <2>1. /\ S <= T /\ \A k \in 1 .. S : stack[k] = <<"__task", k>>
        /\ ~cli.guessed => S = T
    BY <1>1 DEF TurnInv, StackInv, AreNumbers, S, T
  <2>2. \A k \in 1 .. (S + 1) : stack'[k] = <<"__task", k>>
    BY <1>5, <1>6, <1>9, <2>1
  <2>3. AreNumbers(stack', cli'.tasks)
    <3>1. Len(stack') <= Len(cli'.tasks)
      BY <1>1, <1>6, <1>7, <2>1
    <3>2. \A k \in DOMAIN stack' : stack'[k] = <<"__task", k>>
      BY <1>6, <2>2
    <3> QED BY <3>1, <3>2 DEF AreNumbers
  <2> QED BY <1>1, <1>6, <1>7, <2>1, <2>3
<1>15. cli'.called => ~cli'.ids
  BY DEF TurnInv, StackInv
<1> QED BY <1>6, <1>11, <1>12, <1>13, <1>14, <1>15 DEF StackInv

\* The main agent starts a subagent.
LEMMA TaskKeeps ==
    ASSUME TurnInv, NEW i \in Indexes, Task(i)
    PROVE  TurnInv'
<1> DEFINE n == cli.made + 1
           b == Then(i)
           id == IF cli.ids THEN <<"task", n>> ELSE NoId
           ts == Append(cli.tasks, n)
<1>1. /\ open' = (IF i \in Blocks THEN Stopped(open, i) ELSE open)
      /\ segments' = Append(segments, NewSegment("subagent"))
      /\ stack' = Push(stack, id) /\ names' = names /\ said' = said
      /\ cli' = [cli EXCEPT !.made = @ + 1, !.tasks = Append(@, n), !.block = b,
                            !.events = @ + 1]
  BY DEF Task, ApplyTask, Did
<1>2. /\ segments \in Seq(Segments) /\ open \in [Blocks -> OpenBlocks]
      /\ said \in Seq(PieceSet) /\ names \subseteq ToolIds /\ cli \in CliStates
  BY DEF TurnInv, TurnTypes
<1>3. /\ i \in Blocks => Stopped(open, i) \in [Blocks -> OpenBlocks]
                         /\ NoneOpened(open, Stopped(open, i))
      /\ NoneOpened(open, open)
      /\ b \in BlockNames \X Indexes /\ b[1] \in {"tool", "none"}
      /\ b # NoBlockYet => b[2] \in Blocks
  BY <1>2, CallFacts
<1>4. n \in Nat /\ cli.events + 1 \in Nat /\ ts \in Seq(Nat)
  <2>1. cli.made \in Nat /\ cli.events \in Nat /\ cli.tasks \in Seq(Nat)
    BY <1>2 DEF CliStates
  <2> QED BY <2>1, AppendProperties
<1>5. cli' = [cli EXCEPT !.made = n, !.tasks = ts, !.block = b, !.events = cli.events + 1]
  BY <1>1
<1> HIDE DEF b, ts
<1>6. /\ cli' \in CliStates /\ cli'.tasks = ts /\ cli'.made = n /\ cli'.ids = cli.ids
      /\ cli'.overtaken = cli.overtaken /\ cli'.block = b
      /\ cli'.called = cli.called /\ cli'.guessed = cli.guessed
  <2> DEFINE W == BlockNames \X Indexes
             Q == Seq(Nat)
             E == Endings \cup {"none"}
  <2>1. b \in W /\ ts \in Q
    BY <1>3, <1>4
  <2>2. CliStates = [tasks : Q, made : Nat, ids : BOOLEAN, streams : BOOLEAN, block : W,
                     events : Nat, over : BOOLEAN, ended : E, overtaken : BOOLEAN,
                     called : BOOLEAN, guessed : BOOLEAN]
    BY DEF CliStates
  <2> HIDE DEF W, Q, E, n
  <2> QED BY <1>2, <1>4, <1>5, <2>1, <2>2
<1>7. TasksInv' /\ StackInv' /\ stack' \in Seq(StackIds)
  <2>1. cli'.tasks = Append(cli.tasks, n)
    BY <1>6 DEF ts
  <2>2. stack' = Push(stack, IF cli.ids THEN <<"task", n>> ELSE NoId)
    BY <1>1
  <2>3. n = cli.made + 1
    OBVIOUS
  <2> HIDE DEF n, id
  <2> QED BY <1>6, <2>1, <2>2, <2>3, TaskStarts
<1> HIDE DEF n, id
<1>8. open' \in [Blocks -> OpenBlocks] /\ NoneOpened(open, open')
  BY <1>1, <1>2, <1>3
<1>9. segments' \in Seq(Segments) /\ OpenInv' /\ LastInv' /\ TranscriptTrue'
  <2>1. "subagent" \in Headings /\ cli'.block[1] # "text" /\ (ClosedEarly => ClosedEarly')
    BY <1>3, <1>6 DEF Headings, ClosedEarly
  <2> QED BY <1>1, <1>6, <1>8, <2>1, HeadingStep
<1>10. BlockInv'
  BY <1>3, <1>6 DEF BlockInv
<1>11. TurnTypes'
  BY <1>1, <1>2, <1>6, <1>7, <1>8, <1>9 DEF TurnTypes
<1> QED BY <1>7, <1>9, <1>10, <1>11 DEF TurnInv

\* A task ends.
LEMMA TaskEnds ==
    ASSUME TurnInv, NEW k \in DOMAIN cli.tasks, NEW id \in ResultIds(cli.tasks[k]),
           cli'.tasks = RemoveAt(cli.tasks, k), cli'.made = cli.made, cli'.ids = cli.ids,
           cli'.overtaken = (cli.overtaken \/ k < Len(cli.tasks)),
           cli'.called = cli.called, cli'.guessed = cli.guessed,
           stack' = IF InSubagent THEN PopResult(stack, id) ELSE stack
    PROVE  TasksInv' /\ StackInv' /\ stack' \in Seq(StackIds) /\ cli'.tasks \in Seq(Nat)
<1> DEFINE T == Len(cli.tasks)
           S == Len(stack)
           t == cli.tasks[k]
           r == RemoveAt(cli.tasks, k)
<1>1. /\ stack \in Seq(StackIds) /\ cli.tasks \in Seq(Nat) /\ names \subseteq ToolIds
      /\ T \in Nat /\ S \in Nat /\ DOMAIN cli.tasks = 1 .. T /\ DOMAIN stack = 1 .. S
      /\ cli.ids \in BOOLEAN /\ cli.overtaken \in BOOLEAN
  BY DEF TurnInv, TurnTypes, CliStates
<1>2. k \in 1 .. T /\ t \in Nat
  BY <1>1
<1>3. /\ \A j \in 1 .. T : cli.tasks[j] <= cli.made /\ cli.tasks[j] \in Nat
      /\ \A i, j \in 1 .. T : i < j => cli.tasks[i] < cli.tasks[j]
  <2>1. /\ \A j \in DOMAIN cli.tasks : cli.tasks[j] <= cli.made
        /\ \A i, j \in DOMAIN cli.tasks : i < j => cli.tasks[i] < cli.tasks[j]
    BY DEF TurnInv, TasksInv
  <2>2. \A j \in 1 .. T : j \in DOMAIN cli.tasks /\ cli.tasks[j] \in Nat
    BY <1>1
  <2> QED BY <2>1, <2>2
<1>4. /\ r \in Seq(Nat) /\ Len(r) = T - 1
      /\ \A i \in 1 .. (T - 1) : r[i] = IF i < k THEN cli.tasks[i] ELSE cli.tasks[i + 1]
  BY <1>1, <1>2, RemovedFacts
<1>5. cli'.tasks = r
  OBVIOUS
<1> HIDE DEF r
<1>6. DOMAIN r = 1 .. (T - 1)
  BY <1>1, <1>2, <1>4
<1> HIDE DEF T, S, t
<1>7. \A i \in 1 .. (T - 1) : /\ i \in 1 .. T /\ i + 1 \in 1 .. T
                             /\ (r[i] = cli.tasks[i] \/ r[i] = cli.tasks[i + 1])
  BY <1>1, <1>4
<1>8. \A j \in 1 .. T : j # k => \E m \in 1 .. (T - 1) : r[m] = cli.tasks[j]
  <2> SUFFICES ASSUME NEW j \in 1 .. T, j # k PROVE \E m \in 1 .. (T - 1) : r[m] = cli.tasks[j]
    OBVIOUS
  <2>1. CASE j < k
    <3>1. j \in 1 .. (T - 1) /\ r[j] = cli.tasks[j]
      BY <1>1, <1>2, <1>4, <2>1
    <3> QED BY <3>1
  <2>2. CASE j > k
    <3> DEFINE m == j - 1
    <3>1. m \in 1 .. (T - 1) /\ ~(m < k) /\ m + 1 = j
      BY <1>1, <1>2, <2>2
    <3> HIDE DEF m
    <3>2. r[m] = cli.tasks[j]
      BY <1>4, <3>1
    <3> QED BY <3>1, <3>2
  <2> QED BY <1>1, <1>2, <2>1, <2>2
<1>9. TasksInv'
  <2>1. ASSUME NEW j \in 1 .. (T - 1) PROVE r[j] <= cli.made
    <3>1. /\ j \in 1 .. T /\ j + 1 \in 1 .. T
          /\ (r[j] = cli.tasks[j] \/ r[j] = cli.tasks[j + 1])
      BY <1>7
    <3>2. cli.tasks[j] <= cli.made /\ cli.tasks[j + 1] <= cli.made
      BY <1>3, <3>1
    <3> QED BY <3>1, <3>2
  <2>2. ASSUME NEW i \in 1 .. (T - 1), NEW j \in 1 .. (T - 1), i < j
        PROVE  r[i] < r[j]
    <3> DEFINE p == IF i < k THEN i ELSE i + 1
               q == IF j < k THEN j ELSE j + 1
    <3>1. p \in 1 .. T /\ q \in 1 .. T /\ p < q
      BY <1>1, <1>2, <2>2
    <3>2. r[i] = cli.tasks[p] /\ r[j] = cli.tasks[q]
      BY <1>4
    <3> HIDE DEF p, q
    <3> QED BY <1>3, <3>1, <3>2
  <2>3. \A j \in DOMAIN cli'.tasks : cli'.tasks[j] <= cli'.made
    BY <1>5, <1>6, <2>1
  <2>4. \A i, j \in DOMAIN cli'.tasks : i < j => cli'.tasks[i] < cli'.tasks[j]
    BY <1>5, <1>6, <2>2
  <2> QED BY <2>3, <2>4 DEF TasksInv
<1>12. cli'.called => ~cli'.ids
  BY DEF TurnInv, StackInv
<1>10. CASE cli.ids
  <2>1. /\ \A x \in 1 .. S : \E j \in 1 .. T : stack[x] = <<"task", cli.tasks[j]>>
        /\ \A x, y \in 1 .. S : stack[x] = stack[y] => x = y
        /\ ~cli.overtaken => S = T /\ \A x \in 1 .. S : stack[x] = <<"task", cli.tasks[x]>>
    <3>1. OfTasks(stack, cli.tasks) /\ Distinct(stack)
          /\ (~cli.overtaken => AreTasks(stack, cli.tasks))
      BY <1>10 DEF TurnInv, StackInv
    <3> QED BY <1>1, <3>1 DEF OfTasks, Distinct, AreTasks, S, T
  <2>2. id \in TaskIds(t)
    BY <1>10 DEF ResultIds, TaskIds, t
  \* Entries of other tasks are still of running ones.
  <2>3. ASSUME NEW x \in 1 .. S, stack[x] # <<"task", t>>
        PROVE  \E m \in 1 .. (T - 1) : stack[x] = <<"task", r[m]>>
    <3>1. PICK j \in 1 .. T : stack[x] = <<"task", cli.tasks[j]>>
      BY <2>1
    <3>2. j # k
      BY <2>3, <3>1 DEF t
    <3>3. PICK m \in 1 .. (T - 1) : r[m] = cli.tasks[j]
      BY <1>8, <3>2
    <3> QED BY <3>1, <3>3
  <2>4. CASE stack' = stack /\ \A x \in 1 .. S : stack[x] # <<"task", t>>
    <3>1. OfTasks(stack', r) /\ Distinct(stack')
      <4>1. \A x \in 1 .. S : \E m \in 1 .. (T - 1) : stack[x] = <<"task", r[m]>>
        BY <2>3, <2>4
      <4>2. OfTasks(stack, r)
        BY <1>1, <1>6, <4>1 DEF OfTasks
      <4>3. Distinct(stack)
        BY <1>1, <2>1 DEF Distinct
      <4> QED BY <2>4, <4>2, <4>3
    <3>2. cli.overtaken
      <4>1. ASSUME ~cli.overtaken PROVE FALSE
        <5>1. k \in 1 .. S /\ stack[k] = <<"task", t>>
          BY <1>2, <2>1, <4>1 DEF t
        <5> QED BY <2>4, <5>1
      <4> QED BY <4>1
    <3> QED BY <1>1, <1>4, <1>5, <1>9, <1>10, <1>12, <2>4, <3>1, <3>2 DEF StackInv
  <2>5. CASE \E h \in 1 .. S : stack[h] = <<"task", t>> /\ stack' = SubSeq(stack, 1, h - 1)
    <3>1. PICK h \in 1 .. S : stack[h] = <<"task", t>> /\ stack' = SubSeq(stack, 1, h - 1)
      BY <2>5
    <3> DEFINE m == h - 1
    <3>2. m \in Nat /\ m <= S /\ m < h /\ h = m + 1
      BY <1>1
    <3> HIDE DEF m
    <3>3. stack' \in Seq(StackIds) /\ Len(stack') = m /\ \A x \in 1 .. m : stack'[x] = stack[x]
      <4>1. stack' = SubSeq(stack, 1, m)
        BY <3>1 DEF m
      <4>2. m <= Len(stack)
        BY <3>2 DEF S
      <4>3. /\ SubSeq(stack, 1, m) \in Seq(StackIds) /\ Len(SubSeq(stack, 1, m)) = m
            /\ \A x \in 1 .. m : SubSeq(stack, 1, m)[x] = stack[x]
        BY <1>1, <3>2, <4>2, FirstFacts
      <4> QED BY <4>1, <4>3
    <3>4. DOMAIN stack' = 1 .. m
      BY <3>2, <3>3
    <3>5. \A x \in 1 .. m : x \in 1 .. S /\ x # h
      BY <1>1, <3>2
    <3>6. \A x \in 1 .. m : stack[x] # <<"task", t>>
      BY <2>1, <3>1, <3>5
    <3>7. Distinct(stack')
      BY <2>1, <3>3, <3>4, <3>5 DEF Distinct
    <3>8. OfTasks(stack', r)
      <4>1. \A x \in 1 .. m : \E j \in 1 .. (T - 1) : stack[x] = <<"task", r[j]>>
        BY <2>3, <3>5, <3>6
      <4>2. \A x \in 1 .. m : \E j \in 1 .. (T - 1) : stack'[x] = <<"task", r[j]>>
        BY <3>3, <4>1
      <4> QED BY <1>6, <3>4, <4>2 DEF OfTasks
    <3>9. ASSUME ~cli.overtaken, ~(k < T) PROVE AreTasks(stack', r)
      <4>1. k = T /\ S = T
        BY <1>1, <1>2, <2>1, <3>9
      <4>2. stack[h] = <<"task", cli.tasks[h]>> /\ h \in 1 .. T
        BY <2>1, <3>9, <4>1
      <4>3. cli.tasks[h] = cli.tasks[k]
        BY <3>1, <4>2 DEF t
      <4>4. h = k
        <5>1. h \in Nat /\ k \in Nat /\ cli.tasks[h] \in Nat
          BY <1>1, <1>2, <1>3, <4>2
        <5>2. ~(h < k) /\ ~(k < h)
          BY <1>2, <1>3, <4>2, <4>3, <5>1
        <5> QED BY <5>1, <5>2
      <4>5. m = T - 1
        BY <3>2, <4>1, <4>4
      <4>6. \A x \in 1 .. m : r[x] = cli.tasks[x]
        BY <1>1, <1>4, <4>1, <4>5
      <4> QED BY <1>4, <2>1, <3>3, <3>4, <3>5, <3>9, <4>5, <4>6 DEF AreTasks
    <3> QED BY <1>1, <1>4, <1>5, <1>9, <1>10, <1>12, <3>3, <3>7, <3>8, <3>9 DEF StackInv, T
  <2>6. CASE stack = <<>>
    <3>1. stack' = stack /\ S = 0
      BY <2>6 DEF InSubagent, S
    <3>2. \A x \in 1 .. S : stack[x] # <<"task", t>>
      BY <3>1
    <3> QED BY <2>4, <3>1, <3>2
  <2>7. CASE stack # <<>>
    <3>1. stack' = PopResult(stack, id)
      BY <2>7 DEF InSubagent
    <3>2. \A x, y \in DOMAIN stack : stack[x] = stack[y] => x = y
      BY <1>1, <2>1
    <3>3. \A x \in DOMAIN stack : stack[x][1] = "task"
      BY <1>1, <2>1
    <3>4. \/ PopResult(stack, id) = stack /\ \A x \in DOMAIN stack : stack[x] # <<"task", t>>
          \/ \E h \in DOMAIN stack : stack[h] = <<"task", t>>
                                     /\ PopResult(stack, id) = SubSeq(stack, 1, h - 1)
      BY <1>1, <2>2, <3>2, <3>3, ResultOfTask
    <3> QED BY <1>1, <2>4, <2>5, <3>1, <3>4
  <2> QED BY <2>6, <2>7
<1>11. CASE ~cli.ids
  <2>1. /\ S <= T /\ \A x \in 1 .. S : stack[x] = <<"__task", x>>
        /\ ~cli.guessed => S = T
    <3>1. AreNumbers(stack, cli.tasks) /\ (~cli.guessed => Len(stack) = Len(cli.tasks))
      BY <1>11 DEF TurnInv, StackInv
    <3> QED BY <1>1, <3>1 DEF AreNumbers, S, T
  <2>2. id \in {NoId, <<"task", t>>}
    BY <1>11 DEF ResultIds, t
  <2>3. id \notin names
    <3>1. id \notin ToolIds
      <4>1. <<"task", t>> \notin ToolIds /\ NoId \notin ToolIds
        BY DEF ToolIds, NoId
      <4> QED BY <2>2, <4>1
    <3> QED BY <1>1, <3>1
  <2>4. CASE stack = <<>>
    <3>1. stack' = stack /\ S = 0
      BY <2>4 DEF InSubagent, S
    <3>2. AreNumbers(stack', r)
      BY <1>1, <1>2, <1>4, <2>1, <3>1 DEF AreNumbers, S
    <3>3. cli.guessed
      BY <1>1, <1>2, <2>1, <3>1 DEF TurnInv, TurnTypes, CliStates
    <3> QED BY <1>1, <1>4, <1>5, <1>9, <1>11, <1>12, <3>1, <3>2, <3>3 DEF StackInv
  <2>5. CASE stack # <<>>
    <3>1. \A x \in DOMAIN stack : stack[x][1] = "__task"
      BY <1>1, <2>1
    <3>2. PopResult(stack, id) = Front(stack)
      BY <1>1, <2>2, <2>3, <2>5, <3>1, ResultWithoutId
    <3>3. stack' = Front(stack)
      BY <2>5, <3>2 DEF InSubagent
    <3>4. /\ stack' \in Seq(StackIds) /\ Len(stack') = S - 1
          /\ \A x \in DOMAIN stack' : x \in DOMAIN stack /\ stack'[x] = stack[x]
      BY <1>1, <2>5, <3>3, FrontFacts DEF S
    <3>5. AreNumbers(stack', r)
      BY <1>1, <1>4, <2>1, <3>4 DEF AreNumbers
    <3>6. ~cli.guessed => Len(stack') = Len(r)
      BY <1>1, <1>4, <2>1, <3>4
    <3> QED BY <1>4, <1>5, <1>9, <1>11, <1>12, <3>4, <3>5, <3>6 DEF StackInv
  <2> QED BY <2>4, <2>5
<1> QED BY <1>1, <1>10, <1>11

\* The result of a task.
LEMMA TaskResultKeeps ==
    ASSUME TurnInv, NEW k \in DOMAIN cli.tasks, NEW id \in ResultIds(cli.tasks[k]), TaskResult(k, id)
    PROVE  TurnInv'
<1> DEFINE r == RemoveAt(cli.tasks, k)
           over == cli.overtaken \/ k < Len(cli.tasks)
<1>1. /\ segments' = segments /\ open' = open /\ names' = names /\ said' = said
      /\ stack' = (IF InSubagent THEN PopResult(stack, id) ELSE stack)
      /\ cli' = [cli EXCEPT !.tasks = r, !.overtaken = over, !.events = @ + 1]
  BY DEF TaskResult, ApplyResult, Did
<1>2. /\ segments \in Seq(Segments) /\ open \in [Blocks -> OpenBlocks]
      /\ said \in Seq(PieceSet) /\ names \subseteq ToolIds /\ cli \in CliStates
  BY DEF TurnInv, TurnTypes
<1>3. cli.tasks \in Seq(Nat) /\ cli.events + 1 \in Nat /\ cli.overtaken \in BOOLEAN
  BY <1>2 DEF CliStates
<1>4. cli'.tasks = r /\ cli'.made = cli.made /\ cli'.ids = cli.ids /\ cli'.overtaken = over
      /\ cli'.block = cli.block /\ cli'.over = cli.over
      /\ cli'.called = cli.called /\ cli'.guessed = cli.guessed
  <2> HIDE DEF r, over
  <2> QED BY <1>1, <1>2 DEF CliStates
<1>5. TasksInv' /\ StackInv' /\ stack' \in Seq(StackIds) /\ cli'.tasks \in Seq(Nat)
  BY <1>1, <1>4, TaskEnds
<1>6. cli' \in CliStates
  <2> DEFINE W == BlockNames \X Indexes
             Q == Seq(Nat)
             E == Endings \cup {"none"}
  <2>1. r \in Q /\ over \in BOOLEAN
    BY <1>4, <1>5
  <2>2. CliStates = [tasks : Q, made : Nat, ids : BOOLEAN, streams : BOOLEAN, block : W,
                     events : Nat, over : BOOLEAN, ended : E, overtaken : BOOLEAN,
                     called : BOOLEAN, guessed : BOOLEAN]
    BY DEF CliStates
  <2> HIDE DEF W, Q, E, r, over
  <2> QED BY <1>1, <1>2, <1>3, <2>1, <2>2
<1>7. OpenInv' /\ LastInv'
  BY <1>1, <1>4 DEF TurnInv, OpenInv, LastInv
<1>8. BlockInv'
  <2>1. cli.tasks # <<>>
    BY EmptyDomain
  <2> QED BY <1>4, <2>1 DEF TurnInv, BlockInv
<1>9. TranscriptTrue'
  BY <1>1, <1>4 DEF TurnInv, TranscriptTrue
<1>10. TurnTypes'
  BY <1>1, <1>2, <1>5, <1>6 DEF TurnTypes
<1> QED BY <1>5, <1>7, <1>8, <1>9, <1>10 DEF TurnInv

\* Every step of a turn keeps the invariant.
LEMMA TurnKeeps ==
    ASSUME TurnInv, TurnNext
    PROVE  TurnInv'
<1>1. ASSUME NEW kind \in {"text", "thinking"}, Chunk(kind) PROVE TurnInv'
  BY <1>1, ChunkKeeps
<1>2. ASSUME NEW kind \in {"text", "thinking"}, NEW i \in Blocks, BlockStart(kind, i)
      PROVE  TurnInv'
  <2>1. kind \in Sayings
    BY DEF Sayings
  <2> QED BY <1>2, <2>1, BlockStartKeeps
<1>3. ASSUME NEW i \in Blocks \cup {-1}, Task(i) PROVE TurnInv'
  <2>1. i \in Indexes
    BY DEF Indexes
  <2> QED BY <1>3, <2>1, TaskKeeps
<1>4. ASSUME NEW i \in Blocks \cup {-1}, NEW id \in CallIds, Tool(i, id) PROVE TurnInv'
  <2>1. i \in Indexes
    BY DEF Indexes
  <2> QED BY <1>4, <2>1, ToolKeeps
<1>5. ASSUME NEW k \in DOMAIN cli.tasks, NEW id \in ResultIds(cli.tasks[k]), TaskResult(k, id)
      PROVE  TurnInv'
  BY <1>5, TaskResultKeeps
<1>6. ASSUME NEW status \in Endings, EndsWith(status) PROVE TurnInv'
  BY <1>6, EndsWithKeeps
<1> QED BY <1>1, <1>2, <1>3, <1>4, <1>5, <1>6, BlockDeltaKeeps, BlockStopKeeps, ToolResultKeeps,
           ErrorKeeps, ExitKeeps, TickKeeps DEF TurnNext

\* A turn begins with nothing said.
LEMMA TurnBegins ==
    ASSUME TurnInit
    PROVE  TurnInv
<1>1. /\ cli \in [tasks : {<<>>}, made : {0}, ids : BOOLEAN, streams : BOOLEAN,
                  block : {NoBlockYet}, events : {0}, over : {FALSE}, ended : {"none"},
                  overtaken : {FALSE}, called : {FALSE}, guessed : {FALSE}]
      /\ said = <<>> /\ segments = <<>> /\ open = [i \in Blocks |-> NoBlock]
      /\ names = {} /\ stack = <<>>
  BY DEF TurnInit
<1>2. /\ cli.tasks = <<>> /\ cli.made = 0 /\ cli.ids \in BOOLEAN /\ cli.streams \in BOOLEAN
      /\ cli.block = NoBlockYet /\ cli.events = 0 /\ cli.over = FALSE /\ cli.overtaken = FALSE
      /\ cli.called = FALSE /\ cli.guessed = FALSE
  BY <1>1
<1>3. NoBlockYet \in BlockNames \X Indexes /\ NoBlockYet[1] = "none"
  BY DEF NoBlockYet, BlockNames, Indexes
<1>4. <<>> \in Seq(Nat) /\ <<>> \in Seq(PieceSet) /\ <<>> \in Seq(Segments) /\ <<>> \in Seq(StackIds)
  BY EmptySeq
<1>5. cli \in CliStates
  <2> DEFINE W == BlockNames \X Indexes
             Q == Seq(Nat)
             E == Endings \cup {"none"}
  <2>1. /\ {NoBlockYet} \subseteq W /\ {<<>>} \subseteq Q /\ {0} \subseteq Nat
        /\ {FALSE} \subseteq BOOLEAN /\ {"none"} \subseteq E
    BY <1>3, <1>4
  <2> HIDE DEF W, Q, E
  <2> QED BY <1>1, <2>1 DEF CliStates, W, Q, E
<1>6. \A i \in Blocks : open[i] = NoBlock
  BY <1>1
<1>7. TurnTypes
  <2>1. NoBlock \in OpenBlocks
    BY DEF NoBlock, OpenBlocks
  <2>2. open \in [Blocks -> OpenBlocks]
    BY <1>1, <2>1
  <2> QED BY <1>1, <1>4, <1>5, <2>2 DEF TurnTypes
<1>8. OpenInv /\ LastInv /\ BlockInv
  <2>1. NoBlock.text = 0 /\ NoBlock.thinking = 0
    BY DEF NoBlock
  <2>2. OpenInv
    BY <1>6, <2>1 DEF OpenInv, WritesTo
  <2>3. LastInv /\ BlockInv
    BY <1>2, <1>3 DEF LastInv, BlockInv
  <2> QED BY <2>2, <2>3
<1>9. DOMAIN cli.tasks = {} /\ DOMAIN stack = {}
  BY <1>1, <1>2, EmptyDomain
<1>10. TasksInv
  BY <1>9 DEF TasksInv
<1>11. StackInv
  <2>1. Len(stack) = Len(cli.tasks) /\ Len(stack) <= Len(cli.tasks)
    BY <1>1, <1>2
  <2> QED BY <1>2, <1>9, <2>1 DEF StackInv, OfTasks, Distinct, AreTasks, AreNumbers
<1>12. TranscriptTrue
  <2>1. <<>> \in Seq(Segments) /\ NewSegment("tool") \in Segments
    BY EmptySeq DEF NewSegment, Segments, SegmentKinds
  <2>2. \A kind, agent : Pieces(<<>>, kind, agent) = <<>>
    BY <2>1, PiecesAppend
  <2> QED BY <1>1, <2>2 DEF TranscriptTrue
<1> QED BY <1>7, <1>8, <1>10, <1>11, <1>12 DEF TurnInv

\* The transcript of a turn holds what the main agent said, all of it and in order, and
\* nothing of what a subagent said, unless one ended before a younger one or an id that the
\* provider left out made the result of a tool look like that of a Task (apply).
THEOREM TranscriptTrueHolds == WindowSpec => []TranscriptTrue
<1>1. WindowInit => TurnInv
  BY TurnBegins DEF WindowInit
<1>2. ASSUME TurnInv, [WindowNext]_<<noteVars, turnVars, scene>> PROVE TurnInv'
  <2>1. CASE TurnNext
    BY <1>2, <2>1, TurnKeeps
  <2>2. CASE UNCHANGED turnVars
    <3>1. cli' = cli /\ said' = said /\ UNCHANGED bufferVars
      BY <2>2 DEF turnVars, cliVars
    <3>2. SameTasks
      BY <1>2, <3>1 DEF TurnInv, TurnTypes, SameTasks
    <3> QED BY <1>2, <3>1, <3>2, NothingShown
  <2> QED BY <1>2, <2>1, <2>2 DEF WindowNext
<1>3. TurnInv => TranscriptTrue
  BY DEF TurnInv
<1> QED BY <1>1, <1>2, <1>3, PTL DEF WindowSpec

-----------------------------------------------------------------------------
(***************************************************************************)
(* What of it is displayed.                                                *)
(***************************************************************************)

\* A segment has a size, and what shows are segments.
LEMMA SizeType ==
    ASSUME NEW seg \in Segments
    PROVE  Size(seg) \in Nat
<1>1. seg.parts \in Seq(PieceSet)
  BY DEF Segments
<1>2. Len(seg.parts) \in Nat
  BY <1>1
<1>3. TailMax \in Nat
  BY TranscriptAssumption
<1> QED BY <1>2, <1>3 DEF Size

\* The segments that are shown are segments.
LEMMA VisibleType ==
    ASSUME NEW segs, segs \in Seq(Segments)
    PROVE  Visible(segs) \in Seq(Segments)
<1> DEFINE F == [seg \in Segments |-> IF Size(seg) > 0 THEN <<seg>> ELSE <<>>]
           e == NewSegment("tool")
<1>1. \A seg \in Segments : F[seg] = IF Size(seg) > 0 THEN <<seg>> ELSE <<>>
  OBVIOUS
<1>2. Maps(F, Segments, Segments)
  <2>1. \A seg \in Segments : <<seg>> \in Seq(Segments)
    OBVIOUS
  <2>2. <<>> \in Seq(Segments)
    BY EmptySeq
  <2>3. \A seg \in Segments : F[seg] \in Seq(Segments)
    BY <1>1, <2>1, <2>2
  <2>4. F = [seg \in Segments |-> F[seg]]
    OBVIOUS
  <2> HIDE DEF F
  <2> QED BY <2>3, <2>4 DEF Maps
<1>3. e \in Segments
  BY EmptySeq DEF NewSegment, Segments, SegmentKinds
<1>4. \A k \in DOMAIN segs : segs[k] \in Segments
  OBVIOUS
<1> HIDE DEF F, e
<1>5. [k \in DOMAIN segs |-> IF Size(segs[k]) > 0 THEN <<segs[k]>> ELSE <<>>] = Each(segs, F)
  BY <1>1, <1>4 DEF Each
<1>6. FlattenSeq(Each(segs, F)) \in Seq(Segments)
  BY <1>2, <1>3, EachFacts
<1> QED BY <1>5, <1>6 DEF Visible

\* The function by which Joined adds sizes up.
Adds(f, segs) ==
    f = [n \in 0 .. Len(segs) |-> IF n = 0 THEN 0 ELSE f[n - 1] + Size(segs[n])]

\* What it says of Joined.
Total(f, segs) ==
    /\ f[0] = 0 /\ \A n \in 1 .. Len(segs) : f[n] = f[n - 1] + Size(segs[n])
    /\ \A n \in 0 .. Len(segs) : f[n] \in Int
    /\ \A k : Joined(segs, k) = f[Len(segs)] - f[k - 1] + Len(segs) - k

\* The lengths of segments have a running total.
LEMMA JoinedAdds ==
    ASSUME NEW segs, segs \in Seq(Segments)
    PROVE  \E f : Total(f, segs)
<1> DEFINE L == Len(segs)
           V == Int
           b == 0
           step == [n \in 1 .. L |-> [x \in V |-> x + Size(segs[n])]]
<1>1. L \in Nat /\ \A n \in 1 .. L : segs[n] \in Segments
  OBVIOUS
<1>2. \A n \in 1 .. L : Size(segs[n]) \in Nat
  BY <1>1, SizeType
<1>3. step \in [1 .. L -> [V -> V]] /\ b \in V
  BY <1>2
<1>4. \E h : Recursive(h, V, L, b, step)
  <2> HIDE DEF V, L, b, step
  <2> QED BY <1>1, <1>3, RecursionExists
<1>5. PICK h : Recursive(h, V, L, b, step)
  BY <1>4
<1>6. \A n \in 1 .. L : n - 1 \in 0 .. L /\ n \in 0 .. L /\ n # 0
  BY <1>1
<1>7. h \in [0 .. L -> Int] /\ h[0] = 0 /\ \A n \in 1 .. L : h[n] = h[n - 1] + Size(segs[n])
  BY <1>5, <1>6 DEF Recursive
<1>8. Adds(h, segs)
  <2>1. \A n \in 0 .. L : n = 0 \/ n \in 1 .. L
    BY <1>1
  <2>2. h = [n \in 0 .. L |-> h[n]]
    BY <1>7
  <2>3. \A n \in 0 .. L : h[n] = IF n = 0 THEN 0 ELSE h[n - 1] + Size(segs[n])
    BY <1>7, <2>1
  <2> QED BY <2>2, <2>3 DEF Adds
<1> DEFINE f == CHOOSE g : Adds(g, segs)
<1>9. Adds(f, segs)
  BY <1>8
<1>10. \A k : Joined(segs, k) = f[Len(segs)] - f[k - 1] + Len(segs) - k
  BY DEF Joined, Adds
<1> HIDE DEF f, step
<1>11. /\ \A n \in 0 .. L : f[n] = IF n = 0 THEN 0 ELSE f[n - 1] + Size(segs[n])
  BY <1>9 DEF Adds
<1>12. f[0] = 0 /\ \A n \in 1 .. L : f[n] = f[n - 1] + Size(segs[n])
  BY <1>1, <1>6, <1>11
<1>13. \A n \in 0 .. L : f[n] \in Int
  <2> DEFINE P == {n \in Nat : n <= L => f[n] \in Int}
  <2>1. 0 \in P
    BY <1>12
  <2>2. ASSUME NEW n \in Nat, n \in P PROVE n + 1 \in P
    <3> SUFFICES ASSUME n + 1 <= L PROVE f[n + 1] \in Int
      OBVIOUS
    <3>1. n + 1 \in 1 .. L /\ (n + 1) - 1 = n /\ n <= L
      BY <1>1
    <3>2. f[n] \in Int /\ Size(segs[n + 1]) \in Nat
      BY <1>2, <2>2, <3>1
    <3>3. f[n + 1] = f[n] + Size(segs[n + 1])
      BY <1>12, <3>1
    <3> QED BY <3>2, <3>3
  <2>3. \A n \in Nat : n \in P
    <3> HIDE DEF P
    <3> QED BY <2>1, <2>2, NumberInduction
  <2> QED BY <1>1, <2>3
<1> QED BY <1>10, <1>12, <1>13 DEF Total

\* The end of a sequence.
LEMMA EndFacts ==
    ASSUME NEW B, NEW s \in Seq(B), NEW k \in 1 .. Len(s)
    PROVE  /\ SubSeq(s, k, Len(s)) \in Seq(B) /\ Len(SubSeq(s, k, Len(s))) = Len(s) - k + 1
           /\ \A i \in 1 .. (Len(s) - k + 1) : SubSeq(s, k, Len(s))[i] = s[i + k - 1]
           /\ SubSeq(s, k, Len(s)) # <<>> /\ Last(SubSeq(s, k, Len(s))) = Last(s)
<1> DEFINE L == Len(s)
           u == SubSeq(s, k, L)
<1>1. L \in Nat /\ k \in Nat /\ 1 <= k /\ k <= L /\ \A i \in k .. L : s[i] \in B
  OBVIOUS
<1>2. /\ u \in Seq(B) /\ Len(u) = (IF k <= L THEN L - k + 1 ELSE 0)
      /\ \A i \in 1 .. (L - k + 1) : u[i] = s[k + i - 1]
  BY <1>1, SubSeqProperties
<1> HIDE DEF u, L
<1>3. \A i \in 1 .. (L - k + 1) : k + i - 1 = i + k - 1
  BY <1>1
<1>4. u \in Seq(B) /\ Len(u) = L - k + 1 /\ \A i \in 1 .. (L - k + 1) : u[i] = s[i + k - 1]
  BY <1>1, <1>2, <1>3
<1>5. u # <<>>
  BY <1>1, <1>4, EmptySeq
<1>6. Last(u) = Last(s)
  <2> DEFINE m == L - k + 1
  <2>1. m \in 1 .. (L - k + 1) /\ m + k - 1 = L /\ m = Len(u)
    BY <1>1, <1>4
  <2> HIDE DEF m
  <2>2. u[m] = s[L]
    BY <1>4, <2>1
  <2> QED BY <2>1, <2>2 DEF Last, L
<1> QED BY <1>4, <1>5, <1>6 DEF u, L

\* The end of what shows is as long as it was in the whole.
LEMMA JoinedEnd ==
    ASSUME NEW full, full \in Seq(Segments), NEW k \in 1 .. Len(full)
    PROVE  /\ Joined(SubSeq(full, k, Len(full)), 1) = Joined(full, k)
           /\ Joined(full, k) \in Int
<1> DEFINE L == Len(full)
           d == SubSeq(full, k, L)
           m == L - k + 1
<1>1. L \in Nat /\ k \in Nat /\ 1 <= k /\ k <= L /\ m \in Nat
  OBVIOUS
<1>2. d \in Seq(Segments) /\ Len(d) = m /\ \A i \in 1 .. m : d[i] = full[i + k - 1]
  BY EndFacts
<1>3. PICK f : Total(f, full)
  BY JoinedAdds
<1> HIDE DEF d
<1>4. PICK g : Total(g, d)
  BY <1>2, JoinedAdds
<1>5. /\ f[0] = 0 /\ \A n \in 1 .. L : f[n] = f[n - 1] + Size(full[n])
      /\ \A n \in 0 .. L : f[n] \in Int
      /\ Joined(full, k) = f[L] - f[k - 1] + L - k
  BY <1>3 DEF Total
<1>6. /\ g[0] = 0 /\ \A n \in 1 .. m : g[n] = g[n - 1] + Size(d[n])
      /\ \A n \in 0 .. m : g[n] \in Int
      /\ Joined(d, 1) = g[m] - g[1 - 1] + m - 1
  BY <1>2, <1>4 DEF Total
<1> DEFINE j == k - 1
           S == {n \in Nat : n <= m => g[n] = f[n + j] - f[j]}
<1>7. j \in Nat /\ j \in 0 .. L /\ m + j = L /\ \A i \in 1 .. m : i + k - 1 = i + j
  BY <1>1
<1> HIDE DEF L, m, j
<1>8. 0 \in S
  BY <1>5, <1>6, <1>7
<1>9. ASSUME NEW n \in Nat, n \in S PROVE n + 1 \in S
  <2> SUFFICES ASSUME n + 1 <= m PROVE g[n + 1] = f[(n + 1) + j] - f[j]
    OBVIOUS
  <2>1. /\ n + 1 \in 1 .. m /\ (n + 1) - 1 = n /\ n <= m /\ n \in 0 .. m
        /\ (n + 1) + j \in 1 .. L /\ ((n + 1) + j) - 1 = n + j /\ n + j \in 0 .. L
    BY <1>1, <1>7
  <2>2. g[n] = f[n + j] - f[j]
    BY <1>9, <2>1
  <2>3. g[n + 1] = g[n] + Size(d[n + 1])
    BY <1>6, <2>1
  <2>4. d[n + 1] = full[(n + 1) + j]
    BY <1>2, <1>7, <2>1
  <2>5. f[(n + 1) + j] = f[n + j] + Size(full[(n + 1) + j])
    BY <1>5, <2>1
  <2>6. Size(full[(n + 1) + j]) \in Nat
    <3>1. full[(n + 1) + j] \in Segments
      BY <2>1 DEF L
    <3> QED BY <3>1, SizeType
  <2>7. f[n + j] \in Int /\ f[j] \in Int
    BY <1>5, <1>7, <2>1
  <2> QED BY <2>2, <2>3, <2>4, <2>5, <2>6, <2>7
<1>10. \A n \in Nat : n \in S
  <2> HIDE DEF S
  <2> QED BY <1>8, <1>9, NumberInduction
<1>11. g[m] = f[L] - f[j]
  BY <1>1, <1>7, <1>10
<1>12. f[L] \in Int /\ f[j] \in Int /\ L \in 0 .. L
  BY <1>1, <1>5, <1>7
<1>13. Joined(full, k) = f[L] - f[j] + L - k
  BY <1>5 DEF j
<1>14. Joined(d, 1) = g[m] + m - 1
  BY <1>1, <1>6, <1>11, <1>12
<1>15. m - 1 = L - k
  BY <1>1 DEF m
<1>16. Joined(d, 1) = Joined(full, k) /\ Joined(full, k) \in Int
  BY <1>1, <1>11, <1>12, <1>13, <1>14, <1>15
<1> QED BY <1>16 DEF d, L

\* A set of numbers has its least one.
LEMMA MinOfSet ==
    ASSUME NEW S, S \subseteq Nat, S # {}
    PROVE  Min(S) \in S /\ \A m \in S : Min(S) <= m
<1> DEFINE R == OpToRel(<, Nat)
<1>1. IsWellFoundedOn(R, Nat)
  BY NatLessThanWellFounded
<1>2. \A x, y \in Nat : x < y => <<x, y>> \in R
  BY DEF OpToRel
<1> HIDE DEF R
<1>3. PICK n \in S : \A m \in S : ~(<<m, n>> \in R)
  BY <1>1, WFMin, Zenon
<1>4. ASSUME NEW m \in S PROVE n <= m
  <2>1. m \in Nat /\ n \in Nat
    OBVIOUS
  <2>2. ~(m < n)
    BY <1>2, <1>3, <2>1
  <2> QED BY <2>1, <2>2
<1> QED BY <1>3, <1>4 DEF Min

\* A status takes one piece or none.
LEMMA StatusSizeType ==
    ASSUME NEW status
    PROVE  StatusSize(status) \in Nat /\ StatusSize(status) <= 1
BY DEF StatusSize

\* What shows from segment k on does not fit behind a marker.
TooLong(full, k, status) == Marker + Joined(full, k) + StatusSize(status) > Limit

\* What is shown of full: all of it, its end behind a marker, or the end of its last.
Whole(d, full, status) ==
    /\ full = <<>> \/ Joined(full, 1) + StatusSize(status) <= Limit
    /\ d = [text |-> SubSeq(full, 1, Len(full)), marker |-> FALSE,
            status |-> status, cut |-> FALSE]

Ending(d, full, status, k) ==
    /\ Marker + Joined(full, k) + StatusSize(status) <= Limit
    /\ k > 1 /\ TooLong(full, k - 1, status)
    /\ d = [text |-> SubSeq(full, k, Len(full)), marker |-> TRUE,
            status |-> status, cut |-> FALSE]

CutEnding(d, full, status) ==
    /\ \A k \in 1 .. Len(full) : TooLong(full, k, status)
    /\ d = [text |-> SubSeq(full, Len(full), Len(full)), marker |-> TRUE,
            status |-> status, cut |-> TRUE]

\* What is displayed: every segment, the last ones behind the omission, or the end of the last one.
LEMMA RenderCases ==
    ASSUME NEW segs, segs \in Seq(Segments), NEW status, NEW d, d = Render(segs, status)
    PROVE  \/ Whole(d, Visible(segs), status)
           \/ \E k \in 1 .. Len(Visible(segs)) : Ending(d, Visible(segs), status, k)
           \/ Visible(segs) # <<>> /\ CutEnding(d, Visible(segs), status)
<1> DEFINE full == Visible(segs)
           st == StatusSize(status)
           fits == {k \in DOMAIN full : Marker + Joined(full, k) + st <= Limit}
<1>1. full \in Seq(Segments)
  BY VisibleType
<1>2. st \in Nat /\ st <= 1
  BY StatusSizeType
<1>3. Limit \in Nat /\ Limit - Marker - st > MinBudget
  BY <1>2, TranscriptAssumption DEF Marker
<1>4. CASE full = <<>> \/ Joined(full, 1) + st <= Limit
  BY <1>4 DEF Render, Whole
<1>5. CASE ~(full = <<>> \/ Joined(full, 1) + st <= Limit) /\ fits # {}
  <2>1. d = [text |-> SubSeq(full, Min(fits), Len(full)), marker |-> TRUE,
             status |-> status, cut |-> FALSE]
    BY <1>5 DEF Render
  <2>2. Min(fits) \in fits /\ \A m \in fits : Min(fits) <= m
    <3>1. fits \subseteq Nat
      BY <1>1
    <3> QED BY <1>5, <3>1, MinOfSet
  <2> DEFINE k == Min(fits)
             L == Len(full)
  <2>3. k \in 1 .. L /\ Marker + Joined(full, k) + st <= Limit
    BY <1>1, <2>2
  <2>4. \A j \in 1 .. L : j \in fits <=> Marker + Joined(full, j) + st <= Limit
    BY <1>1
  <2>5. \A j \in 1 .. L : Joined(full, j) \in Int
    BY <1>1, JoinedEnd
  <2>6. \A j \in fits : k <= j
    BY <2>2
  <2>7. ~(Joined(full, 1) + st <= Limit)
    BY <1>5
  <2> HIDE DEF k, fits, full, L, st
  <2>8. k > 1
    <3> SUFFICES ASSUME k = 1 PROVE FALSE
      BY <2>3
    <3>1. Joined(full, 1) \in Int /\ Marker + Joined(full, 1) + st <= Limit
      BY <2>3, <2>5
    <3> QED BY <1>2, <1>3, <2>7, <3>1 DEF Marker
  <2>9. TooLong(full, k - 1, status)
    <3>0. L \in Nat
      BY <1>1 DEF L, full
    <3>1. k - 1 \in 1 .. L /\ ~(k <= k - 1)
      BY <2>3, <2>8, <3>0
    <3>2. ~(Marker + Joined(full, k - 1) + st <= Limit)
      BY <2>4, <2>6, <3>1
    <3>3. Joined(full, k - 1) \in Int
      BY <2>5, <3>1
    <3> QED BY <1>2, <1>3, <3>2, <3>3 DEF TooLong, Marker, st
  <2>10. Ending(d, full, status, k)
    BY <2>1, <2>3, <2>8, <2>9 DEF Ending, k, st
  <2> QED BY <2>3, <2>10 DEF full, L
<1>6. CASE ~(full = <<>> \/ Joined(full, 1) + st <= Limit) /\ fits = {}
  <2>1. d = [text |-> SubSeq(full, Len(full), Len(full)), marker |-> TRUE,
             status |-> status, cut |-> TRUE]
    BY <1>3, <1>6 DEF Render
  <2>2. ASSUME NEW k \in 1 .. Len(full) PROVE TooLong(full, k, status)
    <3>1. ~(Marker + Joined(full, k) + st <= Limit)
      BY <1>1, <1>6
    <3>2. Joined(full, k) \in Int
      BY <1>1, JoinedEnd
    <3> HIDE DEF full
    <3> QED BY <1>2, <1>3, <3>1, <3>2 DEF TooLong, Marker
  <2> QED BY <1>6, <2>1, <2>2 DEF CutEnding
<1> QED BY <1>4, <1>5, <1>6

\* What is shown of full from k on is its newest part that fits.
LEMMA ShownFrom ==
    ASSUME NEW full, full \in Seq(Segments), NEW k \in Nat,
           k \in 1 .. Len(full) \/ (full = <<>> /\ k = 1), NEW d,
           d.text = SubSeq(full, k, Len(full)), d.marker <=> k > 1 \/ d.cut,
           k > 1 => TooLong(full, k - 1, d.status),
           d.cut => k = Len(full) /\ TooLong(full, Len(full), d.status)
    PROVE  NewestThatFit(d, full)
<1> DEFINE n == Len(full)
<1>1. n \in Nat /\ Len(d.text) = n - k + 1 /\ (full # <<>> => d.text # <<>>)
  <2>1. CASE k \in 1 .. n
    BY <2>1, EndFacts
  <2>2. CASE full = <<>> /\ k = 1
    <3>1. n = 0
      BY <2>2
    <3>2. d.text = <<>>
      BY <2>2, <3>1, SubSeqEmpty
    <3> QED BY <2>2, <3>1, <3>2
  <2> QED BY <2>1, <2>2
<1>2. n - Len(d.text) + 1 = k
  BY <1>1
<1> HIDE DEF n
<1>3. d.text = SubSeq(full, k, n)
  BY DEF n
<1>4. d.cut => k = n /\ TooLong(full, n, d.status)
  BY DEF n
<1>5. n = Len(full)
  BY DEF n
<1> QED BY <1>1, <1>2, <1>3, <1>4, <1>5 DEF NewestThatFit, TooLong

\* What is rendered fits, and is the newest part that does.
LEMMA RenderFits ==
    ASSUME NEW segs, segs \in Seq(Segments), NEW status, NEW d, d = Render(segs, status)
    PROVE  Length(d) <= Limit /\ d.status = status /\ NewestThatFit(d, Visible(segs))
<1> DEFINE full == Visible(segs)
           st == StatusSize(status)
           L == Len(full)
<1>1. full \in Seq(Segments) /\ L \in Nat
  BY VisibleType
<1>2. st \in Nat /\ st <= 1
  BY StatusSizeType
<1>3. Limit \in Nat /\ 2 <= Limit
  BY TranscriptAssumption
<1>4. \/ Whole(d, full, status) \/ \E k \in 1 .. L : Ending(d, full, status, k)
      \/ full # <<>> /\ CutEnding(d, full, status)
  BY RenderCases
<1> HIDE DEF full, L
<1>5. ASSUME NEW k \in 1 .. L
      PROVE  LET e == SubSeq(full, k, L)
             IN /\ e # <<>> /\ k \in Nat
                /\ Joined(e, 1) = Joined(full, k) /\ Joined(full, k) \in Int
  BY <1>1, EndFacts, JoinedEnd DEF L
<1>6. full # <<>> => L \in 1 .. L /\ 1 \in 1 .. L
  BY <1>1, EmptySeq DEF L
<1>7. CASE full = <<>> /\ Whole(d, full, status)
  <2>1. d = [text |-> SubSeq(full, 1, L), marker |-> FALSE, status |-> status, cut |-> FALSE]
    BY <1>7 DEF Whole, L
  <2>2. SubSeq(full, 1, L) = <<>>
    <3>1. L = 0
      BY <1>7, EmptySeq DEF L
    <3> QED BY <3>1, SubSeqEmpty
  <2>3. Length(d) = st
    BY <1>2, <2>1, <2>2 DEF Length
  <2>4. d.text = SubSeq(full, 1, Len(full)) /\ ~d.marker /\ ~d.cut /\ d.status = status
    BY <2>1 DEF L
  <2>5. NewestThatFit(d, full)
    <3> DEFINE k == 1
    <3>1. /\ k \in Nat /\ (k \in 1 .. Len(full) \/ (full = <<>> /\ k = 1))
          /\ d.text = SubSeq(full, k, Len(full)) /\ (d.marker <=> k > 1 \/ d.cut)
          /\ (k > 1 => TooLong(full, k - 1, d.status))
          /\ (d.cut => k = Len(full) /\ TooLong(full, Len(full), d.status))
      BY <1>7, <2>4
    <3> HIDE DEF k
    <3> QED BY <1>1, <3>1, ShownFrom
  <2> QED BY <1>2, <1>3, <2>3, <2>4, <2>5 DEF full
<1>8. CASE full # <<>> /\ Whole(d, full, status)
  <2> DEFINE e == SubSeq(full, 1, L)
  <2>1. d = [text |-> e, marker |-> FALSE, status |-> status, cut |-> FALSE]
        /\ Joined(full, 1) + st <= Limit
    BY <1>8 DEF Whole, L
  <2>2. e # <<>> /\ Joined(e, 1) = Joined(full, 1) /\ Joined(full, 1) \in Int
    BY <1>5, <1>6, <1>8
  <2>3. e = SubSeq(full, 1, Len(full))
    BY DEF L
  <2> HIDE DEF e
  <2>4. Length(d) = st + Joined(full, 1)
    BY <1>2, <2>1, <2>2 DEF Length
  <2>5. d.text = SubSeq(full, 1, Len(full)) /\ ~d.marker /\ ~d.cut /\ d.status = status
    BY <2>1, <2>3
  <2>6. NewestThatFit(d, full)
    <3> DEFINE k == 1
    <3>1. /\ k \in Nat /\ k \in 1 .. Len(full)
          /\ d.text = SubSeq(full, k, Len(full)) /\ (d.marker <=> k > 1 \/ d.cut)
          /\ (k > 1 => TooLong(full, k - 1, d.status))
          /\ (d.cut => k = Len(full) /\ TooLong(full, Len(full), d.status))
      BY <1>6, <1>8, <2>5 DEF L
    <3> HIDE DEF k
    <3> QED BY <1>1, <3>1, ShownFrom
  <2> QED BY <1>2, <1>3, <2>1, <2>2, <2>4, <2>5, <2>6 DEF full
<1>9. ASSUME NEW k \in 1 .. L, Ending(d, full, status, k)
      PROVE  Length(d) <= Limit /\ d.status = status /\ NewestThatFit(d, full)
  <2> DEFINE e == SubSeq(full, k, L)
  <2>1. d = [text |-> e, marker |-> TRUE, status |-> status, cut |-> FALSE]
        /\ Marker + Joined(full, k) + st <= Limit
    BY <1>9 DEF Ending, L
  <2>2. /\ e # <<>> /\ k \in Nat
        /\ Joined(e, 1) = Joined(full, k) /\ Joined(full, k) \in Int
    BY <1>5
  <2>3. e = SubSeq(full, k, Len(full)) /\ k \in 1 .. Len(full)
    BY DEF L
  <2> HIDE DEF e
  <2>4. Length(d) = Marker + st + Joined(full, k)
    BY <1>2, <2>1, <2>2 DEF Length
  <2>5. Length(d) <= Limit
    BY <1>2, <1>3, <2>1, <2>2, <2>4 DEF Marker
  <2>6. /\ d.text = SubSeq(full, k, Len(full)) /\ d.marker /\ ~d.cut /\ d.status = status
        /\ k > 1 /\ TooLong(full, k - 1, d.status)
    BY <1>9, <2>1, <2>3 DEF Ending
  <2>7. NewestThatFit(d, full)
    BY <1>1, <2>2, <2>3, <2>6, ShownFrom
  <2> QED BY <2>5, <2>6, <2>7
<1>10. CASE full # <<>> /\ CutEnding(d, full, status)
  <2> DEFINE e == SubSeq(full, L, L)
  <2>1. d = [text |-> e, marker |-> TRUE, status |-> status, cut |-> TRUE]
        /\ \A k \in 1 .. L : TooLong(full, k, status)
    BY <1>10 DEF CutEnding, L
  <2>2. /\ e # <<>> /\ Joined(e, 1) = Joined(full, L) /\ Joined(full, L) \in Int
    BY <1>5, <1>6, <1>10
  <2>3. e = SubSeq(full, L, Len(full)) /\ L = Len(full) /\ L \in 1 .. L
    BY <1>6, <1>10 DEF L
  <2> HIDE DEF e
  <2> DEFINE rest == Marker + st
             body == Joined(full, L)
  <2>4. Length(d) = rest + IF body > Limit - rest THEN Limit - rest ELSE body
    BY <1>2, <2>1, <2>2 DEF Length
  <2>5. rest \in Nat /\ body \in Int
    BY <1>2, <2>2 DEF Marker
  <2> HIDE DEF rest, body
  <2>6. Length(d) <= Limit
    BY <1>3, <2>4, <2>5
  <2>7. d.text = SubSeq(full, L, Len(full)) /\ d.marker /\ d.cut /\ d.status = status
    BY <2>1, <2>3
  <2>8. L > 1 => TooLong(full, L - 1, status)
    BY <1>1, <2>1
  <2>9. TooLong(full, L, status)
    BY <2>1, <2>3
  <2>10. NewestThatFit(d, full)
    BY <1>1, <2>3, <2>7, <2>8, <2>9, ShownFrom
  <2> QED BY <2>6, <2>7, <2>10 DEF full
<1> QED BY <1>4, <1>7, <1>8, <1>9, <1>10 DEF full

\* An update shows the segments, or nothing new.
LEMMA UpdateShows ==
    ASSUME TurnInv', EndShown, NEW status, NEW force, Update(segments', status, force),
           ~cli'.over \/ (force /\ status = cli'.ended)
    PROVE  EndShown'
<1>1. segments' \in Seq(Segments)
  BY DEF TurnInv, TurnTypes
<1>2. CASE ~force /\ display' = display
  BY <1>2 DEF EndShown
<1>3. CASE display' = Render(segments', status)
  <2>1. /\ Length(display') <= Limit /\ display'.status = status
        /\ NewestThatFit(display', Visible(segments'))
    BY <1>1, <1>3, RenderFits
  <2> QED BY <2>1 DEF EndShown
<1> QED BY <1>2, <1>3 DEF Update, editorVars

\* Every step of a turn keeps it.
LEMMA DisplayKeeps ==
    ASSUME TurnInv, EndShown, TurnNext
    PROVE  EndShown'
<1>1. TurnInv'
  BY TurnKeeps
<1>2. ASSUME Did(cli), Room PROVE ~cli'.over
  BY <1>2, DidFacts DEF Room
<1>3. ASSUME NEW b, b \in BlockNames \X Indexes, Did([cli EXCEPT !.block = b]), Room
      PROVE  ~cli'.over
  BY <1>3, DidFacts DEF Room
<1>4. cli \in CliStates
  BY DEF TurnInv, TurnTypes
<1>5. ASSUME ~cli'.over, NEW status, NEW force, Update(segments', status, force)
      PROVE  EndShown'
  BY <1>1, <1>5, UpdateShows
<1>6. ASSUME NEW status, status = cli'.ended, Update(segments', status, TRUE)
      PROVE  EndShown'
  BY <1>1, <1>6, UpdateShows
<1>7. ASSUME NEW kind \in {"text", "thinking"}, Chunk(kind) PROVE EndShown'
  BY <1>2, <1>5, <1>7 DEF Chunk, Shows
<1>8. ASSUME NEW kind \in {"text", "thinking"}, NEW i \in Blocks, BlockStart(kind, i)
      PROVE  EndShown'
  <2> DEFINE b == <<kind, i>>
  <2>1. b \in BlockNames \X Indexes
    BY DEF BlockNames, Indexes
  <2>2. Did([cli EXCEPT !.block = b]) /\ Room /\ Shows("working")
    BY <1>8 DEF BlockStart
  <2> HIDE DEF b
  <2>3. ~cli'.over
    BY <1>3, <2>1, <2>2
  <2> QED BY <1>5, <2>2, <2>3 DEF Shows
<1>9. ASSUME BlockDelta PROVE EndShown'
  BY <1>2, <1>5, <1>9 DEF BlockDelta, Shows
<1>10. ASSUME BlockStop PROVE EndShown'
  <2> DEFINE b == NoBlockYet
  <2>1. b \in BlockNames \X Indexes
    BY DEF BlockNames, Indexes, NoBlockYet
  <2>2. Did([cli EXCEPT !.block = b]) /\ Room /\ Update(segments', lastStatus, TRUE)
    BY <1>10 DEF BlockStop
  <2> HIDE DEF b
  <2>3. ~cli'.over
    BY <1>3, <2>1, <2>2
  <2> QED BY <1>5, <2>2, <2>3
<1>11. ASSUME NEW i \in Indexes, NEW id \in CallIds, Tool(i, id) PROVE EndShown'
  <2>1. Room /\ Shows("tools") /\ cli'.over = cli.over
    BY <1>4, <1>11 DEF Tool, Did, CliStates
  <2> QED BY <1>5, <2>1 DEF Shows, Room
<1>12. ASSUME NEW i \in Indexes, Task(i) PROVE EndShown'
  <2>1. Room /\ Shows("subagent") /\ cli'.over = cli.over
    BY <1>4, <1>12 DEF Task, Did, CliStates
  <2> QED BY <1>5, <2>1 DEF Shows, Room
<1>13. ASSUME NEW id \in CallIds, ToolResult(id) PROVE EndShown'
  <2>1. Room /\ Shows("tools") /\ cli'.over = cli.over
    BY <1>4, <1>13 DEF ToolResult, Did, CliStates
  <2> QED BY <1>5, <2>1 DEF Shows, Room
<1>14. ASSUME NEW k \in DOMAIN cli.tasks, NEW id \in ResultIds(cli.tasks[k]), TaskResult(k, id)
       PROVE  EndShown'
  <2>1. Room /\ Shows("tools") /\ cli'.over = cli.over
    BY <1>4, <1>14 DEF TaskResult, Did, CliStates
  <2> QED BY <1>5, <2>1 DEF Shows, Room
<1>15. ASSUME ErrorEvent PROVE EndShown'
  BY <1>2, <1>5, <1>15 DEF ErrorEvent
<1>16. ASSUME Exit PROVE EndShown'
  <2>1. Update(segments', "complete", TRUE) /\ cli'.ended = "complete"
    <3>1. "complete" \in Endings
      BY DEF Endings
    <3> QED BY <1>16, <3>1, OverFacts DEF Exit
  <2> QED BY <1>6, <2>1
<1>17. ASSUME NEW status \in Endings, EndsWith(status) PROVE EndShown'
  <2>1. Update(segments', status, TRUE) /\ cli'.ended = status
    BY <1>17, OverFacts DEF EndsWith
  <2> QED BY <1>6, <2>1
<1>18. ASSUME Tick PROVE EndShown'
  <2>1. cli' = cli /\ segments' = segments /\ display' = display
    BY <1>18 DEF Tick, cliVars, bufferVars
  <2> QED BY <2>1 DEF EndShown
<1> QED BY <1>7, <1>8, <1>9, <1>10, <1>11, <1>12, <1>13, <1>14, <1>15, <1>16, <1>17, <1>18
        DEF TurnNext, Indexes

\* What is displayed always fits into a message; when the turn is over, whatever was
\* throttled, it has the status the turn ended with and the newest segments of the whole
\* transcript, none missing that would have fitted (ThrottledTranscriptEditor.update, render).
THEOREM EndShownHolds == WindowSpec => []EndShown
<1>1. WindowInit => TurnInv /\ EndShown
  <2> SUFFICES ASSUME WindowInit PROVE TurnInv /\ EndShown
    OBVIOUS
  <2>1. TurnInit
    BY DEF WindowInit
  <2>2. display = Nothing /\ ~cli.over
    BY <2>1 DEF TurnInit
  <2>3. Length(Nothing) = 0
    BY DEF Nothing, Length, StatusSize
  <2>4. 0 <= Limit
    BY TranscriptAssumption
  <2> QED BY <2>1, <2>2, <2>3, <2>4, TurnBegins DEF EndShown
<1>2. ASSUME TurnInv, EndShown, [WindowNext]_<<noteVars, turnVars, scene>>
      PROVE  TurnInv' /\ EndShown'
  <2>1. CASE TurnNext
    BY <1>2, <2>1, TurnKeeps, DisplayKeeps
  <2>2. CASE UNCHANGED turnVars
    <3>1. cli' = cli /\ said' = said /\ UNCHANGED bufferVars /\ display' = display
      BY <2>2 DEF turnVars, cliVars, editorVars
    <3>2. SameTasks
      BY <1>2, <3>1 DEF TurnInv, TurnTypes, SameTasks
    <3>3. TurnInv'
      BY <1>2, <3>1, <3>2, NothingShown
    <3>4. EndShown'
      BY <1>2, <3>1 DEF EndShown, bufferVars
    <3> QED BY <3>3, <3>4
  <2> QED BY <1>2, <2>1, <2>2 DEF WindowNext
<1> QED BY <1>1, <1>2, PTL DEF WindowSpec
=============================================================================
