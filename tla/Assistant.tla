------------------------------ MODULE Assistant ------------------------------
(***************************************************************************)
(* The threads of the desktop assistant.  Every message of the user is     *)
(* handled in a thread of its own (Jarvis._handle, JarvisAgent.handle): it *)
(* is recorded in the file of preferences, matched against the phrases the *)
(* assistant knows, or put to a model that asks for tools, at most         *)
(* MaxTurns times.  The threads share that file, one shell with a current  *)
(* directory, and the dialogs that ask the user.                           *)
(*                                                                         *)
(* A tool is an act: a note in the preferences, a change of directory, a   *)
(* command that is harmless, risky or blocked, a command or a name that is *)
(* handed to smart_open, a command handed to execute_command, suspending   *)
(* the machine, or switching it off, which stands for the tools that ask   *)
(* (those of power, packages, services and files).  Setting another        *)
(* preference (prefs_set) is left out: it reads and writes the file as the *)
(* record of a message does, and named notes it replaces them all.  The    *)
(* window may be closed at any time: the threads are daemons.              *)
(***************************************************************************)
EXTENDS Integers, SequencesExt

CONSTANTS
    Messages,   \* the messages of a user
    MaxTurns,   \* max_turns of _agent_loop
    MaxNotes,   \* notes that prefs_note keeps, 50
    MaxCalls,   \* bound on the acts of a sentence or of an answer of the model
    MaxKills    \* bound on the ends of the process

ASSUME TalkBounds == MaxTurns \in Nat /\ MaxCalls \in Nat /\ MaxKills \in Nat
ASSUME SomeNotes == MaxNotes \in Nat \ {0}

VARIABLES
    prefs,      \* the file of preferences: what it says, or Cut while it is written
    saver,      \* holders of UserPrefs._lock
    thread,     \* thread[m]: how far the thread of m got
    result,     \* result[m]: what _confirm returns to it
    dialogs,    \* the dialogs on the screen, the one that takes input last
    shell,      \* the thread that holds TerminalSession._lock
    kills,      \* ends of the process so far
    granted,    \* acts the user said yes to
    ran,        \* acts that were done
    told,       \* notes the user was told of, the newest first
    missed,     \* missed[m]: notes the user was told of that m has not read
    lost,       \* those of them that somebody wrote the file without
    hurt        \* the process ended while the file was written

talkVars == <<prefs, saver, thread, result, dialogs, shell, kills, granted, ran, told, missed, lost, hurt>>

\* Of the file only the notes matter, the newest first.
Cut == [notes |-> <<>>, whole |-> FALSE]
Defaults == [Cut EXCEPT !.whole = TRUE]

\* What load returns: a file that is not JSON is as good as none.
Loaded == IF prefs.whole THEN prefs ELSE Defaults

\* prefs_note: the newest note is the first, and those beyond the limit are dropped.
WithNote(p, note) ==
    LET all == Cons(note, p.notes)
    IN  [p EXCEPT !.notes = SubSeq(all, 1, Min({MaxNotes, Len(all)}))]

Phrases == {"note", "poweroff", "suspend"}
Tools == Phrases \cup {"cd", "harmless", "risky", "blocked", "opened", "listed"}

\* What the user must be asked for: what the patterns of terminal.py find in a command,
\* and the tools of power.  Of these, three ways ask nobody: smart_open starts the program
\* that is named after xdg-open, gio open or gtk-launch, execute_command runs a command
\* that begins with a name of its list, whatever follows, and power_suspend.
Dangerous == {"poweroff", "risky", "opened", "listed", "suspend"}
Unasked == {"opened", "listed", "suspend"}
Asks(act) == act \in Dangerous \ Unasked

\* An act of a message, by the number of those that are left.
Act(m) == Head(thread[m].todo)
ActId(m) == <<m, thread[m].turn, Len(thread[m].todo)>>

Done(m) == ran' = ran \cup {[id |-> ActId(m), act |-> Act(m)]}

New == [at |-> "idle", todo |-> <<>>, turn |-> 0, copy |-> Defaults]

TalkInit ==
    /\ prefs = Defaults /\ saver = {}
    /\ thread = [m \in Messages |-> New]
    /\ result = [m \in Messages |-> FALSE]
    /\ dialogs = <<>> /\ shell = {} /\ kills = 0
    /\ granted = {} /\ ran = {} /\ told = <<>>
    /\ missed = [m \in Messages |-> {}] /\ lost = {} /\ hurt = FALSE

Goes(m, at) == thread' = [thread EXCEPT ![m].at = at]

(***************************************************************************)
(* A message.                                                              *)
(***************************************************************************)

\* _send: a dialog takes the input away from the window.
Send(m) ==
    /\ thread[m].at = "idle" /\ dialogs = <<>>
    /\ Goes(m, "load")
    /\ UNCHANGED <<prefs, saver, result, dialogs, shell, kills, granted, ran, told, missed, lost, hurt>>

\* What a thread that reads the file now does not read of what the user was told.
Unread == IF prefs.whole THEN {} ELSE ToSet(told)

\* UserPrefs.load, for the record of the message or for a note.  A defect: a note
\* starts from the defaults.
LoadDefaults(m) ==
    /\ thread[m].at = "load"
    /\ thread' = [thread EXCEPT
           ![m].at = "save",
           ![m].copy = IF thread[m].todo = <<>> THEN Loaded ELSE WithNote(Defaults, ActId(m))]
    /\ missed' = [missed EXCEPT ![m] = Unread]
    /\ UNCHANGED <<prefs, saver, result, dialogs, shell, kills, granted, ran, told, lost, hurt>>

Load(m) ==
    /\ thread[m].at = "load"
    /\ thread' = [thread EXCEPT
           ![m].at = "save",
           ![m].copy = IF thread[m].todo = <<>> THEN Loaded ELSE WithNote(Loaded, ActId(m))]
    /\ missed' = [missed EXCEPT ![m] = Unread]
    /\ UNCHANGED <<prefs, saver, result, dialogs, shell, kills, granted, ran, told, lost, hurt>>

\* UserPrefs.save takes the lock and opens the file, which empties it.
Save(m) ==
    /\ thread[m].at = "save" /\ saver = {}
    /\ saver' = {m} /\ prefs' = Cut
    /\ Goes(m, "write")
    /\ UNCHANGED <<result, dialogs, shell, kills, granted, ran, told, missed, lost, hurt>>

\* The next act, the next turn of the model, or the reply.
Onward(t) ==
    [t EXCEPT !.todo = Tail(@),
              !.at = IF Len(t.todo) > 1 THEN "act"
                     ELSE IF t.turn \in 1 .. MaxTurns - 1 THEN "ask" ELSE "reply"]

\* json.dump: the file is written.
Write(m) ==
    /\ thread[m].at = "write"
    /\ saver' = {} /\ prefs' = thread[m].copy
    /\ IF thread[m].todo = <<>>
       THEN Goes(m, "match") /\ UNCHANGED <<told, missed>>
       ELSE /\ thread' = [thread EXCEPT ![m] = Onward(@)]
            /\ told' = Cons(ActId(m), told)
            /\ missed' = [n \in Messages |-> missed[n] \cup {ActId(m)}]
    /\ lost' = lost \cup missed[m]
    /\ UNCHANGED <<result, dialogs, shell, kills, granted, ran, hurt>>

\* intent.match: a sentence of clauses, of which those it knows are done and the others
\* passed over, or none it knows.
Match(m) ==
    /\ thread[m].at = "match"
    /\ \/ \E n \in 1..MaxCalls : \E todo \in [1..n -> Phrases] :
             thread' = [thread EXCEPT ![m].at = "act", ![m].todo = todo]
       \/ Goes(m, "ask")
    /\ UNCHANGED <<prefs, saver, result, dialogs, shell, kills, granted, ran, told, missed, lost, hurt>>

\* llm.chat: an answer with calls of tools, or without (an error is one of these).
Chat(m) ==
    /\ thread[m].at = "ask"
    /\ \E n \in 0..MaxCalls : \E todo \in [1..n -> Tools] :
           thread' = [thread EXCEPT ![m].at = IF n = 0 THEN "reply" ELSE "act",
                                    ![m].todo = todo, ![m].turn = @ + 1]
    /\ UNCHANGED <<prefs, saver, result, dialogs, shell, kills, granted, ran, told, missed, lost, hurt>>

Reply(m) ==
    /\ thread[m].at = "reply"
    /\ Goes(m, "done")
    /\ UNCHANGED <<prefs, saver, result, dialogs, shell, kills, granted, ran, told, missed, lost, hurt>>

(***************************************************************************)
(* An act: _dispatch_tool and call_tool.                                   *)
(***************************************************************************)
Dispatch(m) ==
    /\ thread[m].at = "act"
    /\ CASE Act(m) = "note"     -> Goes(m, "load") /\ UNCHANGED ran
         [] Act(m) = "harmless" -> Goes(m, "lock") /\ UNCHANGED ran
         [] Act(m) = "blocked"  -> thread' = [thread EXCEPT ![m] = Onward(@)] /\ UNCHANGED ran
         [] Asks(Act(m))        -> Goes(m, "asking") /\ UNCHANGED ran
         [] OTHER               -> thread' = [thread EXCEPT ![m] = Onward(@)] /\ Done(m)
    /\ UNCHANGED <<prefs, saver, result, dialogs, shell, kills, granted, told, missed, lost, hurt>>

\* _confirm: the main loop shows the dialog, within the loop of one that is shown.
Show(m) ==
    /\ thread[m].at = "asking"
    /\ dialogs' = Append(dialogs, m)
    /\ Goes(m, "asked")
    /\ UNCHANGED <<prefs, saver, result, shell, kills, granted, ran, told, missed, lost, hurt>>

\* A defect: the dialogs share their result.
AnswerAll(yes) ==
    /\ dialogs # <<>>
    /\ LET m == Last(dialogs)
       IN  /\ result' = [n \in Messages |-> yes]
           /\ granted' = IF yes THEN granted \cup {ActId(m)} ELSE granted
           /\ Goes(m, "answered")
    /\ dialogs' = Front(dialogs)
    /\ UNCHANGED <<prefs, saver, shell, kills, ran, told, missed, lost, hurt>>

\* The user answers the dialog that was shown last.
Answer(yes) ==
    /\ dialogs # <<>>
    /\ LET m == Last(dialogs)
       IN  /\ result' = [result EXCEPT ![m] = yes]
           /\ granted' = IF yes THEN granted \cup {ActId(m)} ELSE granted
           /\ Goes(m, "answered")
    /\ dialogs' = Front(dialogs)
    /\ UNCHANGED <<prefs, saver, shell, kills, ran, told, missed, lost, hurt>>

\* Cancelled, switched off, or on to the shell.
Decide(m) ==
    /\ thread[m].at = "answered"
    /\ \/ /\ ~result[m]
          /\ thread' = [thread EXCEPT ![m] = Onward(@)] /\ UNCHANGED ran
       \/ /\ result[m] /\ Act(m) = "poweroff"
          /\ thread' = [thread EXCEPT ![m] = Onward(@)] /\ Done(m)
       \/ /\ result[m] /\ Act(m) = "risky"
          /\ Goes(m, "lock") /\ UNCHANGED ran
    /\ UNCHANGED <<prefs, saver, result, dialogs, shell, kills, granted, told, missed, lost, hurt>>

\* TerminalSession.exec.  A command ends, or is killed at its timeout.
Run(m) ==
    /\ thread[m].at = "lock" /\ shell = {}
    /\ shell' = {m}
    /\ Goes(m, "running") /\ Done(m)
    /\ UNCHANGED <<prefs, saver, result, dialogs, kills, granted, told, missed, lost, hurt>>

RunEnds(m) ==
    /\ thread[m].at = "running"
    /\ shell' = {}
    /\ thread' = [thread EXCEPT ![m] = Onward(@)]
    /\ UNCHANGED <<prefs, saver, result, dialogs, kills, granted, ran, told, missed, lost, hurt>>

\* The process ends.  It may be started again for the messages that were not sent.
Kill ==
    /\ kills < MaxKills
    /\ kills' = kills + 1
    /\ thread' = [m \in Messages |->
                     IF thread[m].at = "idle" THEN thread[m] ELSE [New EXCEPT !.at = "done"]]
    /\ saver' = {} /\ shell' = {} /\ dialogs' = <<>>
    /\ hurt' = (hurt \/ ~prefs.whole)
    /\ UNCHANGED <<prefs, result, granted, ran, told, missed, lost>>

TalkNext ==
    \/ \E m \in Messages :
          \/ Send(m) \/ Load(m) \/ Save(m) \/ Write(m) \/ Match(m) \/ Chat(m) \/ Reply(m)
          \/ Dispatch(m) \/ Show(m) \/ Decide(m) \/ Run(m) \/ RunEnds(m)
    \/ \E yes \in BOOLEAN : Answer(yes)
    \/ Kill

(***************************************************************************)
(* Correctness.                                                            *)
(***************************************************************************)

\* However many dialogs are open at once and in whatever order they are answered, what
\* the user must be asked for is done only if the user said yes to that very act, and a
\* blocked command never runs (_confirm, _run_terminal, the tools that ask).  Left out by
\* name are the Unasked ways: what smart_open starts (a command that begins with xdg-open,
\* gio open or gtk-launch is not checked), what execute_command runs, and suspending.
OnlyGrantedRuns ==
    \A x \in ran : x.act # "blocked" /\ (x.act \in Dangerous \ Unasked => x.id \in granted)

\* Nobody finds the preferences cut off unless somebody is writing them, or the process
\* ended while somebody was.  Whatever else was read and written since and however often
\* the process ended, each of the newest MaxNotes notes the user was told of is in the
\* file, unless a thread wrote the file that had read it before the user was told, or
\* had found it cut off (UserPrefs, prefs_note).
Remembered ==
    /\ saver = {} /\ ~hurt => prefs.whole
    /\ prefs.whole =>
         \A i \in 1 .. Min({MaxNotes, Len(told)}) :
            told[i] \notin lost => told[i] \in ToSet(prefs.notes)

TalkSpec == TalkInit /\ [][TalkNext]_talkVars
=============================================================================
