----------------------------- MODULE VoiceNotes -----------------------------
(***************************************************************************)
(* Messages of a user on their way to a turn: text is handed to the        *)
(* workflow at once, a voice note is announced by a status message,        *)
(* downloaded and transcribed first (VoiceNoteFlow.handle), and a /clear   *)
(* that replies to it, or to its status message, cancels it.               *)
(*                                                                         *)
(* A step is the code between two awaits that can suspend: the lock of     *)
(* PendingVoiceRegistry is never held over one.  Telegram's updates are    *)
(* handled one after another, Discord's at the same time.                  *)
(***************************************************************************)
EXTENDS Platforms

VARIABLES
    at,         \* at[n]: where the handler of message n is
    spoken,     \* spoken[n]: n is a voice note
    pending,    \* PendingVoiceRegistry: message ids, to the note they cancel
    temp,       \* notes whose audio lies in a temporary file
    turns,      \* messages that are nodes of a tree
    ran,        \* messages that ever were
    outcome,    \* outcome[n]: what the user was told of n last
    logged,     \* the message log of the session store
    command     \* command[c]: where a /clear is, and the turns it removes

voiceVars == <<at, spoken, pending, temp, turns, ran, outcome, logged, command>>
noteVars == <<platformVars, voiceVars>>

NoPending == [m \in {} |-> ""]

VoiceInit ==
    /\ PlatformInit
    /\ at = [n \in Notes |-> "new"]
    /\ spoken \in [Notes -> BOOLEAN]
    /\ pending = NoPending /\ temp = {} /\ turns = {} /\ ran = {}
    /\ outcome = [n \in Notes |-> "none"]
    /\ logged = {}
    /\ command = [c \in Commands |-> [at |-> "new", all |-> FALSE, removes |-> {}]]

Busy == (\E n \in Notes : at[n] \notin {"new", "done"})
        \/ (\E c \in Commands : command[c].at \notin {"new", "done"})

\* The adapter hands out an update: one at a time on Telegram.
Accepts == conn = "up" /\ (platform = "telegram" => ~Busy)

Go(n, to) == at' = [at EXCEPT ![n] = to]
Told(n, what) == outcome' = [outcome EXCEPT ![n] = what]
Take(a) == a \in answers /\ answers' = answers \ {a}
Ask(op, ids, who) == calls' = Append(calls, Call(op, ids, who))

-----------------------------------------------------------------------------
(***************************************************************************)
(* PendingVoiceRegistry.                                                   *)
(***************************************************************************)
Restricted(f, keys) == [m \in DOMAIN f \ keys |-> f[m]]

Register(n) == pending' = [m \in DOMAIN pending \cup {Voice(n), Status(n)} |->
                             IF m \in {Voice(n), Status(n)} THEN n ELSE pending[m]]

\* Defect: only the status message is forgotten.
CancelOne(n) == pending' = Restricted(pending, {Status(n)})

Cancel(n) == pending' = Restricted(pending, {Voice(n), Status(n)})
Complete(n) == pending' = Restricted(pending, {Voice(n), Status(n)})
StillPending(n) == Voice(n) \in DOMAIN pending

-----------------------------------------------------------------------------
(***************************************************************************)
(* Incoming messages.                                                      *)
(***************************************************************************)

Arrives(n) ==
    /\ at[n] = "new" /\ Accepts
    /\ posted' = posted \cup {Voice(n)}
    /\ UNCHANGED <<platform, conn, waited, answers, stray, kept, spoken, pending,
                   temp, turns, ran, command>>

\* A bot's own message, another channel or user than the allowed ones, a message
\* without content, no handler yet: dropped without an answer.
Refused(n) ==
    /\ Arrives(n)
    /\ Go(n, "done") /\ Told(n, "refused") /\ UNCHANGED <<calls, logged>>

\* _on_telegram_message, _on_discord_message: handle_message logs the message
\* and sends its status message.
TextArrives(n) ==
    /\ Arrives(n) /\ ~spoken[n]
    /\ Go(n, "intake") /\ logged' = logged \cup {Voice(n)}
    /\ Ask("send", {Status(n)}, n) /\ UNCHANGED outcome

\* _on_telegram_voice, _handle_voice_note: answered at once where voice is
\* disabled, announced otherwise.
VoiceArrives(n) ==
    /\ Arrives(n) /\ spoken[n] /\ UNCHANGED logged
    /\ \/ Go(n, "announcing") /\ Ask("send", {Status(n)}, n) /\ UNCHANGED outcome
       \/ Go(n, "done") /\ Told(n, "disabled") /\ UNCHANGED calls

\* The status message was sent, or the error leaves handle() unanswered; a
\* temporary file that cannot be made leaves the note registered for good.
Announced(n) ==
    /\ at[n] = "announcing"
    /\ \E r \in {"ok", "raised"} :
          /\ Take([who |-> n, op |-> "send", result |-> r])
          /\ IF r = "raised"
             THEN Go(n, "done") /\ Told(n, "dropped") /\ UNCHANGED <<pending, temp>>
             ELSE /\ Register(n)
                  /\ \/ Go(n, "fetching") /\ temp' = temp \cup {n} /\ UNCHANGED outcome
                     \/ Go(n, "done") /\ Told(n, "nofile") /\ UNCHANGED temp
    /\ UNCHANGED <<platform, conn, waited, calls, posted, stray, kept, spoken, turns,
                   ran, logged, command>>

\* Defect: the file outlives a failed transcription.
FailedKeepsFile(n) ==
    /\ at[n] = "fetching"
    /\ Go(n, "done") /\ Told(n, "failed")
    /\ Complete(n) /\ Ask("delete", {Status(n)}, "") /\ UNCHANGED temp
    /\ UNCHANGED <<platform, conn, waited, answers, posted, stray, kept, spoken, turns,
                   ran, logged, command>>

\* The download or the transcription fails (transcribe_audio refuses files that
\* are missing or too large, and what it needs may not be installed):
\* _clear_failed_pending_voice, and the error as a reply.
Failed(n) ==
    /\ at[n] = "fetching"
    /\ Go(n, "done") /\ Told(n, "failed")
    /\ Complete(n) /\ Ask("delete", {Status(n)}, "") /\ temp' = temp \ {n}
    /\ UNCHANGED <<platform, conn, waited, answers, posted, stray, kept, spoken, turns,
                   ran, logged, command>>

\* A cancelled note goes no further than its transcript.  Otherwise it is no
\* longer pending, and the workflow edits the status message that is there.
HandOff(n) ==
    /\ at[n] = "fetching"
    /\ IF StillPending(n)
       THEN /\ Complete(n) /\ Go(n, "intake") /\ logged' = logged \cup {Voice(n)}
            /\ Ask("edit", {Status(n)}, n) /\ UNCHANGED temp
       ELSE /\ Go(n, "done") /\ temp' = temp \ {n}
            /\ Ask("delete", {Status(n)}, "") /\ UNCHANGED <<pending, logged>>
    /\ UNCHANGED <<platform, conn, waited, answers, posted, stray, kept, spoken, turns,
                   ran, outcome, command>>

\* handle_message after its status message: the node joins a tree.  An error
\* is answered: for a voice note as a transcription that failed.
Admitted(n) ==
    /\ at[n] = "intake"
    /\ \E r \in {"ok", "raised"} :
          /\ Take([who |-> n, op |-> IF spoken[n] THEN "edit" ELSE "send", result |-> r])
          /\ IF r = "ok"
             THEN /\ turns' = turns \cup {n} /\ ran' = ran \cup {n} /\ Told(n, "turn")
                  /\ logged' = logged \cup {Status(n)}
             ELSE UNCHANGED <<turns, ran, logged>> /\ Told(n, "misreported")
    /\ Go(n, "done") /\ Complete(n) /\ temp' = temp \ {n}
    /\ UNCHANGED <<platform, conn, waited, calls, posted, stray, kept, spoken, command>>

-----------------------------------------------------------------------------
(***************************************************************************)
(* /clear.  A reply to a node clears its branch, a reply to a pending note *)
(* cancels it, any other reply finds nothing.  Without a reply all turns   *)
(* are stopped, what the log and the trees name is deleted, and the trees  *)
(* are replaced.                                                           *)
(***************************************************************************)
Issued(c, all, removes) ==
    /\ command[c].at = "new" /\ Accepts
    /\ posted' = posted \cup {Command(c)} /\ logged' = logged \cup {Command(c)}
    /\ command' = [command EXCEPT ![c] = [at |-> "waiting", all |-> all, removes |-> removes]]
    /\ UNCHANGED <<platform, conn, waited, answers, stray, kept, at, spoken, temp, turns, ran>>

ClearReply(c) ==
    \E n \in Notes : \E m \in {Voice(n), Status(n)} \cap posted :
        IF n \in turns
        THEN /\ Issued(c, FALSE, {n}) /\ UNCHANGED <<pending, outcome>>
             /\ Ask("delete", {Voice(n), Status(n), Command(c)}, c)
        ELSE /\ Issued(c, FALSE, {})
             /\ IF m \in DOMAIN pending
                THEN /\ Cancel(n) /\ Told(n, "cancelled")
                     /\ Ask("delete", {Voice(n), Status(n), Command(c)}, c)
                ELSE /\ UNCHANGED <<pending, outcome>>
                     /\ Ask("send", {<<"nothing", c>>}, c)

\* Notes that are still transcribed are in no tree and stay pending.
ClearEverything(c) ==
    /\ Issued(c, TRUE, turns) /\ UNCHANGED <<pending, outcome>>
    /\ Ask("delete", logged \cup {Command(c)}
                       \cup UNION {{Voice(n), Status(n)} : n \in turns}, c)

\* After the deletions, which are best effort, the branch or all trees go; a
\* turn that joined a tree in the meantime goes with them.
ClearEnds(c) ==
    /\ command[c].at = "waiting"
    /\ \E a \in answers : a.who = c /\ Take(a)
    /\ LET gone == IF command[c].all THEN turns ELSE turns \cap command[c].removes
       IN /\ turns' = turns \ gone
          /\ outcome' = [n \in Notes |->
                CASE n \in gone \cap command[c].removes -> "cleared"
                  [] n \in gone \ command[c].removes -> "swept"
                  [] OTHER -> outcome[n]]
    /\ logged' = IF command[c].all THEN {} ELSE logged
    /\ command' = [command EXCEPT ![c].at = "done"]
    /\ UNCHANGED <<platform, conn, waited, calls, posted, stray, kept, at, spoken,
                   pending, temp, ran>>

VoiceNext ==
    \/ PlatformNext /\ UNCHANGED voiceVars
    \/ \E n \in Notes : \/ Refused(n) \/ TextArrives(n) \/ VoiceArrives(n)
                        \/ Announced(n) \/ Failed(n) \/ HandOff(n) \/ Admitted(n)
    \/ \E c \in Commands : ClearReply(c) \/ ClearEverything(c) \/ ClearEnds(c)

-----------------------------------------------------------------------------
\* A note whose cancellation was confirmed starts no turn, however far its
\* transcription had come.
CancelledNeverRuns ==
    [][\A n \in Notes : outcome[n] = "cancelled" => n \notin ran']_noteVars

\* Nothing is under way for a message.
Settled(n) ==
    /\ at[n] = "done" /\ calls = <<>>
    /\ \A c \in Commands : command[c].at # "waiting"

\* A voice note that is dealt with leaves nothing behind: no audio file, no
\* entry that a later /clear could hit, and no status message without a turn.
\* The exceptions are the ways in which the code does leave one: its sending
\* seemed to fail, no temporary file could be made, the hand-off failed, the
\* trees were replaced under its turn, or the platform kept it or posted it
\* twice.
NothingLeftBehind ==
    \A n \in Notes : Settled(n) /\ spoken[n] =>
        /\ n \notin temp
        /\ outcome[n] # "nofile" => DOMAIN pending \cap {Voice(n), Status(n)} = {}
        /\ Status(n) \in posted /\ n \notin turns =>
              \/ outcome[n] \in {"dropped", "nofile", "misreported", "swept"}
              \/ Status(n) \in kept \cup stray
=============================================================================
