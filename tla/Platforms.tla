----------------------------- MODULE Platforms -----------------------------
(***************************************************************************)
(* The platform adapters of messaging/platforms: how Telegram and Discord  *)
(* are started and stopped, and what a send, an edit or a deletion does    *)
(* when the platform answers late, refuses or floods.                      *)
(*                                                                         *)
(* Calls reach an adapter one at a time (OutboxLimiter models the queue    *)
(* before it).  What the platform answers is arbitrary; of the errors of   *)
(* the Telegram library only what telegram.py distinguishes is kept.       *)
(***************************************************************************)
EXTENDS SequencesExt

CONSTANTS Notes,        \* messages of the user that start a turn
          Commands      \* /clear commands

\* "" is who waits for a call that nobody waits for.
ASSUME PlatformAssumption ==
    Notes \cap Commands = {} /\ \A n \in Notes \cup Commands : n # ""

VARIABLES
    platform,   \* "telegram" or "discord"
    conn,       \* the connection: "new", "starting", "up", "failed", "stopped"
    waited,     \* attempts, or half seconds, of the start
    calls,      \* calls of the outbox; the first is being made
    answers,    \* results nobody has taken yet
    posted,     \* the messages the chat shows
    stray,      \* status messages that were posted twice
    kept        \* messages the platform would not delete

platformVars == <<platform, conn, waited, calls, answers, posted, stray, kept>>

Voice(n)  == <<"message", n>>
Status(n) == <<"status", n>>
Command(c) == <<"command", c>>

MaxRetries == 3
MaxWait == 2        \* bound: the thirty seconds of Discord, in steps

PlatformInit ==
    /\ platform \in {"telegram", "discord"}
    /\ conn = "new" /\ waited = 0
    /\ calls = <<>> /\ answers = {}
    /\ posted = {} /\ stray = {} /\ kept = {}

-----------------------------------------------------------------------------
(***************************************************************************)
(* Start and stop.  The runtime keeps the platform after a failed start,   *)
(* so that a shutdown still stops it.                                      *)
(***************************************************************************)

\* Telegram: one of three attempts to initialise, start and poll.
TelegramStart ==
    /\ platform = "telegram" /\ conn \in {"new", "starting"}
    /\ \/ conn' = "up" /\ waited' = waited
       \/ /\ waited' = waited + 1
          /\ conn' = IF waited' = MaxRetries THEN "failed" ELSE "starting"
    /\ UNCHANGED <<platform, calls, answers, posted, stray, kept>>

\* Discord: the client starts in a task of its own, and start() waits for it.
DiscordStart ==
    /\ platform = "discord"
    /\ \/ conn = "new" /\ conn' = "starting" /\ waited' = 0
       \/ /\ conn = "starting" /\ waited' = waited + 1
          /\ conn' = IF waited' = MaxWait THEN "failed" ELSE "starting"
    /\ UNCHANGED <<platform, calls, answers, posted, stray, kept>>

\* on_ready: also after start() has given up, for its task goes on.
DiscordReady ==
    /\ platform = "discord" /\ conn \in {"starting", "failed"}
    /\ conn' = "up"
    /\ UNCHANGED <<platform, waited, calls, answers, posted, stray, kept>>

\* stop(): no update is handed out any more.
PlatformStop ==
    /\ conn \in {"up", "failed"}
    /\ conn' = "stopped"
    /\ UNCHANGED <<platform, waited, calls, answers, posted, stray, kept>>

-----------------------------------------------------------------------------
(***************************************************************************)
(* One call.  who waits for its result, "" if nobody does.                 *)
(***************************************************************************)
Call(op, ids, who) == [op |-> op, ids |-> ids, who |-> who, tries |-> 0, last |-> FALSE]

\* What a call that reaches the platform changes: a message that is already
\* there is posted once more, for the adapter cannot know that it is.
Shown(c) ==
    CASE c.op = "send"   -> posted \cup c.ids
      [] c.op = "delete" -> posted \ c.ids
      [] OTHER           -> posted
Twice(c) == IF c.op = "send" THEN stray \cup (c.ids \cap posted) ELSE stray

Ended(c, result) ==
    /\ calls' = Tail(calls)
    /\ answers' = IF c.who = "" THEN answers
                  ELSE answers \cup {[who |-> c.who, op |-> c.op, result |-> result]}

\* A network error: the call is made again after a pause, at most twice.  The
\* call that follows a flood wait is not protected: any error is raised.
AgainOrRaise(c) ==
    IF c.last \/ c.tries + 1 = MaxRetries
    THEN Ended(c, "raised")
    ELSE calls' = <<[c EXCEPT !.tries = @ + 1]>> \o Tail(calls) /\ UNCHANGED answers

\* _with_retry of telegram.py, for an answer of the platform and whether the
\* call took effect, which a network error does not tell.  After a flood wait,
\* or markup that cannot be parsed, one more call is made; some refusals to
\* edit or delete count as success.
TelegramAnswer(c, answer) ==
    CASE answer = "ok"      -> Ended(c, "ok")
      [] answer = "network" -> AgainOrRaise(c)
      [] answer = "benign"  -> Ended(c, IF c.last THEN "raised" ELSE "ok")
      [] answer = "flood" /\ ~c.last ->
            calls' = <<[c EXCEPT !.last = TRUE]>> \o Tail(calls) /\ UNCHANGED answers
      [] OTHER -> Ended(c, "raised")

TelegramCall ==
    /\ platform = "telegram" /\ calls # <<>>
    /\ \E answer \in {"ok", "network", "benign", "flood", "error"}, reached \in BOOLEAN :
          LET c == Head(calls)
          IN /\ answer = "ok" => reached
             /\ reached => answer \in {"ok", "network"}
             /\ answer = "benign" => c.op # "send"
             /\ TelegramAnswer(c, answer)
             /\ posted' = IF reached THEN Shown(c) ELSE posted
             /\ stray' = IF reached THEN Twice(c) ELSE stray
             /\ kept' = IF c.op = "delete" /\ ~reached /\ calls' = Tail(calls)
                        THEN kept \cup c.ids ELSE kept
    /\ UNCHANGED <<platform, conn, waited>>

\* Discord: nothing is retried; a message that is gone is left alone, and so
\* is one that may not be deleted; the first other error ends a bulk deletion.
DiscordCall ==
    LET c == Head(calls)
    IN /\ platform = "discord" /\ calls # <<>>
       /\ \/ /\ Ended(c, "ok")
             /\ posted' = Shown(c) /\ UNCHANGED kept
          \/ /\ c.op = "delete"
             /\ \E left \in SUBSET c.ids \ {{}}, r \in {"ok", "raised"} :
                   /\ Ended(c, r)
                   /\ posted' = posted \ (c.ids \ left)
                   /\ kept' = kept \cup left
          \/ c.op # "delete" /\ Ended(c, "raised") /\ UNCHANGED <<posted, kept>>
    /\ UNCHANGED <<platform, conn, waited, stray>>

PlatformNext ==
    \/ TelegramStart \/ DiscordStart \/ DiscordReady \/ PlatformStop
    \/ TelegramCall \/ DiscordCall
=============================================================================
