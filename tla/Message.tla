-------------------------------- MODULE Message --------------------------------
(***************************************************************************)
(* What a client may see of one answer: the server-sent events of one      *)
(* Anthropic message, as core/anthropic/stream_contracts.py checks them.   *)
(* A content block is opened once, changed and stopped only while it is    *)
(* open, and stopped before the stop reason is told; a message that ends   *)
(* has at least one block.                                                 *)
(*                                                                         *)
(* One action is one event.  "last" tells the events apart that change     *)
(* nothing else.                                                           *)
(***************************************************************************)
CONSTANTS
    Indexes,   \* indexes of content blocks
    Kinds      \* types of content blocks

VARIABLES
    stage,   \* "new", "body", "ending" after the stop reason, "stopped"
    open,    \* type of each open block
    used,    \* indexes of the blocks that were ever opened
    last     \* the last event: its type and the block it is about

messageVars == <<stage, open, used, last>>

MessageInit ==
    /\ stage = "new" /\ open = <<>> /\ used = {}
    /\ last = <<"none">>

MessageStart ==
    /\ stage = "new" /\ stage' = "body"
    /\ last' = <<"message_start">>
    /\ UNCHANGED <<open, used>>

\* No index is used twice.
BlockStart(i, k) ==
    /\ stage = "body" /\ i \notin used
    /\ used' = used \cup {i}
    /\ open' = [j \in DOMAIN open \cup {i} |-> IF j = i THEN k ELSE open[j]]
    /\ last' = <<"start", i>>
    /\ UNCHANGED stage

\* A delta has the type of its block, which is open.
BlockDelta(i, k) ==
    /\ stage = "body" /\ i \in DOMAIN open /\ open[i] = k
    /\ last' = <<"delta", i, k>>
    /\ UNCHANGED <<stage, open, used>>

BlockStop(i) ==
    /\ stage = "body" /\ i \in DOMAIN open
    /\ open' = [j \in DOMAIN open \ {i} |-> open[j]]
    /\ last' = <<"stop", i>>
    /\ UNCHANGED <<stage, used>>

\* A failure is told at the top level of an answer that has content.
ErrorEvent ==
    /\ stage = "body" /\ used # {}
    /\ last' = <<"error">>
    /\ UNCHANGED <<stage, open, used>>

\* The stop reason is told once, when no block is open.
MessageDelta ==
    /\ stage = "body" /\ open = <<>>
    /\ stage' = "ending"
    /\ last' = <<"message_delta">>
    /\ UNCHANGED <<open, used>>

MessageStop ==
    /\ stage = "ending" /\ used # {}
    /\ stage' = "stopped"
    /\ last' = <<"message_stop">>
    /\ UNCHANGED <<open, used>>

MessageNext ==
    \/ MessageStart \/ ErrorEvent \/ MessageDelta \/ MessageStop
    \/ \E i \in Indexes : BlockStop(i)
    \/ \E i \in Indexes, k \in Kinds : BlockStart(i, k) \/ BlockDelta(i, k)

MessageSpec == MessageInit /\ [][MessageNext]_messageVars
=============================================================================
