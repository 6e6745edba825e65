----------------------------- MODULE ChatWindow -----------------------------
(***************************************************************************)
(* What a user sees of the bot: messages on their way to a turn            *)
(* (VoiceNotes), and the status message of a turn that runs (Transcript).  *)
(* The two meet in that message only, which is there before the turn       *)
(* starts, so a behaviour is of one scene or of the other.                 *)
(***************************************************************************)
EXTENDS VoiceNotes, Transcript

VARIABLE scene

WindowInit ==
    /\ VoiceInit /\ TurnInit
    /\ scene \in {"messages", "turn"}
    /\ scene = "turn" => platform = "telegram" /\ \A n \in Notes : ~spoken[n]
    /\ scene = "messages" => cli.ids /\ cli.streams

WindowNext ==
    \/ scene = "messages" /\ VoiceNext /\ UNCHANGED <<turnVars, scene>>
    \/ scene = "turn" /\ TurnNext /\ UNCHANGED <<noteVars, scene>>

\* Neither the messages nor the indexes of content blocks are told apart.
Symmetry == Permutations(Notes) \cup Permutations(Blocks)

WindowSpec == WindowInit /\ [][WindowNext]_<<noteVars, turnVars, scene>>
=============================================================================
