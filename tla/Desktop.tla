------------------------------ MODULE Desktop ------------------------------
(***************************************************************************)
(* The desktop assistant: its threads (Assistant), and the edits of the    *)
(* window manager's files by their tools (HyprConfig).  An edit asks       *)
(* nobody, takes no lock and touches nothing that the threads share, so a  *)
(* behaviour is of one scene or of the other.                              *)
(***************************************************************************)
EXTENDS HyprConfig, Assistant

VARIABLE scene

DesktopInit ==
    /\ ConfigInit /\ TalkInit
    /\ scene \in {"edits", "talk"}
    /\ scene = "talk" => lines = Block("decoration", <<Assign("rounding", 0), Note>>)

DesktopNext ==
    \/ scene = "edits" /\ ConfigNext /\ UNCHANGED <<talkVars, scene>>
    \/ scene = "talk" /\ TalkNext /\ UNCHANGED <<configVars, scene>>

\* Neither the messages nor the threads of the edits are told apart.
Symmetry == Permutations(Messages) \cup Permutations(Editors)

DesktopSpec == DesktopInit /\ [][DesktopNext]_<<configVars, talkVars, scene>>
=============================================================================
