----------------------------- MODULE HyprConfig -----------------------------
(***************************************************************************)
(* The configuration engine of the desktop assistant (ai/lib/hypr_config): *)
(* it edits the files of the window manager line by line, after a backup   *)
(* named by the second, and has them read again.  Every message of the     *)
(* user runs in a thread of its own and nothing locks a file: an edit      *)
(* reads it, empties it when it opens it for writing, and fills it when it *)
(* closes it.                                                              *)
(*                                                                         *)
(* A file is a sequence of lines: the head and the end of a block, an      *)
(* assignment, a bind, an unbind, a rule, or a comment, which may have a   *)
(* brace in it.  The last line may lack its newline.                       *)
(***************************************************************************)
EXTENDS Integers, FiniteSets, SequencesExt, FiniteSetsExt, TLC

CONSTANT Editors    \* the threads of the messages that change the configuration

VARIABLES
    lines,      \* the file that is edited
    bak,        \* its newest backup
    live,       \* what the window manager does
    kind,       \* whether that file has blocks or a list of lines
    defaults,   \* combinations bound in configs/Keybinds.conf
    edit        \* edit[m]: how far the thread of m got

configVars == <<lines, bak, live, kind, defaults, edit>>

(***************************************************************************)
(* Lines.  A bind line spells the modifier, or the variable that stands    *)
(* for it.                                                                 *)
(***************************************************************************)
Line(t, key, val) == [t |-> t, key |-> key, val |-> val]
Assign(key, val) == Line("set", key, val)
Open(name) == Line("open", name, 0)
Close == Line("close", "", 0)
Comment(brace) == Line("note", "", brace)
Note == Comment(0)
Unended == Line("unended", "", 0)
NoBackup == <<Line("none", "", 0)>>
Block(name, body) == <<Open(name)>> \o body \o <<Close>>

IsAssign(ln, key) == ln.t = "set" /\ ln.key = key

\* ln.count("{") - ln.count("}"), which looks at comments too.
Braces(ln) == CASE ln.t = "open" -> 1 [] ln.t = "close" -> -1 [] ln.t = "note" -> ln.val [] OTHER -> 0

Depth(ls, i) ==
    Cardinality({j \in 1..i : Braces(ls[j]) = 1}) - Cardinality({j \in 1..i : Braces(ls[j]) = -1})

\* The end of the block whose head is line a, or of the file if it is not found.
BlockEnd(ls, a) == Min({j \in a + 1 .. Len(ls) : Depth(ls, j) < Depth(ls, a)} \cup {Len(ls) + 1})

Heads(ls, name, from, to) == {i \in from..to : ls[i].t = "open" /\ ls[i].key = name}

\* A line written behind a last one without a newline is read as more of that one: of a
\* comment, of a value, or of the key of an unbind, which is then of no combination.
Ended(ls) == ls = <<>> \/ Last(ls) # Unended
EndedAt(ls) == IF Ended(ls) THEN ls ELSE Front(ls)
Garbled(ln) == IF ln.t \in {"note", "unbind"} THEN Note ELSE [ln EXCEPT !.val = -2]
Put(ls, ln) ==
    IF Ended(ls) THEN Append(ls, ln)
    ELSE [EndedAt(ls) EXCEPT ![Len(ls) - 1] = Garbled(@)]

\* A line takes the place of the lines at the given positions.
Replaced(ls, positions, ln) == [i \in DOMAIN ls |-> IF i \in positions THEN ln ELSE ls[i]]

(***************************************************************************)
(* The edits.                                                              *)
(***************************************************************************)

\* _set_in_file without a section, set_env_var, set_default_app, set_monitor: the
\* first assignment of the key, wherever it is, or a new line.
SetFirst(ls, key, val) ==
    LET hits == {i \in DOMAIN ls : IsAssign(ls[i], key)}
        new  == Replaced(ls, {Min(hits)}, Assign(key, val))
    IN  CASE hits = {}               -> Put(ls, Assign(key, val))
          [] Min(hits) < Len(ls) - 1 -> new
          [] OTHER                   -> EndedAt(new)

\* A defect: the new line lands behind the block.
SetBehindBlock(ls, a, key, val) ==
    LET z == BlockEnd(ls, a)
        hits == {i \in a + 1 .. z - 1 : IsAssign(ls[i], key)}
    IN  IF hits = {} THEN InsertAt(ls, Min({z, Len(ls)}) + 1, Assign(key, val))
        ELSE Replaced(ls, hits, Assign(key, val))

\* Within the block whose head is line a: every assignment of the key, in blocks
\* inside it too, or a new line before its end.
SetInBlock(ls, a, key, val) ==
    LET z == BlockEnd(ls, a)
        hits == {i \in a + 1 .. z - 1 : IsAssign(ls[i], key)}
    IN  IF hits = {} THEN InsertAt(ls, z, Assign(key, val))
        ELSE Replaced(ls, hits, Assign(key, val))

\* _set_in_file: the first block of the section, or a new one at the end.
SetInSection(ls, section, key, val) ==
    LET heads == Heads(ls, section, 1, Len(ls))
    IN  IF heads = {} THEN EndedAt(ls) \o Block(section, <<Assign(key, val)>>)
        ELSE SetInBlock(ls, Min(heads), key, val)

\* _set_nested: the first inner block of the first outer one.  If that has none, a
\* new outer block with it goes to the end of the file; if its end is not found, a new
\* line goes nowhere.
SetNested(ls, outer, inner, key, val) ==
    LET outers == Heads(ls, outer, 1, Len(ls))
        inners == IF outers = {} THEN {}
                  ELSE Heads(ls, inner, Min(outers) + 1, BlockEnd(ls, Min(outers)) - 1)
        set == SetInBlock(ls, Min(inners), key, val)
    IN  CASE inners = {} -> EndedAt(ls) \o Block(outer, Block(inner, <<Assign(key, val)>>))
          [] BlockEnd(ls, Min(inners)) > Len(ls) /\ Len(set) > Len(ls) -> ls
          [] OTHER -> set

\* remove_keybind and hypr_remove_window_rule turn lines into comments.
CommentOut(ls, t, key) ==
    Replaced(ls, {i \in DOMAIN ls : ls[i].t = t /\ ls[i].key = key}, Note)

\* set_value, and set_blur and set_shadow: a dot in the key makes it nested, and what is
\* before the dot the inner block.
SetValue(ls, r) ==
    IF r.inner = "" THEN SetInSection(ls, r.outer, r.key, r.val)
    ELSE SetNested(ls, r.outer, r.inner, r.key, r.val)

\* The text a request leaves of a file.  switch_animation_preset copies another file.
Rewritten(ls, r) ==
    CASE r.op = "first"   -> SetFirst(ls, r.key, r.val)
      [] r.op = "value"   -> SetValue(ls, r)
      [] r.op = "bind"    -> Put(ls, Line("bind", r.key, r.val))
      [] r.op = "unbind"  -> Put(ls, Line("unbind", r.key, 0))
      [] r.op = "release" -> CommentOut(ls, "bind", r.key)
      [] r.op = "rule"    -> Put(ls, Line("rule", r.key, r.val))
      [] r.op = "unrule"  -> CommentOut(ls, "rule", r.key)
      [] r.op = "raw"     -> EndedAt(ls) \o <<Note, Line("bind", r.key, r.val)>>
      [] r.op = "preset"  -> Block("animations", <<Assign("enabled", r.val)>>)

\* These open the file to append; the others read it and write it anew.
Appends(r) == r.op \in {"bind", "unbind", "rule", "raw"}

(***************************************************************************)
(* What the window manager reads in a file: the last assignment of a path  *)
(* counts, and an unbind takes away the binds before it, the default ones  *)
(* among them.  No edit looks at this.                                     *)
(***************************************************************************)
Meaning(combo) == IF combo = "$mainMod+T" THEN "SUPER+T" ELSE combo

Reads(eff, ln) ==
    CASE ln.t = "open"   -> [eff EXCEPT !.path = Append(@, ln.key)]
      [] ln.t = "close"  -> [eff EXCEPT !.path = Front(@)]
      [] ln.t = "set"    -> [eff EXCEPT !.sets = (Append(eff.path, ln.key) :> ln.val) @@ @]
      [] ln.t = "bind"   -> [eff EXCEPT !.binds = @ \cup {<<Meaning(ln.key), ln.val>>}]
      [] ln.t = "unbind" -> [eff EXCEPT !.binds = {b \in @ : b[1] # Meaning(ln.key)}]
      [] ln.t = "rule"   -> [eff EXCEPT !.rules = @ \cup {<<ln.key, ln.val>>}]
      [] OTHER           -> eff

ReadUpTo(ls, n) ==
    LET Eff[i \in 0..n] ==
            IF i = 0
            THEN [path |-> <<>>, sets |-> <<>>, rules |-> {},
                  binds |-> {<<combo, -1>> : combo \in defaults}]
            ELSE Reads(Eff[i - 1], ls[i])
    IN  Eff[n]

Effective(ls) == ReadUpTo(ls, Len(ls))

PathAt(ls, i) == ReadUpTo(ls, i).path

(***************************************************************************)
(* The requests a message may make, and how many edits they take.  A       *)
(* preset of the assistant is a sequence of edits; an edit of the blur may *)
(* have several parts after one backup.                                    *)
(***************************************************************************)
Request(op, outer, inner, key, m) ==
    [op |-> op, outer |-> outer, inner |-> inner, key |-> key, val |-> m]

\* The block and the name that the window manager has for a setting.  It has no block
\* named col: the names of the colours have a dot in them.
Place(r) ==
    CASE r.op = "first" -> <<>>
      [] r.op = "value" -> IF r.inner \in {"", "col"} THEN <<r.outer>> ELSE <<r.outer, r.inner>>
      [] OTHER          -> <<"animations">>
Name(r) == IF r.inner = "col" THEN "col.active_border" ELSE r.key
Target(r) == Append(Place(r), Name(r))

\* A request carried out on what the window manager does, and on nothing else.
Asked(eff, r) ==
    CASE r.op \in {"first", "value"} -> [eff EXCEPT !.sets = (Target(r) :> r.val) @@ @]
      [] r.op = "preset" -> [eff EXCEPT !.sets = Target(r) :> r.val, !.rules = {}]
      [] r.op \in {"bind", "raw"} -> [eff EXCEPT !.binds = @ \cup {<<r.key, r.val>>}]
      [] r.op \in {"unbind", "release"} -> [eff EXCEPT !.binds = {b \in @ : b[1] # r.key}]
      [] r.op = "rule"   -> [eff EXCEPT !.rules = @ \cup {<<r.key, r.val>>}]
      [] r.op = "unrule" -> [eff EXCEPT !.rules = {x \in @ : x[1] # r.key}]

\* hyprctl keyword, with the dots of the key made colons: there is no general:col.
Keyword(eff, r) == IF r.inner = "col" THEN eff ELSE Asked(eff, r)

Rounding(m) == Request("value", "decoration", "", "rounding", m)
Scroll(m) == Request("value", "input", "", "natural_scroll", m)
Touchpad(m) == Request("value", "input", "touchpad", "natural_scroll", m)
Border(m) == Request("value", "general", "col", "active_border", m)
Blur(key, m) == Request("value", "decoration", "blur", key, m)
Shadow(m) == Request("value", "decoration", "shadow", "enabled", m)
On(op, key, m) == Request(op, "", "", key, m)

SectionJobs(m) ==
    {<< <<r>> >> : r \in {Rounding(m), Scroll(m), Touchpad(m), Border(m),
                           On("preset", "enabled", m), On("first", "rounding", m)}}
    \cup {<< <<Blur("enabled", m), Blur("size", m)>> >>,
          << <<Rounding(m)>>, <<Blur("enabled", m)>>, <<Shadow(m)>> >>}

ListJobs(m) ==
    {<< <<On(op, "SUPER+T", m)>> >> : op \in {"bind", "unbind", "release", "raw"}}
    \cup {<< <<On("first", "env", m)>> >>}
    \cup {<< <<On(op, "float", m)>> >> : op \in {"rule", "unrule"}}

\* Files: blocks with a nested block that has the setting, or has not, in every order;
\* a name with a dot or a brace in a comment, before another block; or lines outside
\* blocks, of which the last may lack its newline.
Pieces ==
    {Block("decoration", <<Assign("rounding", 0), Note>>),
     Block("decoration", Block("blur", <<Assign("size", 0)>>) \o <<Assign("rounding", 0)>>),
     Block("decoration", Block("blur", <<>>) \o Block("shadow", <<Assign("enabled", 0)>>)),
     Block("input", Block("touchpad", <<Assign("natural_scroll", 0)>>))}

Odd ==
    {Block("general", <<Assign("col.active_border", 0)>>),
     Block("input", <<Comment(-1)>> \o Block("touchpad", <<Comment(1)>>)),
     Block("decoration", <<Comment(1)>>)}

Lists == {Line("bind", "SUPER+T", 0), Line("bind", "$mainMod+T", 0), Line("rule", "float", 0),
          Line("unbind", "SUPER+T", 0), Assign("env", 0), Note}

Sectioned ==
    {p \o q : p \in Pieces, q \in Pieces \cup {<<>>}}
    \cup {p \o Block("decoration", <<Assign("rounding", 0)>>) : p \in Odd}
Listed == {<<p, q>> : p \in Lists, q \in Lists} \cup {<<Note, q, Unended>> : q \in Lists}

(***************************************************************************)
(* The threads.                                                            *)
(***************************************************************************)
Idle == [at |-> "idle", job |-> <<>>, parts |-> <<>>, copy |-> <<>>, before |-> <<>>, alone |-> FALSE, calm |-> FALSE]

ConfigInit ==
    /\ kind \in {"blocks", "list"}
    /\ lines \in IF kind = "list" THEN Listed ELSE Sectioned
    /\ defaults \in IF kind = "list" THEN SUBSET {"SUPER+T"} ELSE {{}}
    /\ bak = NoBackup
    /\ live = Effective(lines)
    /\ edit = [m \in Editors |-> Idle]

\* Backed up, and not yet read by the window manager.
Working == {m \in Editors : edit[m].at \in {"read", "empty", "fill", "append", "reload"}}

\* The part at hand.
Part(m) == Head(edit[m].parts)

\* remove_keybind leaves a combination alone that is bound by default.
Refused(m) == edit[m].job[1][1].op = "release" /\ edit[m].job[1][1].key \in defaults

Move(m, at) == edit' = [edit EXCEPT ![m].at = at]

Ask(m) ==
    /\ edit[m].at = "idle"
    /\ \E job \in IF kind = "list" THEN ListJobs(m) ELSE SectionJobs(m) :
           edit' = [edit EXCEPT ![m].at = "begin", ![m].job = job]
    /\ UNCHANGED <<lines, bak, live, kind, defaults>>

\* The next edit of a message, if it has one.
After(e) ==
    [Idle EXCEPT !.job = Tail(e.job), !.at = IF Len(e.job) > 1 THEN "begin" ELSE "done"]

Refuse(m) ==
    /\ edit[m].at = "begin" /\ Refused(m)
    /\ edit' = [edit EXCEPT ![m] = After(@)]
    /\ UNCHANGED <<lines, bak, live, kind, defaults>>

\* _backup.  An edit is alone as long as no other one gets in between, and calm as long
\* as those that do only append.
Backup(m) ==
    /\ edit[m].at = "begin" /\ ~Refused(m)
    /\ bak' = lines
    /\ LET appends == Appends(edit[m].job[1][1])
       IN  edit' = [n \in Editors |->
             IF n = m
             THEN [edit[m] EXCEPT !.before = lines, !.alone = (Working = {}),
                                  !.calm = \A w \in Working : Appends(edit[w].job[1][1]),
                                  !.parts = edit[m].job[1],
                                  !.at = IF appends THEN "append" ELSE "read"]
             ELSE [edit[n] EXCEPT !.alone = FALSE, !.calm = @ /\ appends]]
    /\ UNCHANGED <<lines, live, kind, defaults>>

Read(m) ==
    /\ edit[m].at = "read"
    /\ edit' = [edit EXCEPT ![m].copy = Rewritten(lines, Part(m)), ![m].at = "empty"]
    /\ UNCHANGED <<lines, bak, live, kind, defaults>>

\* open(path, "w").
Empty(m) ==
    /\ edit[m].at = "empty"
    /\ lines' = <<>>
    /\ Move(m, "fill")
    /\ UNCHANGED <<bak, live, kind, defaults>>

\* The file is closed: its lines are written from the start of the file over what others
\* have written meanwhile, of which a longer rest stays.  set_value, set_blur and
\* set_monitor give the value to the window manager, set_env_var and the others do not.
\* set_blur goes on with its next part.
Fill(m) ==
    /\ edit[m].at = "fill"
    /\ lines' = edit[m].copy \o SubSeq(lines, Len(edit[m].copy) + 1, Len(lines))
    /\ live' \in CASE Part(m).op = "value" -> {Keyword(live, Part(m))}
                   [] Part(m).op = "first" -> {live, Asked(live, Part(m))}
                   [] OTHER -> {live}
    /\ edit' = [edit EXCEPT ![m].parts = Tail(@),
                            ![m].at = IF Len(edit[m].parts) > 1 THEN "read" ELSE "reload"]
    /\ UNCHANGED <<bak, kind, defaults>>

\* open(path, "a").
Add(m) ==
    /\ edit[m].at = "append"
    /\ lines' = Rewritten(lines, Part(m))
    /\ Move(m, "reload")
    /\ UNCHANGED <<bak, live, kind, defaults>>

\* hyprctl reload.
Reload(m) ==
    /\ edit[m].at = "reload"
    /\ live' = Effective(lines)
    /\ edit' = [edit EXCEPT ![m] = After(@)]
    /\ UNCHANGED <<lines, bak, kind, defaults>>

ConfigNext ==
    \E m \in Editors :
        Ask(m) \/ Refuse(m) \/ Backup(m) \/ Read(m) \/ Empty(m) \/ Fill(m) \/ Add(m) \/ Reload(m)

(***************************************************************************)
(* Correctness.                                                            *)
(***************************************************************************)

\* A setting is clear in a file if it is in one block, the first of its kind, without
\* a namesake in a nested block, its name has no dot and no comment a brace, and a
\* combination if it is always spelt alike.  A line is added to a file that ends with a
\* newline.
Adds(r) == r.op \in {"first", "bind", "unbind", "rule"}

Clear(ls, r) ==
    LET named == {i \in DOMAIN ls : IsAssign(ls[i], r.key)}
        own   == {i \in named : PathAt(ls, i) = Place(r)}
        heads == {i \in DOMAIN ls : ls[i].t = "open" /\ PathAt(ls, i) = Place(r)}
    IN  /\ Adds(r) => Ended(ls)
        /\ CASE r.op = "first"   -> named = own /\ Cardinality(own) <= 1
             [] r.op = "value" ->
                    /\ Name(r) = r.key /\ \A i \in DOMAIN ls : ls[i].t = "note" => ls[i] = Note
                    /\ \A i \in own : Cardinality({a \in heads : a < i}) = 1
                    /\ \A i \in named : IsPrefix(Place(r), PathAt(ls, i)) => i \in own
             [] r.op = "release" ->
                    \A i \in DOMAIN ls : ls[i].t = "bind" => ls[i].key = r.key
             [] OTHER -> TRUE

\* What the window manager reads of settings, combinations and rules of other names.
Others(eff, keys) ==
    [sets  |-> {<<p, eff.sets[p]>> : p \in {q \in DOMAIN eff.sets : Last(q) \notin keys}},
     binds |-> {b \in eff.binds : b[1] \notin keys},
     rules |-> {x \in eff.rules : x[1] \notin keys}]

\* The edit makes the change that was asked for and no other.
Exact(e) == Effective(lines) = FoldLeft(Asked, Effective(e.before), e.job[1])

\* The edit leaves alone what has another name.
Confined(e) ==
    LET keys == {e.job[1][k].key : k \in DOMAIN e.job[1]}
    IN  Others(Effective(lines), keys) = Others(Effective(e.before), keys)

\* Every line of the file is still there, and the new one behind them.
Added(e) ==
    /\ IsPrefix(e.before, lines)
    /\ \E i \in Len(e.before) + 1 .. Len(lines) :
          lines[i].key = e.job[1][1].key /\ lines[i].t \in {e.job[1][1].op, "bind"}

\* An edit no other edit gets in between leaves the window manager doing what the file
\* says and the file as it was for a backup.  If what it sets is clear in the file, it
\* makes the change that was asked for and no other: every other setting, bind and rule
\* is what it was.  If it is not clear (a namesake, a block that is there twice, a name
\* with a dot, a brace in a comment), the edit may miss its setting or hit others of
\* that name, and still touches nothing of another name, as long as the file it adds a
\* line to ends with a newline.  Edits that only append and have only such edits in
\* between lose no line, their own or another's (set_value, set_blur, set_shadow,
\* add_keybind, remove_keybind, unbind_keybind, the rules, switch_animation_preset,
\* each edit of apply_preset).
EditsAreExact ==
    [][\A m \in Editors :
          LET e == edit[m]
              parts == e.job[1]
          IN  e.at = "reload" /\ edit'[m].at # "reload" =>
              /\ e.alone =>
                   /\ live' = Effective(lines) /\ bak = e.before
                   /\ (\A k \in DOMAIN parts : Clear(e.before, parts[k])) => Exact(e)
                   /\ (\A k \in DOMAIN parts : parts[k].op # "preset" /\ (Adds(parts[k]) => Ended(e.before)))
                         => Confined(e)
              /\ e.calm /\ Appends(parts[1]) /\ Ended(e.before) => Added(e)]_configVars

ConfigSpec == ConfigInit /\ [][ConfigNext]_configVars
=============================================================================
