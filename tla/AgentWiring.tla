---------------------------- MODULE AgentWiring ----------------------------
(* `ocn agent setup` and the teardown of `ocn stop` (src/core/agent-setup):  *)
(* two ways over the same four files, of which the user has a share in two.  *)
(*                                                                           *)
(* A project w has                                                           *)
(*   settings  .claude/settings.json, and backup, its copy under .bak        *)
(*   ocnMd, command  .claude/ocn.md and /ocn-next, which are OCN's           *)
(*   claudeMd  CLAUDE.md as the sequence of its lines; blank ones and the    *)
(*             text of the user's are left out                               *)
(* Of the settings there are the slots of the two hook events and the env;   *)
(* "more" says that the user has other keys beside them.  A slot is a        *)
(* sequence of groups and a group the set of its commands: OCN's, one that   *)
(* the user has made of it, or the user's own.                               *)
EXTENDS SequenceParts, SequencesExt

Events == {"Stop", "PostToolUse"}

Commands == {"ocn", "custom", "own"}   \* custom: OCN's, as the user has made it

SettingsForms == {"absent", "broken", "object"}   \* broken: not a JSON object
PartForms     == {"absent", "other", "object"}    \* other: of another type
SlotForms     == {"absent", "other", "array"}

NoSlot  == [form |-> "absent", groups |-> <<>>]
NoHooks == [form |-> "absent", slots |-> [e \in Events |-> NoSlot], more |-> FALSE]
NoEnv   == [form |-> "absent", actor |-> "none", more |-> FALSE]

NoSettings == [form |-> "absent", hooks |-> NoHooks, env |-> NoEnv]

\* The marker and the import; the title is that of a CLAUDE.md OCN has made.
Lines == {"own", "marker", "import", "title"}

---------------------------------------------------------------------------
(* Settings *)

\* Customized variants count as OCN's.
ContainsOcnHook(group) == group \cap {"ocn", "custom"} # {}

OwnGroups == {g \in SUBSET Commands : ~ContainsOcnHook(g)}

HasOcnHook(slot) == \E i \in DOMAIN slot.groups : ContainsOcnHook(slot.groups[i])

\* Mutated form: a group is appended whether or not there is one.
AppendEventGroup(slot) == [form |-> "array", groups |-> Append(slot.groups, {"ocn"})]

EnsureEventGroup(slot) ==
  IF HasOcnHook(slot) THEN slot
  ELSE [form |-> "array", groups |-> Append(slot.groups, {"ocn"})]

\* A customized actor is left as it is.
EnsureActorEnv(env) ==
  [env EXCEPT !.form = "object", !.actor = IF @ = "none" THEN "ai_agent" ELSE @]

Malformed(s) ==
  \/ s.form = "broken"
  \/ s.form = "object" /\ \/ s.hooks.form = "other" \/ s.env.form = "other"
                          \/ \E e \in Events : s.hooks.slots[e].form = "other"

MergeClaudeSettings(s) ==
  [form  |-> "object",
   hooks |-> [s.hooks EXCEPT !.form = "object",
                !.slots = [e \in Events |-> EnsureEventGroup(s.hooks.slots[e])]],
   env   |-> EnsureActorEnv(s.env)]

\* What keeps none of its groups goes; a slot without OCN's is not touched.
StripSlot(slot) ==
  LET kept == Only(slot.groups, OwnGroups)
  IN  IF slot.form # "array" \/ kept = slot.groups THEN slot
      ELSE IF kept = <<>> THEN NoSlot
      ELSE [slot EXCEPT !.groups = kept]

PruneHooks(hooks) ==
  IF hooks.form = "object" /\ ~hooks.more /\ \A e \in Events : hooks.slots[e].form = "absent"
  THEN NoHooks ELSE hooks

StripEnv(env) ==
  IF env.form # "object" \/ env.actor # "ai_agent" THEN env
  ELSE IF env.more THEN [env EXCEPT !.actor = "none"]
  ELSE NoEnv

\* Settings of which nothing is OCN's, or that do not parse, are not rewritten.
UnmergeClaudeSettings(s) ==
  LET slots == [e \in Events |-> IF s.hooks.form = "object" THEN StripSlot(s.hooks.slots[e])
                                 ELSE s.hooks.slots[e]]
      env   == StripEnv(s.env)
  IN  IF s.form # "object" \/ (slots = s.hooks.slots /\ env = s.env) THEN s
      ELSE [s EXCEPT !.hooks = PruneHooks([@ EXCEPT !.slots = slots]), !.env = env]

---------------------------------------------------------------------------
(* CLAUDE.md *)

EnsureClaudeMdImport(md) ==
  IF md.form = "absent" THEN [form |-> "text", lines |-> <<"title", "marker", "import">>]
  ELSE IF "import" \in ToSet(md.lines) THEN md
  ELSE [md EXCEPT !.lines = @ \o <<"marker", "import">>]

RemoveOcnImport(md) ==
  [md EXCEPT !.lines = Only(@, Lines \ {"marker", "import"})]

---------------------------------------------------------------------------
(* The commands, as far as the first n of their four files *)

\* Malformed settings are refused before anything is written, or with --force
\* kept under .bak and begun anew.
ApplySettings(w) ==
  IF Malformed(w.settings)
  THEN [w EXCEPT !.backup = w.settings, !.settings = MergeClaudeSettings(NoSettings)]
  ELSE [w EXCEPT !.settings = MergeClaudeSettings(@)]

Accepts(w, force) == force \/ ~Malformed(w.settings)

SetupAgentIntegration(w, force, n) ==
  LET applied == ApplySettings(w)
  IN  IF n = 0 \/ ~Accepts(w, force) THEN w
      ELSE [applied EXCEPT !.ocnMd    = IF n > 1 THEN "current" ELSE @,
                           !.command  = IF n > 2 THEN "current" ELSE @,
                           !.claudeMd = IF n > 3 THEN EnsureClaudeMdImport(@) ELSE @]

TeardownAgentIntegration(w, n) ==
  [w EXCEPT !.ocnMd    = IF n > 0 THEN "absent" ELSE @,
            !.command  = IF n > 1 THEN "absent" ELSE @,
            !.settings = IF n > 2 THEN UnmergeClaudeSettings(@) ELSE @,
            !.claudeMd = IF n > 3 THEN RemoveOcnImport(@) ELSE @]

---------------------------------------------------------------------------
(* Property *)

\* Each hook event and the environment lead to OCN, and its texts are there.
Installed(w) ==
  /\ \A e \in Events : HasOcnHook(w.settings.hooks.slots[e])
  /\ w.settings.env.actor # "none"
  /\ "import" \in ToSet(w.claudeMd.lines)
  /\ w.ocnMd = "current" /\ w.command = "current"

\* Nothing of it is left in what can be read.
Removed(w) ==
  /\ w.settings.form = "object" =>
       /\ w.settings.hooks.form = "object" =>
            \A e \in Events : ~HasOcnHook(w.settings.hooks.slots[e])
       /\ w.settings.env.actor # "ai_agent"
  /\ {"marker", "import"} \cap ToSet(w.claudeMd.lines) = {}
  /\ w.ocnMd = "absent" /\ w.command = "absent"

\* What is the user's: their groups in each event, their actor, everything else
\* in the settings, and their lines.
Users(w) ==
  [groups |-> [e \in Events |-> Only(w.settings.hooks.slots[e].groups, OwnGroups)],
   actor  |-> IF w.settings.env.actor = "user" THEN "user" ELSE "none",
   more   |-> <<w.settings.hooks.more, w.settings.env.more>>,
   lines  |-> Only(w.claudeMd.lines, {"own"})]

\* Setup and teardown are each other's inverse as far as OCN goes and leave the
\* rest alone, whatever the user has made of the files and wherever a run of
\* either stopped half-way (setup.ts:100-101, teardown.ts:5-13): setup is refused
\* with nothing written, or run again comes to what one run would have, wired
\* and with the user's part as it was; a teardown run again leaves nothing of
\* OCN's that can be read, and the user's part as it was before the setup.
WiringComesOff(w, force, n) ==
  LET half == SetupAgentIntegration(w, force, n)
      on   == SetupAgentIntegration(half, force, 4)
      off  == TeardownAgentIntegration(TeardownAgentIntegration(on, n), 4)
  IN  /\ ~Accepts(w, force) => on = w
      /\ Accepts(w, force) => /\ on = SetupAgentIntegration(w, force, 4)
                              /\ Installed(on)
      /\ off = TeardownAgentIntegration(on, 4)
      /\ Removed(off)
      /\ IF Accepts(w, force) /\ Malformed(w.settings) THEN off.backup = w.settings
         ELSE Users(on) = Users(w) /\ Users(off) = Users(w)
=============================================================================
