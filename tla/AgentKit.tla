------------------------------ MODULE AgentKit ------------------------------
(***************************************************************************)
(* What setup, repair and install-agent write for the agents of a project   *)
(* (skill.ts, setup.ts, init.ts, gitignore.ts): the kit under .ragmir, a    *)
(* skill in the directory of each agent, the lines of .gitignore; and the   *)
(* block that `rgr hooks` keeps in a Git hook (git-hooks.ts).  Files of the  *)
(* user stand in the same places, and a command may be cut short anywhere.   *)
(***************************************************************************)
EXTENDS Helpers, FiniteSets

CONSTANTS
    AgentOrder,   \* SUPPORTED_AGENT_TARGETS
    MaxInstalls,  \* bound on the commands
    MaxEdits,     \* bound on what the user does
    OwnLines      \* bound on the lines of the user in a hook

VARIABLES
    skill,      \* [agent -> what stands where its skill goes]
    retired,    \* [agent -> the retired skill there]
    kit,        \* the files under .ragmir
    ignored,    \* the lines of .gitignore
    installer,  \* the command that runs
    lost,       \* (history) the agents whose unmanaged skill went unforced
    effort,     \* how many commands and edits there were
    hook,       \* the lines of a hook, or None
    own         \* (history) the lines of the user in it

kitVars == <<skill, retired, kit, ignored, installer, lost, effort>>
hookVars == <<hook, own>>
agentKitVars == <<kitVars, hookVars>>

Agents == ToSet(AgentOrder)
Skills == {"none", "link", "copy",  \* into this kit; with the marker of Ragmir
           "edited",                \* a copy the user changed: the marker is still there
           "partial", "unmarked",   \* what a copy that was cut short leaves
           "elsewhere", "user"}     \* a link into another kit; a skill of the user
NoInstall == [step |-> "idle"]

AgentKitInit ==
    /\ skill \in [Agents -> {"none", "copy", "elsewhere"}]
    /\ retired \in {[a \in Agents |-> as] : as \in {"none", "copy", "user"}}
    /\ kit \in [config : {FALSE}, skill : {FALSE}, retired : BOOLEAN, runner : {FALSE}, mcp : {FALSE},
                helpers : {{}}, guides : {FALSE}]
    /\ ignored = {} /\ installer = NoInstall /\ lost = {} /\ effort = [installs |-> 0, edits |-> 0]
    /\ hook = None /\ own = <<>>

-----------------------------------------------------------------------------
(* What the program makes of what stands there.                             *)

\* detectedAgentTargets: a SKILL.md is read through the link.
Exposed(a) ==
    \/ skill[a] \in {"copy", "edited", "unmarked", "elsewhere", "user"}
    \/ skill[a] = "link" /\ kit.skill
ProjectAgents == {a \in Agents : Exposed(a)}

\* assertManagedSkillTarget
Replaceable_AnyLink(a, force) == force \/ skill[a] \in {"none", "link", "copy", "edited", "elsewhere"}
Replaceable(a, force) == force \/ skill[a] \in {"none", "link", "copy", "edited"}

\* removeRetiredSkills, outside the kit: what the marker or a link says is Ragmir's.
ManagedRetired(a) == retired[a] \in {"link", "copy"}

\* isAgentKitInstalled
AgentKitInstalled == kit.skill /\ kit.runner /\ kit.mcp /\ kit.guides /\ kit.helpers # {}

-----------------------------------------------------------------------------
(* One command: initProject, installSkill, then agent after agent.           *)

At(step) == installer.step = step
Go(step) == installer' = [installer EXCEPT !.step = step]
Chosen(agents) == SelectSeq(AgentOrder, LAMBDA a : a \in agents)
Install(by, agents, mode, force) ==
    /\ At("idle") /\ effort.installs < MaxInstalls
    /\ effort' = [effort EXCEPT !.installs = @ + 1]
    /\ installer' = [step |-> IF by = "install-agent" THEN "skills" ELSE "init", by |-> by, agents |-> agents,
                     left |-> AgentOrder, mode |-> mode, force |-> force, before |-> ProjectAgents]
    /\ UNCHANGED <<skill, retired, kit, ignored, lost>>

SetupProject(agents, force) == Install("setup", agents, "link", force)
InstallAgentSkills(agents, mode, force) == Install("install-agent", agents, mode, force)
RepairProject_All == Install("repair", Agents, "link", FALSE)
RepairProject == Install("repair", IF ProjectAgents = {} THEN Agents ELSE ProjectAgents, "link", FALSE)

InitProject ==
    /\ At("init") /\ Go("skills")
    /\ kit' = [kit EXCEPT !.config = TRUE] /\ ignored' = ignored \cup {".ragmir"}
    /\ UNCHANGED <<skill, retired, lost, effort>>

CopyBundledSkills ==
    /\ At("skills") /\ Go("runner")
    /\ kit' = [kit EXCEPT !.skill = TRUE, !.retired = FALSE]
    /\ UNCHANGED <<skill, retired, ignored, lost, effort>>

WriteRunner ==
    /\ At("runner") /\ Go("command")
    /\ kit' = [kit EXCEPT !.runner = TRUE]
    /\ UNCHANGED <<skill, retired, ignored, lost, effort>>

\* resolveMcpCommand throws over its options only now.
ResolveMcpCommand ==
    /\ At("command")
    /\ \/ Go("helpers") /\ kit' = [kit EXCEPT !.mcp = TRUE]
       \/ installer.by # "repair" /\ installer' = NoInstall /\ UNCHANGED kit
    /\ UNCHANGED <<skill, retired, ignored, lost, effort>>

WriteHelper ==
    /\ At("helpers") /\ installer.left # <<>>
    /\ LET a == Head(installer.left)
       IN  kit' = [kit EXCEPT !.helpers = IF a \in installer.agents THEN @ \cup {a} ELSE @ \ {a}]
    /\ installer' = [installer EXCEPT !.left = Tail(@)]
    /\ UNCHANGED <<skill, retired, ignored, lost, effort>>

WriteGuides ==
    /\ At("helpers") /\ installer.left = <<>>
    /\ kit' = [kit EXCEPT !.guides = TRUE] /\ ignored' = ignored \cup {".ragmir"}
    /\ installer' = [installer EXCEPT !.step = "retire", !.left = Chosen(installer.agents)]
    /\ UNCHANGED <<skill, retired, lost, effort>>

Turn == Head(installer.left)
RemoveRetiredSkills ==
    /\ At("retire") /\ installer.left # <<>> /\ Go("claim")
    /\ retired' = [retired EXCEPT ![Turn] = IF ManagedRetired(Turn) THEN "none" ELSE @]
    /\ UNCHANGED <<skill, kit, ignored, lost, effort>>

\* exposeAgentSkills: a refused link is tried as a copy, and refused again.
ClaimTarget ==
    /\ At("claim") /\ Replaceable(Turn, installer.force)
    /\ skill' = [skill EXCEPT ![Turn] = "none"]
    /\ lost' = IF ~installer.force /\ skill[Turn] \in {"partial", "unmarked", "elsewhere", "user"}
               THEN lost \cup {Turn} ELSE lost
    /\ Go(installer.mode)
    /\ UNCHANGED <<retired, kit, ignored, effort>>
RefuseTarget ==
    /\ At("claim") /\ ~Replaceable(Turn, installer.force)
    /\ installer' = NoInstall
    /\ UNCHANGED <<skill, retired, kit, ignored, lost, effort>>

Placed(as, step) ==
    /\ skill' = [skill EXCEPT ![Turn] = as]
    /\ installer' = [installer EXCEPT !.step = step, !.left = IF step = "retire" THEN Tail(@) ELSE @]
    /\ UNCHANGED <<retired, kit, ignored, lost, effort>>
LinkSkill == At("link") /\ Placed("link", "retire")
LinkFails == At("link") /\ Placed("none", "copy")
CopySkill == At("copy") /\ Placed("unmarked", "mark")
MarkCopy == At("mark") /\ Placed("copy", "retire")

IgnoreTargets ==
    /\ At("retire") /\ installer.left = <<>> /\ Go("installed")
    /\ ignored' = ignored \cup {".ragmir"} \cup installer.agents
    /\ UNCHANGED <<skill, retired, kit, lost, effort>>
Installed ==
    /\ At("installed") /\ installer' = NoInstall
    /\ UNCHANGED <<skill, retired, kit, ignored, lost, effort>>

\* The command dies or one of its calls fails; a recursive copy may stop anywhere.
CutShort ==
    /\ ~At("idle") /\ installer' = NoInstall
    /\ \/ UNCHANGED skill
       \/ At("copy") /\ skill' = [skill EXCEPT ![Turn] = "partial"]
    /\ UNCHANGED <<retired, kit, ignored, lost, effort>>

\* The user writes a skill, changes a copy or removes what is there.
UserEdits(a) ==
    /\ At("idle") /\ effort.edits < MaxEdits
    /\ effort' = [effort EXCEPT !.edits = @ + 1]
    /\ \/ skill[a] = "none" /\ skill' = [skill EXCEPT ![a] = "user"]
       \/ skill[a] = "copy" /\ skill' = [skill EXCEPT ![a] = "edited"]
       \/ skill[a] # "none" /\ skill' = [skill EXCEPT ![a] = "none"]
    /\ UNCHANGED <<retired, kit, ignored, installer, lost>>

KitNext ==
    \/ \E agents \in SUBSET Agents \ {{}}, force \in BOOLEAN :
          \/ SetupProject(agents, force)
          \/ \E mode \in {"link", "copy"} : InstallAgentSkills(agents, mode, force)
    \/ RepairProject
    \/ InitProject \/ CopyBundledSkills \/ WriteRunner \/ ResolveMcpCommand \/ WriteHelper \/ WriteGuides
    \/ RemoveRetiredSkills \/ ClaimTarget \/ RefuseTarget
    \/ LinkSkill \/ LinkFails \/ CopySkill \/ MarkCopy \/ IgnoreTargets \/ Installed
    \/ CutShort
    \/ \E a \in Agents : UserEdits(a)

-----------------------------------------------------------------------------
(* A Git hook, line by line.                                                *)

Block(body) == <<"start", body, "end">>
Blanks == {"blank"}
TrimmedEnd(f) == SubSeq(f, 1, Max({0} \cup {k \in DOMAIN f : f[k] \notin Blanks}))
FirstLine(f, line) == CHOOSE k \in DOMAIN f : f[k] = line /\ \A j \in 1 .. k - 1 : f[j] # line
BlockEnd(f) == IF "end" \in ToSet(f) THEN FirstLine(f, "end") ELSE Len(f)

WithRagmirBlock_AtEnd(f, block) ==
    IF IF f = None THEN TRUE ELSE TrimmedEnd(f) = <<>> THEN <<"shebang", "blank">> \o block
    ELSE IF "start" \in ToSet(f)
         THEN SubSeq(f, 1, FirstLine(f, "start") - 1) \o block \o SubSeq(f, BlockEnd(f) + 1, Len(f))
    ELSE TrimmedEnd(f) \o <<"blank">> \o block
WithRagmirBlock(f, block) ==
    IF IF f = None THEN TRUE ELSE TrimmedEnd(f) = <<>> THEN <<"shebang", "blank">> \o block
    ELSE IF "start" \in ToSet(f)
         THEN SubSeq(f, 1, FirstLine(f, "start") - 1) \o block \o SubSeq(f, BlockEnd(f) + 1, Len(f))
    ELSE LET lines == TrimmedEnd(f)
         \* Nothing behind a final exit would run.
         IN  IF Last(lines) = "exit" THEN Front(lines) \o <<"blank">> \o block \o <<"exit">>
             ELSE lines \o <<"blank">> \o block

WithoutRagmirBlock(f) ==
    LET at == FirstLine(f, "start")
        from == IF at > 2 /\ f[at - 1] \in Blanks THEN at - 1 ELSE at
    IN  IF "start" \notin ToSet(f) THEN f ELSE SubSeq(f, 1, from - 1) \o SubSeq(f, BlockEnd(f) + 1, Len(f))

\* A directory of hooks inside the working tree is touched only if husky owns it, or by force.
InstallGitHook(body, at, force) ==
    /\ at = "tracked" => force
    /\ hook' = WithRagmirBlock(hook, Block(body))
    /\ UNCHANGED own
UninstallGitHook ==
    /\ hook # None
    /\ LET next == WithoutRagmirBlock(hook)
       IN  hook' = IF next # hook /\ ToSet(next) \subseteq Blanks \cup {"shebang"} THEN None ELSE next
    /\ UNCHANGED own

\* The user adds lines at the end; nothing goes behind an exit.
EditHook(line) ==
    /\ Len(own) < OwnLines /\ "exit" \notin ToSet(own)
    /\ own' = Append(own, line)
    /\ hook' = (IF hook = None THEN <<"shebang">> ELSE hook) \o <<line>>
BlankHook ==
    /\ hook # None => Last(hook) \notin Blanks
    /\ hook' = (IF hook = None THEN <<>> ELSE hook) \o <<"blank">>
    /\ UNCHANGED own

HookNext ==
    \/ \E body \in {"old body", "body"}, at \in {"git", "husky", "tracked"}, force \in BOOLEAN :
          InstallGitHook(body, at, force)
    \/ UninstallGitHook
    \/ \E line \in {"line", "other", "exit"} : EditHook(line)
    \/ BlankHook

AgentKitNext ==
    \/ KitNext /\ UNCHANGED hookVars
    \/ HookNext /\ UNCHANGED kitVars

-----------------------------------------------------------------------------
(* Properties.                                                              *)

\* A command that ends well leaves each agent it was asked for with a skill of Ragmir, a helper
\* and a line in .gitignore, no retired skill that is Ragmir's, and what doctor calls a kit.
InstalledSound ==
    At("installed") =>
        /\ AgentKitInstalled /\ kit.helpers = installer.agents /\ ~kit.retired
        /\ {".ragmir"} \cup installer.agents \subseteq ignored
        /\ \A a \in installer.agents : Exposed(a) /\ skill[a] \in {"link", "copy"} /\ ~ManagedRetired(a)

\* A repair exposes the agents that were exposed, and no other.
RepairKeepsAgents ==
    (At("installed") /\ installer.by = "repair" /\ installer.before # {}) => ProjectAgents = installer.before

\* What Ragmir did not put there goes only by force, retired skills of the user never.
UnmanagedKept == lost = {}

\* A hook has at most one block, which runs before a final exit, and keeps the lines of the user.
HookSound ==
    \/ hook = None /\ own = <<>>
    \/ /\ hook # None
       /\ SelectSeq(hook, LAMBDA l : l \in {"line", "other", "exit"}) = own
       /\ "start" \in ToSet(hook) =>
            LET at == FirstLine(hook, "start")
            IN  /\ Len(hook) >= at + 2 /\ hook[at + 2] = "end"
                /\ \A k \in DOMAIN hook \ {at, at + 1, at + 2} : hook[k] \notin {"start", "end", "body", "old body"}
                /\ "exit" \notin ToSet(SubSeq(hook, 1, at))

\* Skills, helpers and hooks are what the commands report, and what is not Ragmir's is as it was.
AgentKitSound == InstalledSound /\ RepairKeepsAgents /\ UnmanagedKept /\ HookSound
=============================================================================
