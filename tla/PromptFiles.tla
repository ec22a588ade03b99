---- MODULE PromptFiles ----
(***************************************************************************)
(* The files that go into the system prompt: the identity of SoulManager     *)
(* (soul.ts) and the skills of SkillsManager (skills.ts), as the prompt      *)
(* builder, the orchestrator and the dashboard read and change them.  A hash *)
(* is the content it is of.                                                  *)
(***************************************************************************)
EXTENDS Naturals, Sequences

CONSTANTS Contents,     \* of the soul file, and of a skill file
          Skills,
          Invalid,      \* contents without a valid frontmatter
          AlwaysLoad,   \* skills that go into every prompt
          Off,          \* skills that the configuration disables
          Linked,       \* skills behind a symlink
          NoFile,
          MaxUpdates    \* bound: rows of soul_versions

VARIABLES
  up,         \* the gateway runs
  soulFile,   \* the content on the disk
  blessed,    \* blessedHash, NoFile for ''
  versions,   \* soul_versions: [content, context]
  standing,   \* history: what the gateway loaded or applied last, NoFile if nothing
  skillFile,  \* the content on the disk of each skill
  skills,     \* the Map of each skill: [hash, enabled], hash NoFile if it is not there
  shown       \* history: skill texts the model saw in this process: [skill, content]

files == <<up, soulFile, blessed, versions, standing, skillFile, skills, shown>>
soul == <<soulFile, blessed, versions, standing>>
skill == <<skillFile, skills, shown>>

Absent == [hash |-> NoFile, enabled |-> FALSE]

FilesInit == /\ up = FALSE /\ blessed = NoFile /\ versions = <<>> /\ standing = NoFile
        /\ soulFile \in Contents \cup {NoFile}
        /\ skillFile \in [Skills -> Contents \cup {NoFile}]
        /\ skills = [s \in Skills |-> Absent] /\ shown = {}

(* The constructor of SoulManager *)
LoadSoul ==
  /\ blessed' = soulFile /\ standing' = soulFile
  /\ versions' = IF soulFile # NoFile /\ versions = <<>>
                 THEN <<[content |-> soulFile, context |-> ""]>> ELSE versions
  /\ UNCHANGED soulFile

(* The constructor of SkillsManager *)
LoadSkills ==
  /\ skills' = [s \in Skills |->
       IF s \in Linked \/ skillFile[s] \in Invalid \cup {NoFile} THEN Absent
       ELSE [hash |-> skillFile[s], enabled |-> s \notin Off]]
  /\ shown' = {} /\ UNCHANGED skillFile

StartGateway == ~up /\ up' = TRUE /\ LoadSoul /\ LoadSkills

(* getContentSafe *)
Fallback == "fallback"
SoulRead ==
  IF soulFile = NoFile \/ (blessed # NoFile /\ blessed # soulFile) THEN Fallback ELSE soulFile

(* MUTANT of Applied: the blessed hash stays *)
AppliedUnblessed(c) == soulFile' = c /\ standing' = c /\ UNCHANGED blessed
(* The file is replaced and blessed *)
Applied(c) == soulFile' = c /\ blessed' = c /\ standing' = c

(* applySoulUpdate; if its row cannot be inserted the caller gets an error,   *)
(* and the file stays                                                         *)
ApplySoulUpdate(c, context) ==
  /\ up /\ Applied(c)
  /\ Len(versions) < MaxUpdates
  /\ versions' \in {versions, Append(versions, [content |-> c, context |-> context])}
  /\ UNCHANGED <<up, skill>>

(* An approved propose_soul_update *)
HandleSoulTool(c) == ApplySoulUpdate(c, "session")
(* POST /api/soul/update *)
UpdateSoul(c) == ApplySoulUpdate(c, "web-dashboard")

(* MUTANT of GetSkillContent: the hash is not compared *)
GetSkillContentUnchecked(s) ==
  IF ~skills[s].enabled THEN "off" ELSE IF skillFile[s] = NoFile THEN "error" ELSE "same"
(* getSkillContent: what becomes of a read *)
GetSkillContent(s) ==
  IF ~skills[s].enabled THEN "off"
  ELSE IF skillFile[s] = NoFile THEN "error"
  ELSE IF skillFile[s] # skills[s].hash THEN "tampered" ELSE "same"

(* Reads of the skills in S, of which those in T are shown *)
ReadSkills(S, T) ==
  /\ skills' = [s \in Skills |-> IF s \in S /\ GetSkillContent(s) = "tampered"
                                 THEN [skills[s] EXCEPT !.enabled = FALSE] ELSE skills[s]]
  /\ shown' = shown \cup {[skill |-> s, content |-> skillFile[s]] : s \in T}
  /\ UNCHANGED <<up, skillFile, soul>>

Same(S) == {s \in S : GetSkillContent(s) = "same"}

(* formatSkillsSection; the texts that exceed the budget are left out *)
FormatSkillsSection == up /\ \E T \in SUBSET Same(AlwaysLoad) : ReadSkills(AlwaysLoad, T)

(* handleSkillTool: load_skill of any name the model asks for *)
HandleSkillTool(s) == up /\ ReadSkills({s}, Same({s}))

(* Somebody edits or removes a file *)
EditSoul(c) == soulFile' = c /\ soulFile # c /\ UNCHANGED <<up, blessed, versions, standing, skill>>
EditSkill(s, c) ==
  /\ skillFile[s] # c /\ skillFile' = [skillFile EXCEPT ![s] = c]
  /\ UNCHANGED <<up, soul, skills, shown>>

(* The process ends; in the middle of an update the file may be replaced     *)
(* already, and its row not written                                          *)
Crash ==
  /\ up /\ up' = FALSE
  /\ soulFile' \in {soulFile} \cup Contents
  /\ blessed' = NoFile /\ standing' = NoFile
  /\ skills' = [s \in Skills |-> Absent] /\ shown' = {}
  /\ UNCHANGED <<versions, skillFile>>

FilesNext ==
  \/ StartGateway \/ FormatSkillsSection \/ Crash
  \/ \E c \in Contents : HandleSoulTool(c) \/ UpdateSoul(c)
  \/ \E s \in Skills : HandleSkillTool(s)
  \/ \E c \in Contents \cup {NoFile} : EditSoul(c) \/ \E s \in Skills : EditSkill(s, c)

FilesSpec == FilesInit /\ [][FilesNext]_files

PromptTypeOK ==
  LET Files == Contents \cup {NoFile} IN
  /\ up \in BOOLEAN /\ {soulFile, blessed, standing} \subseteq Files
  /\ Len(versions) <= MaxUpdates
  /\ skillFile \in [Skills -> Files]
  /\ skills \in [Skills -> [hash : Files, enabled : BOOLEAN]]
  /\ shown \subseteq [skill : Skills, content : Contents]

(* Of a gateway that once had an identity, the prompt carries the last one    *)
(* that was loaded or applied as long as the file holds it, and the fallback  *)
(* otherwise, through edits, proposals, the dashboard and failed inserts; and *)
(* no skill text but those that were there at the start is ever shown         *)
PromptVerified ==
  /\ standing # NoFile => SoulRead = IF soulFile = standing THEN standing ELSE Fallback
  /\ \A x \in shown : x.content = skills[x.skill].hash
====
