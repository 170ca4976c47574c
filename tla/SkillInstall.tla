---------------------------- MODULE SkillInstall ----------------------------
(***************************************************************************)
(* selfhosted/envinit/initializer.go: the worker installs the skills of a  *)
(* session before it runs, one after the other, and removes them at its    *)
(* end (lib/environments/worker.go, handleItem).  Each step is one call of *)
(* the file system or the control plane, which may fail, and the process   *)
(* may die between two.                                                    *)
(*                                                                         *)
(* Archives and their entries are left out, with the limits on them: to    *)
(* extract one succeeds or fails.                                          *)
(***************************************************************************)
EXTENDS Naturals, Sequences

CONSTANTS Names,         \* of the skills' directories
          SkillLists,    \* the skills a session may refer to, in order
          NoSkill, Torn,
          MaxSessions,   \* bounds the model, as does ...
          MaxFaults      \* ... how often each kind of fault happens

Kinds == {"fetch", "io", "remove", "crash"}

ASSUME ListsAssumption == SkillLists \subseteq Seq(Names)
ASSUME BoundsAssumption == MaxSessions \in Nat /\ MaxFaults \in [Kinds -> Nat]
ASSUME SkillsAssumption == {NoSkill, Torn} \cap (0..MaxSessions) = {} /\ NoSkill # Torn

VARIABLES slot,       \* the directory of each skill
          installed,  \* installedSkillDirs
          pc, refs,   \* the skills still to be installed, or to be removed
          flat,       \* the archive's files are not in one directory: source = tmp
          archive, tmp, backup,   \* what the installation under way has made
          litter,     \* what was left behind: history
          session,
          failed,     \* the calls that failed in the installation under way: history
          faults      \* how often what has happened: history

files == <<archive, tmp, backup>>
vars == <<slot, installed, pc, refs, flat, archive, tmp, backup, litter, session, failed, faults>>

Fault(kind) == faults[kind] < MaxFaults[kind] /\ faults' = [faults EXCEPT ![kind] = @ + 1]

\* A call of the installation under way fails.
CallFails == Fault("io") /\ failed' = failed + 1

Contents == 0..MaxSessions

TypeOK ==
  /\ slot \in [Names -> Contents \cup {NoSkill, Torn}]
  /\ installed \in Seq(Names) /\ refs \in Seq(Names)
  /\ pc \in {"idle", "next", "copy", "mktemp", "extract", "commit", "mkbackup", "moveaway",
             "movein", "rollback", "tidy", "running", "cleanup"}
  /\ flat \in BOOLEAN /\ archive \in BOOLEAN /\ tmp \in BOOLEAN
  /\ backup \in Contents \cup {NoSkill, Torn}
  /\ litter \subseteq {"archive", "tmp", "backup"}
  /\ session \in Contents /\ failed \in 0..2 /\ faults \in [Kinds -> Nat]

Init ==
  /\ slot \in [Names -> {NoSkill, 0}]
  /\ installed = <<>> /\ refs = <<>> /\ pc = "idle" /\ flat = FALSE
  /\ archive = FALSE /\ tmp = FALSE /\ backup = NoSkill
  /\ litter = {} /\ session = 0 /\ failed = 0 /\ faults = [k \in Kinds |-> 0]

-----------------------------------------------------------------------------
(* Setup                                                                   *)

\* A directory that cannot be created ends the session's setup: Cleanup has nothing to do.
Begin ==
  /\ pc = "idle" /\ session < MaxSessions
  /\ session' = session + 1
  /\ pc' = "next" /\ refs' \in SkillLists
  /\ UNCHANGED <<slot, installed, flat, files, litter, faults, failed>>

Name == Head(refs)

\* The skill is resolved, its name checked and its archive opened.
Fetch ==
  /\ pc = "next" /\ refs # <<>>
  /\ pc' = "copy" /\ failed' = 0
  /\ UNCHANGED <<slot, installed, refs, flat, files, litter, session, faults>>

FetchFails ==
  /\ pc = "next" /\ refs # <<>> /\ Fault("fetch")
  /\ refs' = Tail(refs)
  /\ UNCHANGED <<slot, installed, pc, flat, files, litter, session, failed>>

\* copyArchive; it removes its file if it cannot copy.
Copy ==
  /\ pc = "copy"
  /\ pc' = "mktemp" /\ archive' = TRUE
  /\ UNCHANGED <<slot, installed, refs, flat, tmp, backup, litter, session, failed, faults>>

CopyFails ==
  /\ pc = "copy" /\ CallFails
  /\ pc' = "next" /\ refs' = Tail(refs)
  /\ UNCHANGED <<slot, installed, flat, files, litter, session>>

MkdirTemp ==
  /\ pc = "mktemp"
  /\ pc' = "extract" /\ tmp' = TRUE
  /\ UNCHANGED <<slot, installed, refs, flat, archive, backup, litter, session, failed, faults>>

Extract ==
  /\ pc = "extract"
  /\ pc' = "commit" /\ flat' \in BOOLEAN
  /\ UNCHANGED <<slot, installed, refs, files, litter, session, failed, faults>>

\* Whatever fails before the old skill has left its place, nothing has changed there.
StepFails ==
  /\ pc \in {"mktemp", "extract", "commit", "mkbackup", "moveaway"} /\ CallFails
  /\ pc' = "tidy"
  /\ UNCHANGED <<slot, installed, refs, flat, files, litter, session>>

-----------------------------------------------------------------------------
(* replaceSkillDir                                                         *)

Lstat ==
  /\ pc = "commit"
  /\ pc' = IF slot[Name] = NoSkill THEN "movein" ELSE "mkbackup"
  /\ UNCHANGED <<slot, installed, refs, flat, files, litter, session, failed, faults>>

\* MkdirTemp and Remove choose a name that is free; the directory may resist.
MkBackup ==
  /\ pc = "mkbackup"
  /\ \/ pc' = "moveaway" /\ UNCHANGED <<litter, faults>>
     \/ Fault("remove") /\ pc' = "tidy" /\ litter' = litter \cup {"backup"}
  /\ UNCHANGED <<slot, installed, refs, flat, files, session, failed>>

MoveAway ==
  /\ pc = "moveaway"
  /\ pc' = "movein"
  /\ backup' = slot[Name] /\ slot' = [slot EXCEPT ![Name] = NoSkill]
  /\ UNCHANGED <<installed, refs, flat, archive, tmp, litter, session, failed, faults>>

\* Faulty: the session is written down, not the skill.
RecordsSession == Append(installed, session)

\* Faulty: the installation is not written down.
ForgetInstalled == installed

\* installedSkillDirs.
Recorded == Append(installed, Name)

\* The new skill takes its place; tmp itself, or the one directory in it.
MoveIn ==
  /\ pc = "movein"
  /\ pc' = "tidy"
  /\ slot' = [slot EXCEPT ![Name] = session]
  /\ installed' = Recorded
  /\ tmp' = ~flat
  /\ UNCHANGED <<refs, flat, archive, backup, litter, session, failed, faults>>

\* Faulty: the old skill stays where it was moved to.
NoRollback == "tidy"

AfterMoveInFails == IF backup = NoSkill THEN "tidy" ELSE "rollback"

MoveInFails ==
  /\ pc = "movein" /\ CallFails
  /\ pc' = AfterMoveInFails
  /\ UNCHANGED <<slot, installed, refs, flat, files, litter, session>>

Rollback ==
  /\ pc = "rollback"
  /\ pc' = "tidy"
  /\ slot' = [slot EXCEPT ![Name] = backup] /\ backup' = NoSkill
  /\ UNCHANGED <<installed, refs, flat, archive, tmp, litter, session, failed, faults>>

\* The backup is all that is left of the skill, and nobody looks for it.
RollbackFails ==
  /\ pc = "rollback" /\ CallFails
  /\ pc' = "tidy"
  /\ litter' = litter \cup {"backup"} /\ backup' = NoSkill
  /\ UNCHANGED <<slot, installed, refs, flat, archive, tmp, session>>

\* Faulty: the backup of the skill that was replaced is kept.
KeepsBackup == {"archive", "tmp"}

\* The backup and tmp are removed, and the archive: by deferred calls after an error.
Tidied == {"archive", "tmp", "backup"}

Left == {f \in {"archive", "tmp", "backup"} : \/ f = "archive" /\ archive
                                              \/ f = "tmp" /\ tmp
                                              \/ f = "backup" /\ backup # NoSkill}

Tidy ==
  /\ pc = "tidy"
  /\ pc' = "next" /\ refs' = Tail(refs)
  /\ archive' = FALSE /\ tmp' = FALSE /\ backup' = NoSkill
  /\ \/ litter' = litter \cup (Left \ Tidied) /\ UNCHANGED faults
     \/ Fault("remove") /\ \E f \in Left : litter' = litter \cup {f}
  /\ UNCHANGED <<slot, installed, flat, session, failed>>

-----------------------------------------------------------------------------
(* The session and its end                                                 *)

SetupEnds ==
  /\ pc = "next" /\ refs = <<>>
  /\ pc' = "running"
  /\ UNCHANGED <<slot, installed, refs, flat, files, litter, session, failed, faults>>

SessionEnds ==
  /\ pc = "running"
  /\ pc' = "cleanup" /\ refs' = installed
  /\ UNCHANGED <<slot, installed, flat, files, litter, session, failed, faults>>

\* Cleanup, one directory after the other; one that resists is passed over.
CleanUpOne ==
  /\ pc = "cleanup" /\ refs # <<>>
  /\ refs' = Tail(refs)
  /\ \/ slot' = [slot EXCEPT ![Name] = NoSkill] /\ UNCHANGED faults
     \/ Fault("remove") /\ UNCHANGED slot
  /\ UNCHANGED <<installed, pc, flat, files, litter, session, failed>>

CleanupEnds ==
  /\ pc = "cleanup" /\ refs = <<>>
  /\ pc' = "idle" /\ installed' = <<>>
  /\ UNCHANGED <<slot, refs, flat, files, litter, session, failed, faults>>

\* The process dies: the files stay, a directory that was being removed in part.
Crash ==
  /\ pc # "idle" /\ Fault("crash")
  /\ \/ UNCHANGED slot
     \/ pc = "cleanup" /\ refs # <<>> /\ slot[Name] # NoSkill
        /\ slot' = [slot EXCEPT ![Name] = Torn]
  /\ litter' = litter \cup Left
  /\ pc' = "idle" /\ refs' = <<>> /\ installed' = <<>>
  /\ archive' = FALSE /\ tmp' = FALSE /\ backup' = NoSkill
  /\ UNCHANGED <<flat, session, failed>>

Next ==
  \/ Begin \/ Fetch \/ FetchFails \/ Copy \/ CopyFails \/ MkdirTemp \/ Extract \/ StepFails
  \/ Lstat \/ MkBackup \/ MoveAway \/ MoveIn \/ MoveInFails \/ Rollback \/ RollbackFails
  \/ Tidy \/ SetupEnds \/ SessionEnds \/ CleanUpOne \/ CleanupEnds \/ Crash

Spec == Init /\ [][Next]_vars

-----------------------------------------------------------------------------
(* Properties                                                              *)

\* What the directories are taken to hold: while a skill is being replaced, what it held.
Visible == [n \in Names |-> IF backup # NoSkill /\ pc \in {"movein", "rollback"} /\ n = Name
                           THEN backup ELSE slot[n]]

\* During Cleanup the worker still has to remove what is in refs.
Mine == IF pc = "cleanup" THEN {refs[i] : i \in DOMAIN refs} ELSE {installed[i] : i \in DOMAIN installed}

\* The installation is a replacement in one step: whatever call fails, and if the rollback
\* does not fail too, a skill keeps its old content or has the whole new one, and the end of
\* a session removes what the session installed and nothing else.
Slots == INSTANCE SkillSlots WITH
           content <- Visible, mine <- Mine, deaths <- faults["crash"]
InstallsAtomically == Slots!Spec

\* A session never meets a skill that an earlier session left, unless a directory could not
\* be removed or the worker died. (Cleanup, with the list that Setup keeps.)
NoStaleSkill ==
  pc = "running" /\ faults["remove"] = 0 /\ faults["crash"] = 0 =>
    \A n \in Names : slot[n] \in {NoSkill, 0, session}

\* One call that fails leaves nothing behind, wherever it is: no archive, no temporary
\* directory, no backup. A removal that fails and the death of the worker are excepted, they
\* do leave something. (The deferred calls and the two ways source may lie in tmp.)
NothingLeftBehind ==
  litter # {} /\ faults["remove"] = 0 /\ faults["crash"] = 0 =>
    faults["io"] > 1
=============================================================================
