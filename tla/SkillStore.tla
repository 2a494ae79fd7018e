----------------------------- MODULE SkillStore -----------------------------
(***************************************************************************)
(* install_skill and install_github_skill: LocalSkillInstaller             *)
(* (skills/installer.py), GitHubSkillInstaller (skills/github.py) and the  *)
(* file skills.lock.json (skills/lock.py), all on one managed directory    *)
(* that several processes share without a lock between them.               *)
(*                                                                         *)
(* A package is prepared (read, scanned, compared with what is installed), *)
(* staged beside the directory and renamed into it, which succeeds only    *)
(* when no package is there.  A GitHub package is then recorded: the lock  *)
(* file is read as a whole and replaced as a whole.  A package is its own  *)
(* digest; a commit determines a package, a branch moves between commits.  *)
(***************************************************************************)
EXTENDS ToolRegistry

CONSTANTS
    Ids,
    Packages,       \* [tree, flaw, verdict, agent]: agent is a standard SKILL.md
    Sources,        \* owner/repo@ref#path
    Commits,        \* source -> what its ref has pointed to
    PackageAt       \* commit -> package

NoPackage == [tree |-> "none"]
NoEntry == [source |-> "none"]
Local == "local"
NoInstall == [at |-> "none"]
Outside == [tree |-> "outside"]     \* a path out of the import directory

Entry == [source : Sources, commit : DOMAIN PackageAt, digest : Packages]

ASSUME SkillAssumption ==
    /\ Packages \subseteq [tree : STRING, flaw : {"none", "invalid", "unsafe"},
                           verdict : {"safe", "caution", "dangerous"}, agent : BOOLEAN]
    /\ {NoPackage, Outside} \cap Packages = {} /\ Local \notin Sources
    /\ PackageAt \in [UNION {Commits[s] : s \in Sources} -> Packages]

VARIABLES
    installed,      \* id -> package in the managed directory
    lock,           \* id -> entry of skills.lock.json
    installing      \* process -> the install it is in

skillVars == <<installed, lock, installing>>

Stages == {"resolving", "downloaded", "previewed", "staged", "recording", "replacing"}

SkillTypeOK ==
    /\ installed \in [Ids -> Packages \cup {NoPackage}]
    /\ lock \in [Ids -> Entry \cup {NoEntry}]
    /\ \A p \in Processes :
        installing[p] # NoInstall => ~Idle(p) /\ installing[p].at \in Stages

SkillsInit ==
    /\ installed = [i \in Ids |-> NoPackage]
    /\ lock = [i \in Ids |-> NoEntry]
    /\ installing = [p \in Processes |-> NoInstall]

----------------------------------------------------------------------------
(* What plan_side_effects of the two tools validates. *)

ValidSkillId(id) == id \in Ids                 \* validate_skill_id
ValidReference(pkg) == pkg # Outside            \* validate_source_reference
ValidSource(source) == source \in Sources      \* parse_github_skill_source

----------------------------------------------------------------------------
(* LocalSkillInstaller._prepare: "fresh", "present", or the outcome of the *)
(* error it raises (_install_error_result of builtins/skill_tools.py).     *)

Conflict == "manual_review"

\* _snapshot_tree refuses links, special files and what exceeds its limits.
SnapshotRefuses(pkg) == pkg.flaw = "unsafe"

\* _load_root_manifest: no manifest, or one under another id.
ManifestRefuses(pkg) == pkg.flaw = "invalid"

\* SkillGuard.should_block
ScanBlocks(pkg) == pkg.verdict = "dangerous"

Prepare(id, pkg) ==
    IF ManifestRefuses(pkg) THEN "retry"
    ELSE IF SnapshotRefuses(pkg) \/ ScanBlocks(pkg) THEN "stop"
    ELSE IF installed[id] = NoPackage THEN "fresh"
    ELSE IF installed[id] = pkg THEN "present" ELSE Conflict

Moves(p, state) == installing' = [installing EXCEPT ![p] = state] /\ UNCHANGED outcome

Ends(p, result) == installing' = [installing EXCEPT ![p] = NoInstall] /\ Returns(p, result)

\* After LocalSkillInstaller.install: a GitHub install goes on to the lock file.
Finishes(p, state) ==
    IF state.source = Local THEN Ends(p, "success")
    ELSE Moves(p, [state EXCEPT !.at = "recording"])

----------------------------------------------------------------------------
(* install_skill *)

\* The source is what its path holds when it is read; it may be missing, or
\* change between the two readings.
InstallSkill(p, id, pkg) ==
    /\ Idle(p)
    /\ UNCHANGED <<installed, lock>>
    /\ \/ Returns(p, "retry") /\ UNCHANGED installing
       \/ LET result == Prepare(id, pkg) IN
          \/ /\ result = "fresh" /\ CallBegins(p)
             /\ installing' = [installing EXCEPT ![p] =
                    [at |-> "staged", id |-> id, pkg |-> pkg, source |-> Local]]
          \/ result = "present" /\ Returns(p, "success") /\ UNCHANGED installing
          \/ result \notin {"fresh", "present"} /\ Returns(p, result) /\ UNCHANGED installing

\* Mutant: the rename replaces what another process has installed meanwhile.
StageLands_Replaces(p) ==
    /\ installing[p].at = "staged"
    /\ installed' = [installed EXCEPT ![installing[p].id] = installing[p].pkg]
    /\ Finishes(p, installing[p])
    /\ UNCHANGED lock

\* The rename, or _resolve_install_race when another process was faster.
StageLands(p) ==
    LET id == installing[p].id IN
    /\ installing[p].at = "staged"
    /\ UNCHANGED lock
    /\ \/ /\ installed[id] = NoPackage
          /\ installed' = [installed EXCEPT ![id] = installing[p].pkg]
          /\ Finishes(p, installing[p])
       \/ /\ installed[id] # NoPackage /\ UNCHANGED installed
          /\ IF installed[id] = installing[p].pkg THEN Finishes(p, installing[p])
             ELSE Ends(p, Conflict)

\* OSError: the temporary copy is removed.
StageFails(p) ==
    /\ installing[p].at = "staged"
    /\ Ends(p, "manual_review")
    /\ UNCHANGED <<installed, lock>>

----------------------------------------------------------------------------
(* install_github_skill *)

\* installed_tree_digest hashes what is in the directory now.
InstalledDigest(id) == installed[id]

\* SkillLockfile.get, which parses the whole file.
LockEntry(id) == lock[id]

\* The lock file, or the tree or the manifest of what is installed, is no
\* regular file, malformed or cannot be read.
StoreErrors == {"stop", "retry", "manual_review"}

\* _locked_replay needs no network; without an entry the ref is resolved.
InstallGitHubSkill(p, id, source) ==
    /\ Idle(p)
    /\ UNCHANGED <<installed, lock>>
    /\ \/ /\ \E result \in StoreErrors : Returns(p, result)
          /\ UNCHANGED installing
       \/ /\ LockEntry(id) = NoEntry /\ CallBegins(p)
          /\ installing' = [installing EXCEPT ![p] =
                [at |-> "resolving", id |-> id, source |-> source]]
       \/ /\ LockEntry(id) # NoEntry /\ UNCHANGED installing
          /\ Returns(p, IF /\ LockEntry(id).source = source
                           /\ LockEntry(id).digest = InstalledDigest(id)
                        THEN "success" ELSE Conflict)

\* resolve_commit, download_archive and _extract_skill_archive.
Downloads(p) ==
    /\ installing[p].at = "resolving"
    /\ \E commit \in Commits[installing[p].source] :
          Moves(p, [at |-> "downloaded", id |-> installing[p].id,
                    source |-> installing[p].source, commit |-> commit,
                    pkg |-> PackageAt[commit]])
    /\ UNCHANGED <<installed, lock>>

\* 404, no network or timeout, above max_archive_bytes or an unsafe archive.
DownloadFails(p) ==
    /\ installing[p].at = "resolving"
    /\ \E result \in {"retry", "manual_review", "stop"} : Ends(p, result)
    /\ UNCHANGED <<installed, lock>>

\* preview, and _require_agent_skills_manifest.
Previews(p) ==
    LET result == Prepare(installing[p].id, installing[p].pkg) IN
    /\ installing[p].at = "downloaded"
    /\ UNCHANGED <<installed, lock>>
    /\ IF result \notin {"fresh", "present"} THEN Ends(p, result)
       ELSE IF ~installing[p].pkg.agent THEN Ends(p, "retry")
       ELSE Moves(p, [installing[p] EXCEPT !.at = "previewed"])

\* install prepares the same package once more.
StagesPreviewed(p) ==
    LET result == Prepare(installing[p].id, installing[p].pkg) IN
    /\ installing[p].at = "previewed"
    /\ \/ result = "fresh" /\ Moves(p, [installing[p] EXCEPT !.at = "staged"])
       \/ result = "present" /\ Moves(p, [installing[p] EXCEPT !.at = "recording"])
       \/ result \notin {"fresh", "present"} /\ Ends(p, result)
    /\ UNCHANGED <<installed, lock>>

\* SkillLockfile.record reads the whole file...
RecordLoads(p) ==
    LET known == lock[installing[p].id] IN
    /\ installing[p].at = "recording"
    /\ IF known # NoEntry /\ known.source # installing[p].source
       THEN Ends(p, Conflict)
       ELSE Moves(p, [at |-> "replacing", id |-> installing[p].id, entries |-> lock,
                      entry |-> [source |-> installing[p].source,
                                 commit |-> installing[p].commit,
                                 digest |-> installing[p].pkg]])
    /\ UNCHANGED <<installed, lock>>

\* ...and replaces it: what others recorded meanwhile is gone.
RecordReplaces(p) ==
    /\ installing[p].at = "replacing"
    /\ lock' = [installing[p].entries EXCEPT ![installing[p].id] = installing[p].entry]
    /\ Ends(p, "success")
    /\ UNCHANGED installed

\* The package stays installed, without an entry.
RecordFails(p) ==
    /\ \/ installing[p].at = "recording" /\ \E result \in StoreErrors : Ends(p, result)
       \/ installing[p].at = "replacing" /\ Ends(p, "manual_review")
    /\ UNCHANGED <<installed, lock>>

SkillsRestart(p) ==
    /\ installing' = [installing EXCEPT ![p] = NoInstall]
    /\ UNCHANGED <<installed, lock>>
=============================================================================
