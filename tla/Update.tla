------------------------------- MODULE Update -------------------------------
(***************************************************************************)
(* ovpnlane update (src/src/update.rs): select a release, download and     *)
(* verify its archive, unpack and try its executable, and replace the      *)
(* executable that is installed.  Any step may fail, any process may be    *)
(* killed, and several may update one installation.                        *)
(*                                                                         *)
(* GitHub, the file system and self_replace are external: each request is  *)
(* answered with whatever is published by then, and the replacement takes  *)
(* place as a whole or not at all.                                         *)
(*                                                                         *)
(* Versions are numbers in their semantic order.  The archives and sums of *)
(* other platforms are left out: assets are those of this one.             *)
(***************************************************************************)
EXTENDS Naturals, Sequences, FiniteSets

CONSTANTS
    Processes,
    Versions,      \* of releases, and of what their archives hold
    Prereleases,   \* the versions with a pre-release part
    Installed,     \* the version installed at first
    Invocations,   \* arguments: mode, --yes, --version
    Releases,      \* answers of the GitHub API
    Archives,      \* what may be published as the archive of a release
    Manifests      \* what may be published as its checksum file

\* A binary is known by the version it was built as, and by what it does when it
\* is run: well, fails, or hangs.
Binaries == [version : Versions, runs : {"well", "fails", "hangs"}]
Original == [version |-> Installed, runs |-> "well"]

\* Entries of a tar or zip archive.
Entries == [name : {"ovpnlane", "other"}, regular : BOOLEAN,
            size : {"empty", "fits", "large"}, binary : Binaries]

\* --version as it is typed, and the tag of a release: "v0.0.1", "0.0.1", with
\* build metadata, or no version at all.
Texts == [form : {"tag", "bare", "build", "garbled"}, version : Versions]
NoText == [form |-> "none", version |-> 0]

ASSUME UpdateAssumption ==
    /\ Versions \subseteq Nat \ {0} /\ Prereleases \subseteq Versions /\ Installed \in Versions
    /\ Invocations \subseteq [mode : {"check", "dry_run", "install"}, yes : BOOLEAN,
                              version : Texts \cup {NoText}]
    /\ Releases \subseteq [tag : Texts, draft : BOOLEAN, prerelease : BOOLEAN,
                           archives : Nat, sums : Nat]
    /\ Archives \subseteq Seq(Entries)
    /\ Manifests \subseteq [wellformed : BOOLEAN, name : Versions, digest : Archives]

VARIABLES
    run,          \* what each process has got so far
    executable    \* the binary that is installed
vars == <<run, executable>>

NoArguments == [mode |-> "check", yes |-> FALSE, version |-> NoText]
NoManifest == [wellformed |-> FALSE, name |-> 0, digest |-> <<>>]
NoBinary == [version |-> 0, runs |-> "fails"]

\* `current` is the version the process was built as, `staging` its temporary
\* directory beside the executable.
Run(step, args, current) ==
    [step |-> step, args |-> args, current |-> current, selected |-> 0, confirmed |-> FALSE,
     archive |-> <<>>, manifest |-> NoManifest, candidate |-> NoBinary, staging |-> FALSE]

Init ==
    /\ run = [p \in Processes |-> Run("done", NoArguments, Installed)]
    /\ executable = Original

At(p, step) == run[p].step = step
Becomes(p, next) == run' = [run EXCEPT ![p] = next]

\* Plausible bug: the temporary directory stays.
EndsUntidy(p) == run' = [run EXCEPT ![p].step = "done"]

\* The end of `run`, by an error or not: the TempDir is dropped.
Ends(p) == run' = [run EXCEPT ![p].step = "done", ![p].staging = FALSE]

-----------------------------------------------------------------------------
(* The release. *)

Parses(text) == text.form \in {"tag", "bare"}

\* archive_name: one name for each version.
ArchiveName(version) == version

\* Plausible bug: what GitHub calls the latest release is taken to be stable.
ValidUnstable(release, requested) ==
    /\ ~release.draft /\ release.tag.form = "tag"
    /\ requested # NoText => requested.version = release.tag.version
    /\ release.archives = 1 /\ release.sums = 1

\* validate_release
Valid(release, requested) ==
    /\ ~release.draft /\ release.tag.form = "tag"
    /\ IF requested = NoText
       THEN ~release.prerelease /\ release.tag.version \notin Prereleases
       ELSE requested.version = release.tag.version
    /\ release.archives = 1 /\ release.sums = 1

-----------------------------------------------------------------------------
(* The steps of `run`. *)

Launch(p) ==
    /\ run[p].step \in {"done", "killed"} /\ executable.runs = "well"
    /\ \E args \in Invocations : Becomes(p, Run("query", args, executable.version))
    /\ UNCHANGED executable

\* The version asked for is read first; then the release is looked up.
Query(p) ==
    /\ At(p, "query")
    /\ \/ Ends(p)
       \/ /\ run[p].args.version = NoText \/ Parses(run[p].args.version)
          /\ \E release \in Releases :
               /\ Valid(release, run[p].args.version)
               /\ Becomes(p, [run[p] EXCEPT !.step = "decide", !.selected = release.tag.version])
    /\ UNCHANGED executable

\* Plausible bug: a version that is no newer is installed, too.
WorthwhileAlways(p) == TRUE

Worthwhile(p) == run[p].args.version # NoText \/ run[p].selected > run[p].current

\* --check and --dry-run end here, and so does whoever does not confirm.
Decide(p) ==
    /\ At(p, "decide")
    /\ \/ Ends(p)
       \/ /\ run[p].args.mode = "install" /\ Worthwhile(p)
          /\ run[p].args.yes
          /\ Becomes(p, [run[p] EXCEPT !.step = "stage"])
    /\ UNCHANGED executable

\* The user types "y" on a terminal.
Confirm(p) ==
    /\ At(p, "decide") /\ run[p].args.mode = "install" /\ Worthwhile(p) /\ ~run[p].args.yes
    /\ Becomes(p, [run[p] EXCEPT !.step = "stage", !.confirmed = TRUE])
    /\ UNCHANGED executable

Stage(p) ==
    /\ At(p, "stage")
    /\ \/ Ends(p)
       \/ Becomes(p, [run[p] EXCEPT !.step = "download", !.staging = TRUE])
    /\ UNCHANGED executable

Download(p) ==
    /\ At(p, "download")
    /\ \/ Ends(p)
       \/ \E archive \in Archives :
            Becomes(p, [run[p] EXCEPT !.step = "verify", !.archive = archive])
    /\ UNCHANGED executable

\* Plausible bug: the sum is not compared.
MatchesAnySum(archive, manifest, version) ==
    manifest.wellformed /\ manifest.name = ArchiveName(version)

\* verify_checksum; no two archives have one sum.
Matches(archive, manifest, version) ==
    manifest.wellformed /\ manifest.name = ArchiveName(version) /\ manifest.digest = archive

Verify(p) ==
    /\ At(p, "verify")
    /\ \/ Ends(p)
       \/ \E manifest \in Manifests :
            /\ Matches(run[p].archive, manifest, run[p].selected)
            /\ Becomes(p, [run[p] EXCEPT !.step = "unpack", !.manifest = manifest])
    /\ UNCHANGED executable

Executables(archive) == { i \in DOMAIN archive : archive[i].name = "ovpnlane" }

\* Plausible bug: of two executables the archive holds, either will do.
UnpackableAny(archive, i) ==
    /\ i \in Executables(archive)
    /\ archive[i].regular /\ archive[i].size = "fits"

\* unpack_binary and write_candidate: the one entry of that name.
Unpackable(archive, i) ==
    /\ Executables(archive) = {i}
    /\ archive[i].regular /\ archive[i].size = "fits"

Unpack(p) ==
    /\ At(p, "unpack")
    /\ \/ Ends(p)
       \/ \E i \in DOMAIN run[p].archive :
            /\ Unpackable(run[p].archive, i)
            /\ Becomes(p, [run[p] EXCEPT !.step = "try", !.candidate = run[p].archive[i].binary])
    /\ UNCHANGED executable

\* Plausible bug: any output of the candidate will do.
TryRuns(p) ==
    /\ At(p, "try") /\ run[p].candidate.runs # "hangs"
    /\ \/ Ends(p)
       \/ Becomes(p, [run[p] EXCEPT !.step = "replace"])
    /\ UNCHANGED executable

\* The candidate is run with --version, and waited for.
Try(p) ==
    /\ At(p, "try") /\ run[p].candidate.runs # "hangs"
    /\ \/ Ends(p)
       \/ /\ run[p].candidate = [version |-> run[p].selected, runs |-> "well"]
          /\ Becomes(p, [run[p] EXCEPT !.step = "replace"])
    /\ UNCHANGED executable

\* self_replace
Replace(p) ==
    /\ At(p, "replace")
    /\ \/ UNCHANGED executable
       \/ executable' = run[p].candidate
    /\ Ends(p)

\* Killed or interrupted: nothing is tidied up.
Kill(p) ==
    /\ run[p].step \notin {"done", "killed"}
    /\ Becomes(p, [run[p] EXCEPT !.step = "killed"])
    /\ UNCHANGED executable

-----------------------------------------------------------------------------
Goes(p) ==
    \/ Query(p) \/ Decide(p) \/ Stage(p) \/ Download(p) \/ Verify(p)
    \/ Unpack(p) \/ Try(p) \/ Replace(p)
Next == \E p \in Processes : Launch(p) \/ Goes(p) \/ Confirm(p) \/ Kill(p)

(* Requests take at most 120 s (update.rs:125); the candidate may take for ever. *)
Fairness == \A p \in Processes : WF_vars(Goes(p))

Spec == Init /\ [][Next]_vars
FairSpec == Spec /\ Fairness

-----------------------------------------------------------------------------
(* Properties. *)

Steps == {"query", "decide", "stage", "download", "verify", "unpack", "try", "replace",
          "done", "killed"}

Runs == [step : Steps, args : Invocations \cup {NoArguments}, current : Versions,
         selected : Versions \cup {0}, confirmed : BOOLEAN, archive : Archives \cup {<<>>},
         manifest : Manifests \cup {NoManifest}, candidate : Binaries \cup {NoBinary},
         staging : BOOLEAN]

TypeOK ==
    /\ executable \in Binaries
    /\ run \in [Processes -> Runs]
    /\ \A p \in Processes : run[p].step \in {"query", "done", "killed"} \/ run[p].selected # 0

\* "The updater verifies SHA-256, extracts only the expected regular executable"
\* (README.md:138): what a process runs to learn its version, and may install, is
\* the only executable of an archive for which a checksum file of that very
\* release vouches, whatever was published anew between the requests.
RunsOnlyVerified ==
    \A p \in Processes : run[p].step \in {"try", "replace"} =>
      LET archive == run[p].archive
          named == { i \in DOMAIN archive : archive[i].name = "ovpnlane" }
      IN /\ run[p].manifest.digest = archive
         /\ run[p].manifest.name = run[p].selected
         /\ \E i \in named : /\ named = {i} /\ archive[i].binary = run[p].candidate
                             /\ archive[i].regular /\ archive[i].size = "fits"

\* "checks its reported version" (README.md:139): at any time, whatever failed or
\* was killed and however many processes update, the program that is installed can
\* be run, and one that a process is about to install is the version it selected.
AlwaysRuns ==
    /\ executable.runs = "well"
    /\ \A p \in Processes : run[p].step = "replace" =>
         run[p].candidate = [version |-> run[p].selected, runs |-> "well"]

\* --check and --dry-run do not replace the executable, nor does an update nobody
\* agreed to (README.md:132-135).  Without --version the executable gets older,
\* or a pre-release, only if it was replaced while the process ran: the process
\* compares with the version it was built as (update.rs:144), not with what is
\* installed when it gets there.
ReplacedAsAsked ==
    [][executable' # executable =>
         \E p \in Processes :
           /\ run[p].args.mode = "install" /\ (run[p].args.yes \/ run[p].confirmed)
           /\ run[p].args.version # NoText => executable'.version = run[p].args.version.version
           /\ run[p].args.version = NoText =>
                /\ executable'.version \notin Prereleases
                /\ \/ executable'.version > executable.version
                   \/ run[p].current # executable.version]_vars

\* An update that asks nothing ends, unless the candidate it tries hangs: the
\* wait for its output has no limit (update.rs:188).  It leaves nothing behind.
UpdateEnds ==
    \A p \in Processes :
      run[p].step = "query" /\ run[p].args.yes
        ~> \/ run[p].step = "done" /\ ~run[p].staging
           \/ run[p].step = "killed"
           \/ run[p].step = "try" /\ run[p].candidate.runs = "hangs"
=============================================================================
