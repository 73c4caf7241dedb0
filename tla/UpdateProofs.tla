---------------------------- MODULE UpdateProofs ----------------------------
(***************************************************************************)
(* Proofs about module Update, for every set of processes, of releases and *)
(* of archives.  The steps of a process concern its own record but for the *)
(* executable, so that the invariant is one of each record.                *)
(***************************************************************************)
EXTENDS Update, TLAPS

\* The steps a process takes after the release has been selected, after it was
\* decided to install it, and after its archive has been unpacked.
AfterQuery == {"decide", "stage", "download", "verify", "unpack", "try", "replace"}
AfterDecide == AfterQuery \ {"decide"}

Asked(r) ==
    /\ r.step \in AfterQuery =>
         /\ r.selected # 0
         /\ r.args.version # NoText => r.selected = r.args.version.version
         /\ r.args.version = NoText => r.selected \notin Prereleases
    /\ r.step \in AfterDecide =>
         /\ r.args.mode = "install" /\ (r.args.yes \/ r.confirmed)
         /\ r.args.version # NoText \/ r.selected > r.current

Vouched(r) == r.manifest.digest = r.archive /\ r.manifest.name = r.selected

Sole(r, i) ==
    /\ { j \in DOMAIN r.archive : r.archive[j].name = "ovpnlane" } = {i}
    /\ r.archive[i].binary = r.candidate
    /\ r.archive[i].regular /\ r.archive[i].size = "fits"

Verified(r) ==
    /\ r.step \in {"unpack", "try", "replace"} => Vouched(r)
    /\ r.step \in {"try", "replace"} =>
         \E i \in { j \in DOMAIN r.archive : r.archive[j].name = "ovpnlane" } : Sole(r, i)

Tried(r) ==
    r.step = "replace" => r.candidate = [version |-> r.selected, runs |-> "well"]

Good(r) == Asked(r) /\ Verified(r) /\ Tried(r)

\* The inductive invariant.
UpdateInvariant ==
    /\ executable \in Binaries /\ executable.runs = "well"
    /\ run \in [Processes -> Runs]
    /\ \A p \in Processes : Good(run[p])

USE UpdateAssumption DEF UpdateAssumption

-----------------------------------------------------------------------------
\* A process that becomes a good record leaves the others as they were.
LEMMA OneRecord ==
    ASSUME UpdateInvariant, NEW p \in Processes, NEW r \in Runs, Good(r), Becomes(p, r)
    PROVE  run' \in [Processes -> Runs] /\ \A q \in Processes : Good(run'[q])
<1> run' = [run EXCEPT ![p] = r] BY DEF Becomes
<1>1. run' \in [Processes -> Runs] BY DEF UpdateInvariant
<1>2. \A q \in Processes : run'[q] = IF q = p THEN r ELSE run[q] BY DEF UpdateInvariant
<1>3. ASSUME NEW q \in Processes PROVE Good(run'[q])
  <2>1. CASE q = p BY <2>1, <1>2
  <2>2. CASE q # p BY <2>2, <1>2 DEF UpdateInvariant
  <2> QED BY <2>1, <2>2
<1> QED BY <1>1, <1>3

\* The record of a process that has ended or not begun is good.
LEMMA EndsIsGood ==
    ASSUME UpdateInvariant, NEW p \in Processes, Ends(p)
    PROVE  run' \in [Processes -> Runs] /\ \A q \in Processes : Good(run'[q])
<1> DEFINE r == [run[p] EXCEPT !.step = "done", !.staging = FALSE]
<1>1. run[p] \in Runs BY DEF UpdateInvariant
<1>2. r \in Runs /\ r.step = "done" BY <1>1 DEF Runs, Steps
<1>3. Good(r) BY <1>2 DEF Good, Asked, Verified, Tried, AfterQuery, AfterDecide
<1>4. Becomes(p, r) BY <1>1 DEF Ends, Becomes, UpdateInvariant
<1> QED BY <1>2, <1>3, <1>4, OneRecord

\* The initial state satisfies the invariant.
LEMMA InitInvariant == Init => UpdateInvariant
<1> SUFFICES ASSUME Init PROVE UpdateInvariant OBVIOUS
<1> DEFINE r == Run("done", NoArguments, Installed)
<1>1. r \in Runs BY DEF Run, Runs, Steps
<1>2. Good(r) BY DEF Run, Good, Asked, Verified, Tried, AfterQuery, AfterDecide
<1>3. run = [p \in Processes |-> r] BY DEF Init
<1>4. run \in [Processes -> Runs] /\ \A p \in Processes : run[p] = r BY <1>1, <1>3
<1>5. executable \in Binaries /\ executable.runs = "well" BY DEF Init, Original, Binaries
<1> QED BY <1>2, <1>4, <1>5 DEF UpdateInvariant

-----------------------------------------------------------------------------
\* Each step but Replace makes one good record of another.
LEMMA RecordStep ==
    ASSUME UpdateInvariant, NEW p \in Processes,
           Launch(p) \/ Query(p) \/ Decide(p) \/ Confirm(p) \/ Stage(p) \/ Download(p)
             \/ Verify(p) \/ Unpack(p) \/ Try(p) \/ Kill(p)
    PROVE  UpdateInvariant'
<1> DEFINE s == run[p]
<1>r. s \in Runs /\ Good(s) BY DEF UpdateInvariant
<1>b. ASSUME NEW r \in Runs, Good(r), Becomes(p, r), UNCHANGED executable
      PROVE  UpdateInvariant'
  BY <1>b, OneRecord DEF UpdateInvariant
<1>e. ASSUME Ends(p), UNCHANGED executable PROVE UpdateInvariant'
  BY <1>e, EndsIsGood DEF UpdateInvariant
<1>1. CASE Launch(p)
  <2>1. PICK args \in Invocations : Becomes(p, Run("query", args, executable.version))
    BY <1>1 DEF Launch
  <2> DEFINE r == Run("query", args, executable.version)
  <2>2. r \in Runs BY DEF Run, Runs, Steps, UpdateInvariant, Binaries
  <2>3. r.step = "query" BY DEF Run
  <2>4. Good(r) BY <2>3 DEF Good, Asked, Verified, Tried, AfterQuery, AfterDecide
  <2> QED BY <1>1, <2>1, <2>2, <2>4, <1>b DEF Launch
<1>2. CASE Query(p)
  <2>1. CASE Ends(p) BY <2>1, <1>2, <1>e DEF Query
  <2>2. ASSUME NEW release \in Releases, Valid(release, s.args.version),
               Becomes(p, [s EXCEPT !.step = "decide", !.selected = release.tag.version])
        PROVE  UpdateInvariant'
    <3> DEFINE r == [s EXCEPT !.step = "decide", !.selected = release.tag.version]
    <3>0. release.tag.version \in Versions BY DEF Texts
    <3>1. r \in Runs BY <1>r, <3>0 DEF Runs, Steps
    <3>2. r.step = "decide" /\ r.selected = release.tag.version /\ r.args = s.args
      BY <1>r DEF Runs
    <3>3. Asked(r) BY <3>2, <2>2, <3>0 DEF Asked, Valid, AfterQuery, AfterDecide
    <3>4. Verified(r) /\ Tried(r) BY <3>2 DEF Verified, Tried
    <3> QED BY <1>2, <2>2, <3>1, <3>3, <3>4, <1>b DEF Query, Good
  <2> QED BY <1>2, <2>1, <2>2 DEF Query
<1>3. CASE Decide(p)
  <2>1. CASE Ends(p) BY <2>1, <1>3, <1>e DEF Decide
  <2>2. CASE ~Ends(p)
    <3> DEFINE r == [s EXCEPT !.step = "stage"]
    <3>1. r \in Runs BY <1>r DEF Runs, Steps
    <3>2. /\ r.step = "stage" /\ r.selected = s.selected /\ r.args = s.args
          /\ r.current = s.current /\ r.confirmed = s.confirmed
      BY <1>r DEF Runs
    <3>3. s.step = "decide" /\ s.args.mode = "install" /\ s.args.yes /\ Worthwhile(p)
      BY <1>3, <2>2 DEF Decide, At
    <3>4. Asked(r) BY <1>r, <3>2, <3>3 DEF Good, Asked, Worthwhile, AfterQuery, AfterDecide
    <3>5. Verified(r) /\ Tried(r) BY <3>2 DEF Verified, Tried
    <3> QED BY <1>3, <2>2, <3>1, <3>4, <3>5, <1>b DEF Decide, Good
  <2> QED BY <2>1, <2>2
<1>4. CASE Confirm(p)
  <2> DEFINE r == [s EXCEPT !.step = "stage", !.confirmed = TRUE]
  <2>1. r \in Runs BY <1>r DEF Runs, Steps
  <2>2. /\ r.step = "stage" /\ r.selected = s.selected /\ r.args = s.args
        /\ r.current = s.current /\ r.confirmed = TRUE
    BY <1>r DEF Runs
  <2>3. s.step = "decide" /\ s.args.mode = "install" /\ Worthwhile(p)
    BY <1>4 DEF Confirm, At
  <2>4. Asked(r) BY <1>r, <2>2, <2>3 DEF Good, Asked, Worthwhile, AfterQuery, AfterDecide
  <2>5. Verified(r) /\ Tried(r) BY <2>2 DEF Verified, Tried
  <2> QED BY <1>4, <2>1, <2>4, <2>5, <1>b DEF Confirm, Good
<1>5. CASE Stage(p)
  <2>1. CASE Ends(p) BY <2>1, <1>5, <1>e DEF Stage
  <2>2. CASE ~Ends(p)
    <3> DEFINE r == [s EXCEPT !.step = "download", !.staging = TRUE]
    <3>1. r \in Runs BY <1>r DEF Runs, Steps
    <3>2. /\ r.step = "download" /\ r.selected = s.selected /\ r.args = s.args
          /\ r.current = s.current /\ r.confirmed = s.confirmed
      BY <1>r DEF Runs
    <3>3. s.step = "stage" BY <1>5 DEF Stage, At
    <3>4. Asked(r) BY <1>r, <3>2, <3>3 DEF Good, Asked, AfterQuery, AfterDecide
    <3>5. Verified(r) /\ Tried(r) BY <3>2 DEF Verified, Tried
    <3> QED BY <1>5, <2>2, <3>1, <3>4, <3>5, <1>b DEF Stage, Good
  <2> QED BY <2>1, <2>2
<1>6. CASE Download(p)
  <2>1. CASE Ends(p) BY <2>1, <1>6, <1>e DEF Download
  <2>2. ASSUME NEW archive \in Archives,
               Becomes(p, [s EXCEPT !.step = "verify", !.archive = archive])
        PROVE  UpdateInvariant'
    <3> DEFINE r == [s EXCEPT !.step = "verify", !.archive = archive]
    <3>1. r \in Runs BY <1>r DEF Runs, Steps
    <3>2. /\ r.step = "verify" /\ r.selected = s.selected /\ r.args = s.args
          /\ r.current = s.current /\ r.confirmed = s.confirmed
      BY <1>r DEF Runs
    <3>3. s.step = "download" BY <1>6 DEF Download, At
    <3>4. Asked(r) BY <1>r, <3>2, <3>3 DEF Good, Asked, AfterQuery, AfterDecide
    <3>5. Verified(r) /\ Tried(r) BY <3>2 DEF Verified, Tried
    <3> QED BY <1>6, <2>2, <3>1, <3>4, <3>5, <1>b DEF Download, Good
  <2> QED BY <1>6, <2>1, <2>2 DEF Download
<1>7. CASE Verify(p)
  <2>1. CASE Ends(p) BY <2>1, <1>7, <1>e DEF Verify
  <2>2. ASSUME NEW manifest \in Manifests, Matches(s.archive, manifest, s.selected),
               Becomes(p, [s EXCEPT !.step = "unpack", !.manifest = manifest])
        PROVE  UpdateInvariant'
    <3> DEFINE r == [s EXCEPT !.step = "unpack", !.manifest = manifest]
    <3>1. r \in Runs BY <1>r DEF Runs, Steps
    <3>2. /\ r.step = "unpack" /\ r.selected = s.selected /\ r.args = s.args
          /\ r.current = s.current /\ r.confirmed = s.confirmed
          /\ r.archive = s.archive /\ r.manifest = manifest
      BY <1>r DEF Runs
    <3>3. s.step = "verify" BY <1>7 DEF Verify, At
    <3>4. Asked(r) BY <1>r, <3>2, <3>3 DEF Good, Asked, AfterQuery, AfterDecide
    <3>5. Vouched(r) BY <2>2, <3>2 DEF Vouched, Matches, ArchiveName
    <3>6. Verified(r) /\ Tried(r) BY <3>2, <3>5 DEF Verified, Tried
    <3> QED BY <1>7, <2>2, <3>1, <3>4, <3>6, <1>b DEF Verify, Good
  <2> QED BY <1>7, <2>1, <2>2 DEF Verify
<1>8. CASE Unpack(p)
  <2>1. CASE Ends(p) BY <2>1, <1>8, <1>e DEF Unpack
  <2>2. ASSUME NEW i \in DOMAIN s.archive, Unpackable(s.archive, i),
               Becomes(p, [s EXCEPT !.step = "try", !.candidate = s.archive[i].binary])
        PROVE  UpdateInvariant'
    <3> DEFINE r == [s EXCEPT !.step = "try", !.candidate = s.archive[i].binary]
    <3>0. s.archive \in Seq(Entries) BY <1>r DEF Runs
    <3>b. s.archive[i] \in Entries BY <3>0
    <3>1. r \in Runs BY <1>r, <3>b DEF Runs, Steps, Entries
    <3>2. /\ r.step = "try" /\ r.selected = s.selected /\ r.args = s.args
          /\ r.current = s.current /\ r.confirmed = s.confirmed
          /\ r.archive = s.archive /\ r.manifest = s.manifest
          /\ r.candidate = s.archive[i].binary
      BY <1>r DEF Runs
    <3>3. s.step = "unpack" BY <1>8 DEF Unpack, At
    <3>4. Asked(r) BY <1>r, <3>2, <3>3 DEF Good, Asked, AfterQuery, AfterDecide
    <3>5. Vouched(r) BY <1>r, <3>2, <3>3 DEF Good, Verified, Vouched
    <3>6. Sole(r, i) BY <2>2, <3>2 DEF Sole, Unpackable, Executables
    <3>7. i \in { j \in DOMAIN r.archive : r.archive[j].name = "ovpnlane" }
      BY <3>6 DEF Sole
    <3>8. Verified(r) /\ Tried(r) BY <3>2, <3>5, <3>6, <3>7 DEF Verified, Tried
    <3> QED BY <1>8, <2>2, <3>1, <3>4, <3>8, <1>b DEF Unpack, Good
  <2> QED BY <1>8, <2>1, <2>2 DEF Unpack
<1>9. CASE Try(p)
  <2>1. CASE Ends(p) BY <2>1, <1>9, <1>e DEF Try
  <2>2. CASE ~Ends(p)
    <3> DEFINE r == [s EXCEPT !.step = "replace"]
    <3>1. r \in Runs BY <1>r DEF Runs, Steps
    <3>2. /\ r.step = "replace" /\ r.selected = s.selected /\ r.args = s.args
          /\ r.current = s.current /\ r.confirmed = s.confirmed
          /\ r.archive = s.archive /\ r.manifest = s.manifest
          /\ r.candidate = s.candidate
      BY <1>r DEF Runs
    <3>3. s.step = "try" BY <1>9 DEF Try, At
    <3>4. Asked(r) BY <1>r, <3>2, <3>3 DEF Good, Asked, AfterQuery, AfterDecide
    <3>5. Verified(r) BY <1>r, <3>2, <3>3 DEF Good, Verified, Vouched, Sole
    <3>6. Tried(r) BY <1>9, <2>2, <3>2 DEF Try, Tried
    <3> QED BY <1>9, <2>2, <3>1, <3>4, <3>5, <3>6, <1>b DEF Try, Good
  <2> QED BY <2>1, <2>2
<1>10. CASE Kill(p)
  <2> DEFINE r == [s EXCEPT !.step = "killed"]
  <2>1. r \in Runs BY <1>r DEF Runs, Steps
  <2>2. r.step = "killed" BY <1>r DEF Runs
  <2>3. Good(r) BY <2>2 DEF Good, Asked, Verified, Tried, AfterQuery, AfterDecide
  <2> QED BY <1>10, <2>1, <2>3, <1>b DEF Kill
<1> QED BY <1>1, <1>2, <1>3, <1>4, <1>5, <1>6, <1>7, <1>8, <1>9, <1>10

\* What is about to replace the executable runs.
LEMMA ReplaceStep ==
    ASSUME UpdateInvariant, NEW p \in Processes, Replace(p)
    PROVE  UpdateInvariant'
<1>1. run' \in [Processes -> Runs] /\ \A q \in Processes : Good(run'[q])
  BY EndsIsGood DEF Replace
<1>2. run[p] \in Runs /\ Good(run[p]) /\ run[p].step = "replace"
  BY DEF UpdateInvariant, Replace, At
<1>3. run[p].candidate = [version |-> run[p].selected, runs |-> "well"]
  BY <1>2 DEF Good, Tried
<1>4. run[p].selected \in Versions
  BY <1>2 DEF Good, Asked, AfterQuery, Runs
<1>5. executable' \in Binaries /\ executable'.runs = "well"
  BY <1>3, <1>4 DEF Replace, UpdateInvariant, Binaries
<1> QED BY <1>1, <1>5 DEF UpdateInvariant

\* Every step keeps the invariant.
LEMMA NextInvariant == UpdateInvariant /\ [Next]_vars => UpdateInvariant'
<1> SUFFICES ASSUME UpdateInvariant, [Next]_vars PROVE UpdateInvariant' OBVIOUS
<1>1. CASE UNCHANGED vars BY <1>1 DEF vars, UpdateInvariant
<1>2. CASE Next
  <2>1. PICK p \in Processes : Launch(p) \/ Goes(p) \/ Confirm(p) \/ Kill(p)
    BY <1>2 DEF Next
  <2> QED BY <2>1, RecordStep, ReplaceStep DEF Goes
<1> QED BY <1>1, <1>2

\* So it holds at all times.
LEMMA InvariantHolds == Spec => []UpdateInvariant
<1> QED BY InitInvariant, NextInvariant, PTL DEF Spec

-----------------------------------------------------------------------------
\* Processes, the executable and what is selected are of their types at any time.
THEOREM UpdateTypes == Spec => []TypeOK
<1>1. UpdateInvariant => TypeOK
  BY DEF UpdateInvariant, TypeOK, Good, Asked, AfterQuery, Runs, Steps
<1> QED BY <1>1, InvariantHolds, PTL

\* Only what the checksum file of the very release vouches for is run or installed.
THEOREM VerifiedTheorem == Spec => []RunsOnlyVerified
<1>1. ASSUME UpdateInvariant PROVE RunsOnlyVerified
  <2> SUFFICES ASSUME NEW p \in Processes, run[p].step \in {"try", "replace"}
      PROVE LET archive == run[p].archive
                named == { i \in DOMAIN archive : archive[i].name = "ovpnlane" }
            IN /\ run[p].manifest.digest = archive
               /\ run[p].manifest.name = run[p].selected
               /\ \E i \in named : /\ named = {i} /\ archive[i].binary = run[p].candidate
                                   /\ archive[i].regular /\ archive[i].size = "fits"
    BY DEF RunsOnlyVerified
  <2>1. Verified(run[p]) BY <1>1 DEF UpdateInvariant, Good
  <2>2. Vouched(run[p]) BY <2>1 DEF Verified
  <2>3. \E i \in { j \in DOMAIN run[p].archive : run[p].archive[j].name = "ovpnlane" } :
          Sole(run[p], i)
    BY <2>1 DEF Verified
  <2> QED BY <2>2, <2>3 DEF Vouched, Sole
<1> QED BY <1>1, InvariantHolds, PTL

\* However many processes update, fail or are killed, the program installed runs.
THEOREM AlwaysRunsTheorem == Spec => []AlwaysRuns
<1>1. UpdateInvariant => AlwaysRuns BY DEF UpdateInvariant, AlwaysRuns, Good, Tried
<1> QED BY <1>1, InvariantHolds, PTL

\* The executable is replaced only as the user asked.
THEOREM AskedTheorem == Spec => ReplacedAsAsked
<1> DEFINE Reason(p) ==
      /\ run[p].args.mode = "install" /\ (run[p].args.yes \/ run[p].confirmed)
      /\ run[p].args.version # NoText => executable'.version = run[p].args.version.version
      /\ run[p].args.version = NoText =>
           /\ executable'.version \notin Prereleases
           /\ \/ executable'.version > executable.version
              \/ run[p].current # executable.version
<1> DEFINE AsAsked == executable' # executable => \E p \in Processes : Reason(p)
<1>1. ASSUME UpdateInvariant, [Next]_vars PROVE [AsAsked]_vars
  <2> SUFFICES ASSUME executable' # executable PROVE \E p \in Processes : Reason(p)
    OBVIOUS
  <2>1. PICK p \in Processes : Launch(p) \/ Goes(p) \/ Confirm(p) \/ Kill(p)
    BY <1>1 DEF Next, vars
  <2>2. Replace(p)
    BY <2>1 DEF Goes, Launch, Query, Decide, Confirm, Stage, Download, Verify, Unpack, Try, Kill
  <2>3. run[p].step = "replace" /\ Good(run[p]) /\ executable' = run[p].candidate
    BY <1>1, <2>2 DEF Replace, At, UpdateInvariant
  <2>4. executable'.version = run[p].selected BY <2>3 DEF Good, Tried
  <2>5. /\ run[p].args.mode = "install" /\ (run[p].args.yes \/ run[p].confirmed)
        /\ run[p].args.version # NoText \/ run[p].selected > run[p].current
        /\ run[p].args.version # NoText => run[p].selected = run[p].args.version.version
        /\ run[p].args.version = NoText => run[p].selected \notin Prereleases
    BY <2>3 DEF Good, Asked, AfterQuery, AfterDecide
  <2>6. Reason(p) BY <2>4, <2>5
  <2> QED BY <2>6
<1> QED BY <1>1, InvariantHolds, PTL DEF Spec, ReplacedAsAsked
=============================================================================
