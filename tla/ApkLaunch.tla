----------------------------- MODULE ApkLaunch -----------------------------
(***************************************************************************)
(* Launching an APK: classification, then either the extraction of its     *)
(* native libraries (prepare_apk_launch) or the staging of the whole file  *)
(* for guest ART (stage_art_apk_for_sysroot, build_art_bootstrap_plan).    *)
(* The file is read more than once and may be replaced in between; two     *)
(* launches of the same file write to the same names.                      *)
(***************************************************************************)
EXTENDS Naturals, FiniteSets, SequencesExt

CONSTANTS Launches,
          Shapes,      \* the APKs: see Shape
          MaxVersions, \* how often the file is replaced
          Jars         \* sequence of boot class path candidates: [jar, required]

\* An APK: its arm64 libraries as <<directory, file>> in zip order, whether it
\* has dex files, the library asked for and the one the manifest names (""
\* for none), the manifest's package, activity and application class.
Shape == [libs : Seq(STRING \X STRING), dex : BOOLEAN, asked : STRING, declared : STRING,
          package : STRING, activity : STRING, application : STRING]

VARIABLES apkShape, nativeActivity, version,
          stage,    \* stage[l]: the step of launch l
          seen,     \* the version that was classified
          got,      \* the version in memory that is extracted, or that was staged
          into,     \* the version whose stamp names the directory or staged file
          index,    \* the library being extracted
          extracted, \* extracted[<<v, f>>]: what file f of the directory holds
          stagedApk, \* stagedApk[v]: what the staged file holds
          loaded,   \* loaded[l]: what the runner was given
          quiet     \* launches during which nothing else touched the files

vars == <<apkShape, nativeActivity, version, stage, seen, got, into, index, extracted, stagedApk, loaded, quiet>>

Versions == 1..MaxVersions
FileNames(s) == {s.libs[i][2] : i \in DOMAIN s.libs}
AllNames == UNION {FileNames(s) : s \in Shapes}
Nothing == <<0, 0>>   \* no file, or one that is being written

TypeOK == /\ version \in Versions /\ nativeActivity \in BOOLEAN
          /\ stage \in [Launches -> {"idle", "native", "directory", "open", "write", "stage",
                                     "copy", "plan", "running", "failed"}]
          /\ extracted \in [Versions \X AllNames -> (0..MaxVersions) \X Nat]
          /\ stagedApk \in [Versions -> 0..MaxVersions] /\ quiet \subseteq Launches

Init == /\ apkShape \in Shapes /\ nativeActivity \in BOOLEAN /\ version = 1
        /\ stage = [l \in Launches |-> "idle"] /\ seen = [l \in Launches |-> 0]
        /\ got = seen /\ into = seen /\ index = seen
        /\ extracted = [f \in Versions \X AllNames |-> Nothing]
        /\ stagedApk = [v \in Versions |-> 0] /\ loaded = [l \in Launches |-> Nothing]
        /\ quiet = {}

----
\* lib_name_matches(): by file name, whatever the directory.
Matching(name) == SelectInSeq(apkShape.libs, LAMBDA e : e[2] = name)
\* The choice of prepare_apk_launch(); 0: no clear library.
Selected == CASE apkShape.asked # "" -> Matching(apkShape.asked)
              [] apkShape.asked = "" /\ apkShape.declared # "" -> Matching(apkShape.declared)
              [] OTHER -> IF Len(apkShape.libs) = 1 THEN 1 ELSE Matching("main")

\* is_java_app of AndroidAarch64Runtime::run, from runtime_kind_for().
IsJava == apkShape.dex /\ (apkShape.libs = <<>> \/ ~nativeActivity)

Active(l) == stage[l] \notin {"idle", "running", "failed"}
\* l moves on; launches under way at the same time disturb one another.
Moves(l, to) == /\ stage' = [stage EXCEPT ![l] = to]
                /\ quiet' = IF \E m \in Launches \ {l} : Active(m) THEN {m \in quiet : ~Active(m)} ELSE quiet

Classify(l) ==
    /\ stage[l] = "idle" /\ stage' = [stage EXCEPT ![l] = IF IsJava THEN "stage" ELSE "native"]
    /\ seen' = [seen EXCEPT ![l] = version]
    /\ quiet' = IF \E m \in Launches : Active(m) THEN {m \in quiet : ~Active(m)} ELSE quiet \cup {l}
    /\ UNCHANGED <<apkShape, nativeActivity, version, got, into, index, extracted, stagedApk, loaded>>

\* prepare_apk_launch() reads the file again.
Prepare(l) ==
    /\ stage[l] = "native" /\ Moves(l, IF Selected = 0 THEN "failed" ELSE "directory")
    /\ got' = [got EXCEPT ![l] = version]
    /\ UNCHANGED <<apkShape, nativeActivity, version, seen, into, index, extracted, stagedApk, loaded>>
\* default_extract_dir(): path, size and time of the file as it is now.
MakeDirectory(l) ==
    /\ stage[l] = "directory" /\ Moves(l, "open")
    /\ into' = [into EXCEPT ![l] = version] /\ index' = [index EXCEPT ![l] = 1]
    /\ UNCHANGED <<apkShape, nativeActivity, version, seen, got, extracted, stagedApk, loaded>>
Target(l) == <<into[l], apkShape.libs[index[l]][2]>>
\* Mutant: a library that is there is taken for extracted.
OpenLibraryUnlessThere(l) ==
    /\ stage[l] = "open" /\ index[l] <= Len(apkShape.libs)
    /\ IF extracted[Target(l)] = Nothing THEN Moves(l, "write") /\ UNCHANGED index
       ELSE Moves(l, "open") /\ index' = [index EXCEPT ![l] = @ + 1]
    /\ UNCHANGED <<apkShape, nativeActivity, version, seen, got, into, extracted, stagedApk, loaded>>
\* Each library is truncated and written under its file name.
OpenLibrary(l) ==
    /\ stage[l] = "open" /\ index[l] <= Len(apkShape.libs) /\ Moves(l, "write")
    /\ extracted' = [extracted EXCEPT ![Target(l)] = Nothing]
    /\ UNCHANGED <<apkShape, nativeActivity, version, seen, got, into, index, stagedApk, loaded>>
WriteLibrary(l) ==
    /\ stage[l] = "write" /\ Moves(l, "open")
    /\ extracted' = [extracted EXCEPT ![Target(l)] = <<got[l], index[l]>>]
    /\ index' = [index EXCEPT ![l] = @ + 1]
    /\ UNCHANGED <<apkShape, nativeActivity, version, seen, got, into, stagedApk, loaded>>
\* apply_apk_launch(): the runner maps the selected library's file.
RunNative(l) ==
    /\ stage[l] = "open" /\ index[l] > Len(apkShape.libs) /\ Moves(l, "running")
    /\ loaded' = [loaded EXCEPT ![l] = extracted[<<into[l], apkShape.libs[Selected][2]>>]]
    /\ UNCHANGED <<apkShape, nativeActivity, version, seen, got, into, index, extracted, stagedApk>>

\* stage_art_apk_for_sysroot(): named by the stamp, then copied over.
BeginStage(l) ==
    /\ stage[l] = "stage" /\ Moves(l, "copy") /\ into' = [into EXCEPT ![l] = version]
    /\ stagedApk' = [stagedApk EXCEPT ![version] = 0]
    /\ UNCHANGED <<apkShape, nativeActivity, version, seen, got, index, extracted, loaded>>
EndStage(l) ==
    /\ stage[l] = "copy" /\ Moves(l, "plan") /\ got' = [got EXCEPT ![l] = version]
    /\ stagedApk' = [stagedApk EXCEPT ![into[l]] = version]
    /\ UNCHANGED <<apkShape, nativeActivity, version, seen, into, index, extracted, loaded>>
\* A plan that misses an input ends the launch.
RunArt(l) ==
    /\ stage[l] = "plan"
    /\ \E complete \in BOOLEAN : IF complete THEN Moves(l, "running") ELSE Moves(l, "failed")
    /\ loaded' = [loaded EXCEPT ![l] = <<stagedApk[into[l]], 0>>]
    /\ UNCHANGED <<apkShape, nativeActivity, version, seen, got, into, index, extracted, stagedApk>>

\* The user installs another version under the same path.
Replace == /\ version < MaxVersions /\ version' = version + 1
           /\ quiet' = {l \in quiet : ~Active(l)}
           /\ UNCHANGED <<apkShape, nativeActivity, stage, seen, got, into, index, extracted, stagedApk, loaded>>

Next == \/ Replace
        \/ \E l \in Launches : \/ Classify(l) \/ Prepare(l) \/ MakeDirectory(l) \/ OpenLibrary(l) \/ WriteLibrary(l)
                               \/ RunNative(l) \/ BeginStage(l) \/ EndStage(l) \/ RunArt(l)
Spec == Init /\ [][Next]_vars

----
(* build_art_bootstrap_plan(), for every set of files that may exist.      *)

\* The arguments after the class name; a missing one leaves no gap.
Given == SelectSeq(<<apkShape.package, apkShape.activity, apkShape.application>>, LAMBDA a : a # "")
\* What ArtApkMain reads at place i.
Argument(i) == IF i <= Len(Given) THEN Given[i] ELSE ""

\* The boot class path: the candidates that exist, the bootstrap jar behind
\* framework.jar, then the other framework and generated jars not seen yet.
BootClassPath(present, extra) ==
    LET found == SelectSeq([i \in DOMAIN Jars |-> Jars[i].jar], LAMBDA j : j \in present)
        withBootstrap == FoldLeft(LAMBDA acc, j : IF j = "framework.jar" /\ "bootstrap" \in present
                                                  THEN acc \o <<j, "bootstrap">> ELSE Append(acc, j), <<>>, found)
    IN withBootstrap \o SelectSeq(extra, LAMBDA j : j \notin Range(withBootstrap))
PlanReady(present) == "bootstrap" \in present /\ \A i \in DOMAIN Jars : Jars[i].required => Jars[i].jar \in present

----
\* A launch that nothing disturbed gives the runner the bytes of the version it
\* classified: the selected library, provided no other library has its file
\* name, or the staged APK.
RunsWhatItClassified ==
    \A l \in Launches : stage[l] = "running" /\ l \in quiet =>
        IF IsJava THEN loaded[l] = <<seen[l], 0>>
        ELSE Cardinality(FileNames(apkShape)) = Len(apkShape.libs) =>
                loaded[l] = <<seen[l], Selected>>
\* ArtApkMain, which reads them by position, gets package, activity and class in
\* their places when none is missing before another that is given.
ArgumentsInPlace ==
    (apkShape.activity # "" => apkShape.package # "") /\ (apkShape.application # "" => apkShape.activity # "") =>
        Argument(1) = apkShape.package /\ Argument(2) = apkShape.activity /\ Argument(3) = apkShape.application
\* No jar comes twice, and the bootstrap classes come before all that follows
\* framework.jar, for every plan that is ready.
BootOrder ==
    version = 1 => \A present \in SUBSET ({Jars[i].jar : i \in DOMAIN Jars} \cup {"bootstrap"}) :
        PlanReady(present) =>
            LET p == BootClassPath(present, <<"framework-extra.jar", "framework.jar", "generated.jar">>)
                at == SelectInSeq(p, LAMBDA j : j = "framework.jar")
            IN at # 0 /\ p[at + 1] = "bootstrap" /\ Cardinality(Range(p)) = Len(p)
LaunchSound == RunsWhatItClassified /\ ArgumentsInPlace /\ BootOrder
=============================================================================
