---------------------------- MODULE BuildPipeline ----------------------------
(***************************************************************************)
(* .tools/build.ps1: repeated builds of the mod into one output directory. *)
(*                                                                         *)
(* Main runs its steps in a fixed order and throws at the first that       *)
(* fails; nothing that was done before is undone, and the next build       *)
(* starts from what it finds.  The parts of the output directory are       *)
(* groups of files that the script treats alike, each as of one version of *)
(* the sources.  A step that goes over several parts or removes a tree may *)
(* stop halfway.  The project has art, one DLL and no loader, as this one  *)
(* does, and the names of its files do not change.                         *)
(*                                                                         *)
(* The CMake build directory is left out, with the configuration that is   *)
(* built and the places where the DLL is looked for in it: a DLL is only   *)
(* deployed after a build of the sources that are there, into the same     *)
(* directory with the same generator, so the one that is found is of that  *)
(* build; that none is found, or several, is a throw.                      *)
(*                                                                         *)
(* External: CMake builds the current sources or fails; each command of    *)
(* the asset cooker writes its output or fails, and any of them may write  *)
(* a .dep file, into the output or into the project directory.  That one   *)
(* of them does is what the script relies on and does not check.           *)
(***************************************************************************)
EXTENDS Naturals

CONSTANTS
  MaxVersion,   \* bound: versions of the sources
  Invocations   \* the option sets the script is called with

Cooked == {"artdefs", "windows", "macos"}
Parts == Cooked \cup {"content", "dll", "dep", "modinfo"}

ASSUME VersionAssumption == MaxVersion \in Nat \ {0}
ASSUME InvocationsAssumption ==
  Invocations \subseteq
    [clean : BOOLEAN, skip : SUBSET {"dll", "art"}, force : SUBSET {"dll", "art"}]

VARIABLES
  version,  \* of the sources in the project directory
  out,      \* the output directory
  stray,    \* the version of a .dep in the project directory, 0 for none
  listed,   \* the parts whose files the .modinfo lists
  step,     \* the step of Main that is next; "done" and "failed" are exits,
            \* "idle" is before the first build
  opts,     \* the options of this invocation
  depped,   \* history: the cooker has written a .dep in this build
  artFailed \* history: no build without --skip=art, or the last one failed

vars == <<version, out, stray, listed, step, opts, depped, artFailed>>
project == <<version, stray>>
history == <<depped, artFailed>>

\* `whole' says of artdefs that they are cooked, of the .modinfo that it was
\* written to its end.
Absent == [version |-> 0, whole |-> TRUE]
Is(v) == [version |-> v, whole |-> TRUE]
Exists(p) == out[p] # Absent

Files == [version : 0 .. MaxVersion, whole : BOOLEAN]

SkipDll == "dll" \in opts.skip
SkipArt == "art" \in opts.skip
ForceArt == "art" \in opts.force

-----------------------------------------------------------------------------
(* Steps.                                                                  *)

Then(s) == step' = s

\* A throw: the script exits with 1.
Throw == Then("failed")

\* The parts ps get their new state new[p] and the step goes on to s, or
\* only some of them do and it throws: those of one of the sets in `partly'.
Each(ps, partly, new, s) ==
  \E those \in partly \cup {ps} :
    /\ out' = [p \in Parts |-> IF p \in those THEN new[p] ELSE out[p]]
    /\ Throw \/ (those = ps /\ Then(s))

Removing(ps, partly, s) ==
  /\ Each(ps, partly, [p \in ps |-> Absent], s)
  /\ UNCHANGED <<project, listed, opts, history>>

\* The script is started by hand, when no other build is running; the
\* sources may have changed since the last one.
Start(o) ==
  /\ step \in {"idle", "done", "failed"}
  /\ version' \in {version, version + 1} /\ version' <= MaxVersion
  /\ artFailed' = IF step = "idle" \/ SkipArt THEN artFailed
                   ELSE step = "failed"
  /\ opts' = o /\ depped' = FALSE
  /\ Then("inputs")
  /\ UNCHANGED <<out, stray, listed>>

\* Assert-Inputs refuses what contradicts itself, and whatever else is
\* missing, a cooker that will be needed too, stops the build here.
\* `--clean --skip=dll' is let through; it deletes the DLL that it needs.
AssertInputs ==
  /\ step = "inputs"
  /\ \/ /\ opts.skip \cap opts.force = {} /\ ~ (opts.clean /\ SkipArt)
        /\ Then("clean")
     \/ Throw
  /\ UNCHANGED <<project, out, listed, opts, history>>

InvokeClean ==
  /\ step = "clean" /\ opts.clean
  /\ Removing(Parts, SUBSET Parts, "intermediate")

RemoveDllIntermediate ==
  /\ step = "intermediate" /\ (opts.clean \/ "dll" \in opts.force)
  /\ Throw \/ Then("cooked")
  /\ UNCHANGED <<project, out, listed, opts, history>>

\* Mutant: the .dep stays.
RemoveCookedArtKeepsDep ==
  /\ step = "cooked" /\ ForceArt
  /\ Removing(Cooked, {{}, {"artdefs"}, {"artdefs", "windows"}}, "copy")

\* The three directories in their order, and the .dep last.
RemoveCookedArt ==
  /\ step = "cooked" /\ ForceArt
  /\ Removing(Cooked \cup {"dep"},
              {{}, {"artdefs"}, {"artdefs", "windows"}, Cooked}, "copy")

\* The removals that were not asked for.
PassOver ==
  /\ \/ step = "clean" /\ ~ opts.clean /\ Then("intermediate")
     \/ /\ step = "intermediate" /\ ~ (opts.clean \/ "dll" \in opts.force)
        /\ Then("cooked")
     \/ step = "cooked" /\ ~ ForceArt /\ Then("copy")
  /\ UNCHANGED <<project, out, listed, opts, history>>

\* What is copied: the .artdef files are content too, and unless art is
\* skipped the project's own go over the cooked ones.
Contents == IF SkipArt THEN {"content"} ELSE {"content", "artdefs"}

Copies == [content |-> Is(version),
           artdefs |-> [version |-> version, whole |-> FALSE]]

\* Mutant: the project's artdefs are copied although art is skipped.
CopyContentFilesAll ==
  /\ step = "copy"
  /\ Each({"content", "artdefs"}, {}, Copies, "dll")
  /\ UNCHANGED <<project, listed, opts, history>>

CopyContentFiles ==
  /\ step = "copy"
  /\ Each(Contents, SUBSET Contents, Copies, "dll")
  /\ UNCHANGED <<project, listed, opts, history>>

InvokeDllBuild ==
  /\ step = "dll" /\ ~ SkipDll
  /\ Throw \/ Then("deploy")
  /\ UNCHANGED <<project, out, listed, opts, history>>

CopyDllArtifacts ==
  /\ step = "deploy"
  /\ Each({"dll"}, {{}}, [dll |-> Is(version)],
          IF SkipArt THEN "dep" ELSE "artdefs")
  /\ UNCHANGED <<project, listed, opts, history>>

\* Mutant: what is missing is not noticed.
GetDeployedDllFilesAny ==
  /\ step = "dll" /\ SkipDll
  /\ Then(IF SkipArt THEN "dep" ELSE "artdefs")
  /\ UNCHANGED <<project, out, listed, opts, history>>

\* Get-DeployedDllFiles, and the count that Main checks.
GetDeployedDllFiles ==
  /\ step = "dll" /\ SkipDll
  /\ IF Exists("dll") THEN Then(IF SkipArt THEN "dep" ELSE "artdefs")
                      ELSE Throw
  /\ UNCHANGED <<project, out, listed, opts, history>>

\* Commands of the asset cooker with the outputs ps, and the last place a
\* .dep went to.
Cook(ps, s) ==
  \E dep \in {"nowhere", "output", "project"}, those \in SUBSET ps :
    /\ out' = [p \in Parts |->
                 IF p \in those \/ (p = "dep" /\ dep = "output")
                 THEN Is(version) ELSE out[p]]
    /\ stray' = IF dep = "project" THEN version ELSE stray
    /\ depped' = (depped \/ dep # "nowhere")
    /\ Throw \/ (those = ps /\ Then(s))
    /\ UNCHANGED <<version, listed, opts, artFailed>>

\* Invoke-Cooker: the artdefs, then every XLP for both platforms.
CookArtDefs == step = "artdefs" /\ Cook({"artdefs"}, "xlps")
CookXlps == step = "xlps" /\ Cook({"windows", "macos"}, "dep")

\* Resolve-DepPath: the one found anywhere in the output directory, or else
\* a stray of the project directory, which is moved there.  It throws when
\* there is none, and when either has several.
ResolveDepPath ==
  /\ step = "dep"
  /\ \/ Throw /\ UNCHANGED <<out, stray>>
     \/ Exists("dep") /\ Then("modinfo") /\ UNCHANGED <<out, stray>>
     \/ /\ ~ Exists("dep") /\ stray # 0 /\ Then("modinfo")
        /\ out' = [out EXCEPT !["dep"] = Is(stray)]
        /\ stray' = 0
  /\ UNCHANGED <<version, listed, opts, history>>

\* Mutant: whatever is in the output directory is listed.
NewModInfoListsAll ==
  /\ step = "modinfo"
  /\ \/ Throw /\ UNCHANGED <<out, listed>>
     \/ /\ out' = [out EXCEPT !["modinfo"] = Is(version)]
        /\ listed' = {p \in Parts : Exists(p)}
        /\ Then("done")
  /\ UNCHANGED <<project, opts, history>>

\* New-ModInfo lists what was copied and deployed, and what it finds of the
\* rest.  A throw before or while the file is saved leaves the old one or a
\* truncated one.
NewModInfo ==
  /\ step = "modinfo"
  /\ \/ Throw /\ UNCHANGED <<out, listed>>
     \/ \E saved \in BOOLEAN :
          /\ out' = [out EXCEPT !["modinfo"] =
                       [version |-> version, whole |-> saved]]
          /\ listed' = {"content"} \cup
                         {p \in Cooked \cup {"dep", "dll"} : Exists(p)}
          /\ IF saved THEN Then("done") ELSE Throw
  /\ UNCHANGED <<project, opts, history>>

Init ==
  /\ version = 1
  /\ out = [p \in Parts |-> Absent]
  /\ stray = 0
  /\ listed = {}
  /\ step = "idle" /\ opts = [clean |-> FALSE, skip |-> {}, force |-> {}]
  /\ depped = FALSE
  /\ artFailed = TRUE

Next ==
  \/ \E o \in Invocations : Start(o)
  \/ AssertInputs
  \/ InvokeClean \/ RemoveDllIntermediate \/ RemoveCookedArt \/ PassOver
  \/ CopyContentFiles
  \/ InvokeDllBuild \/ CopyDllArtifacts \/ GetDeployedDllFiles
  \/ CookArtDefs \/ CookXlps
  \/ ResolveDepPath \/ NewModInfo

Spec == Init /\ [][Next]_vars

-----------------------------------------------------------------------------
(* Properties.                                                             *)

\* The type invariant.
TypeOK ==
  /\ version \in 1 .. MaxVersion
  /\ out \in [Parts -> Files]
  /\ stray \in 0 .. MaxVersion
  /\ listed \subseteq Parts \ {"modinfo"}
  /\ opts \in [clean : BOOLEAN, skip : SUBSET {"dll", "art"},
               force : SUBSET {"dll", "art"}]
  /\ depped \in BOOLEAN /\ artFailed \in BOOLEAN

\* Exit code 0, and whatever failed in the builds before: the .modinfo is of
\* this build and names only what is there, the content, the DLL and the
\* .dep among it; what was not skipped is of the sources as they are; and
\* all of the art is there and named, unless this build skipped it after
\* the last one that was to cook had failed.  In that case the script takes
\* what art it finds, if any, and exits with 0 all the same.
SuccessComplete ==
  step = "done" =>
    /\ {"content", "dll", "dep"} \subseteq listed
    /\ \A p \in listed : Exists(p)
    /\ out["modinfo"] = Is(version) /\ out["content"] = Is(version)
    /\ ~ SkipDll => out["dll"] = Is(version)
    /\ ~ SkipArt => \A p \in Cooked : out[p] = Is(version)
    /\ ~ (SkipArt /\ artFailed) => Cooked \subseteq listed

\* "art reuses the art already cooked in the output directory": there is
\* such art, all of it and cooked, unless the last build that was to cook
\* failed; a build that skips art spoils none.
ReusedArtCooked ==
  step = "done" /\ SkipArt /\ ~ artFailed =>
    \A p \in Cooked : Exists(p) /\ out[p].whole

\* "art deletes the cooked art and the .dep before cooking": after a clean
\* build or a forced art build the .dep is the one the cooker wrote in this
\* build, wherever it put it and whatever an earlier build left in the
\* project directory.  Where the cooker wrote none, one of those is taken.
ForcedDepFresh ==
  step = "done" /\ (opts.clean \/ ForceArt) /\ depped =>
    out["dep"] = Is(version)
=============================================================================
