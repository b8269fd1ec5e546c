------------------------- MODULE BuildPipeline_proofs -------------------------
(***************************************************************************)
(* What a build that exits with 0 has left in the output directory, for    *)
(* any number of versions and any sequence of builds and failures.         *)
(*                                                                         *)
(* The invariant says for each step of Main what the steps before it have  *)
(* made sure of.                                                           *)
(***************************************************************************)
EXTENDS BuildPipeline, TLAPS

Running ==
  {"clean", "intermediate", "cooked", "copy", "dll", "deploy", "artdefs",
   "xlps", "dep", "modinfo"}

Steps == Running \cup {"idle", "inputs", "done", "failed"}

Forced == opts.clean \/ ForceArt

\* The options that are refused are gone after AssertInputs.
Consistent ==
  step \in Running \cup {"done"} /\ SkipArt => ~ opts.clean /\ ~ ForceArt

\* The content is copied, and the DLL is there, before anything that needs
\* them.
Delivered ==
  /\ step \in {"dll", "deploy", "artdefs", "xlps", "dep", "modinfo", "done"} =>
       out["content"] = Is(version)
  /\ step = "deploy" => ~ SkipDll
  /\ step \in {"artdefs", "xlps", "dep", "modinfo", "done"} =>
       Exists("dll") /\ (~ SkipDll => out["dll"] = Is(version))

\* The art is cooked by the time the .dep is looked for.
Prepared ==
  /\ step \in {"artdefs", "xlps"} => ~ SkipArt
  /\ step = "xlps" => out["artdefs"] = Is(version)
  /\ step \in {"dep", "modinfo", "done"} /\ ~ SkipArt =>
       \A p \in Cooked : out[p] = Is(version)

\* Where the .dep of a forced build is.
Written == out["dep"] = Is(version) \/ (out["dep"] = Absent /\ stray = version)

DepTraced ==
  /\ step \in {"inputs", "clean", "intermediate", "cooked", "copy", "dll",
               "deploy", "artdefs"} => ~ depped
  /\ step \in {"intermediate", "cooked"} /\ opts.clean => out["dep"] = Absent
  /\ step \in {"copy", "dll", "deploy", "artdefs", "xlps", "dep"} /\ Forced =>
       IF depped THEN Written ELSE out["dep"] = Absent
  /\ step \in {"modinfo", "done"} =>
       Exists("dep") /\ (Forced /\ depped => out["dep"] = Is(version))

\* Art that was cooked stays cooked while art is skipped.
CookedKept ==
  /\ step = "idle" => artFailed
  /\ SkipArt /\ ~ artFailed => \A p \in Cooked : Exists(p) /\ out[p].whole

IInv ==
  /\ TypeOK /\ step \in Steps
  /\ Consistent /\ Delivered /\ Prepared /\ DepTraced /\ CookedKept
  /\ SuccessComplete

-----------------------------------------------------------------------------
(* The parts of the output directory.                                      *)

LEMMA IsFile ==
  ASSUME TypeOK
  PROVE  /\ Is(version) \in Files /\ Is(version) # Absent /\ Is(version).whole
         /\ Absent \in Files
         /\ [version |-> version, whole |-> FALSE] \in Files
         /\ [version |-> version, whole |-> FALSE] # Absent
BY VersionAssumption DEF TypeOK, Is, Absent, Files

\* Each leaves a directory that is one, when the new contents are files.
LEMMA EachFiles ==
  ASSUME TypeOK, NEW ps \in SUBSET Parts, NEW partly \in SUBSET SUBSET ps,
         NEW new, \A p \in ps : new[p] \in Files, NEW s, Each(ps, partly, new, s)
  PROVE  out' \in [Parts -> Files]
BY DEF Each, TypeOK

LEMMA InitIInv == Init => IInv
<1> SUFFICES ASSUME Init PROVE IInv
  OBVIOUS
<1>1. out["modinfo"] = Absent
  BY DEF Init, Parts
<1>2. TypeOK
  <2>1. Absent \in Files /\ 1 \in 1 .. MaxVersion /\ 0 \in 0 .. MaxVersion
    BY VersionAssumption DEF Absent, Files
  <2>. QED
    BY <2>1 DEF Init, TypeOK
<1>3. /\ step = "idle" /\ artFailed /\ opts.skip = {}
  BY DEF Init
<1>. QED
  BY <1>1, <1>2, <1>3
  DEF IInv, Steps, Running, Consistent, Delivered, Prepared, DepTraced,
      CookedKept, SuccessComplete, SkipArt

-----------------------------------------------------------------------------
(* The steps of Main.                                                      *)

\* What becomes of the parts a step goes over.
LEMMA EachParts ==
  ASSUME NEW ps \in SUBSET Parts, NEW partly \in SUBSET SUBSET ps, NEW new,
         NEW s, Each(ps, partly, new, s)
  PROVE  /\ \A p \in Parts : out'[p] = out[p] \/ (p \in ps /\ out'[p] = new[p])
         /\ \/ step' = "failed"
            \/ step' = s /\ \A p \in Parts :
                              out'[p] = IF p \in ps THEN new[p] ELSE out[p]
BY DEF Each, Throw, Then

LEMMA StartIInv ==
  ASSUME IInv, NEW o \in Invocations, Start(o) PROVE IInv'
<1>. USE DEF Start, Then
<1>1. TypeOK'
  <2>1. o \in [clean : BOOLEAN, skip : SUBSET {"dll", "art"},
               force : SUBSET {"dll", "art"}]
    BY InvocationsAssumption
  <2>2. version' \in 1 .. MaxVersion
    BY VersionAssumption DEF IInv, TypeOK
  <2>. QED
    BY <2>1, <2>2 DEF IInv, TypeOK
<1>2. CookedKept'
  <2>1. ~ artFailed' => \A p \in Cooked : Exists(p) /\ out[p].whole
    <3>1. CASE ~ SkipArt /\ step = "done"
      <4>1. \A p \in Cooked : out[p] = Is(version)
        BY <3>1 DEF IInv, Prepared
      <4>. QED
        BY <4>1, IsFile DEF IInv, Exists
    <3>2. CASE SkipArt \/ step # "done"
      BY <3>2 DEF IInv, CookedKept
    <3>. QED
      BY <3>1, <3>2
  <2>. QED
    BY <2>1 DEF CookedKept, Exists
<1>. QED
  BY <1>1, <1>2
  DEF IInv, Steps, Running, Consistent, Delivered, Prepared, DepTraced,
      SuccessComplete

\* The steps that change no file.
LEMMA QuietIInv ==
  ASSUME IInv,
         \/ AssertInputs \/ RemoveDllIntermediate \/ PassOver
         \/ InvokeDllBuild \/ GetDeployedDllFiles
  PROVE  IInv'
<1>1. UNCHANGED <<version, stray, out, listed, opts, depped, artFailed>>
  BY DEF AssertInputs, RemoveDllIntermediate, PassOver, InvokeDllBuild,
         GetDeployedDllFiles, project, history
<1>2. TypeOK' /\ CookedKept' /\ step' \in Steps
  BY <1>1 DEF IInv, TypeOK, CookedKept, SkipArt, Exists,
     AssertInputs, RemoveDllIntermediate, PassOver, InvokeDllBuild,
     GetDeployedDllFiles, Throw, Then, Steps, Running
<1>3. step' # "done" /\ SuccessComplete'
  BY <1>1 DEF IInv, AssertInputs, RemoveDllIntermediate, PassOver, InvokeDllBuild,
     GetDeployedDllFiles, Throw, Then, SuccessComplete
<1>4. Consistent' /\ Delivered' /\ Prepared' /\ DepTraced'
  <2>. USE <1>1 DEF IInv, Consistent, Delivered, Prepared, DepTraced, Forced,
           Written, SkipArt, SkipDll, ForceArt, Exists, Running, Throw, Then
  <2>1. CASE AssertInputs
    BY <2>1 DEF AssertInputs
  <2>2. CASE RemoveDllIntermediate
    BY <2>2 DEF RemoveDllIntermediate
  <2>3. CASE PassOver
    BY <2>3 DEF PassOver
  <2>4. CASE InvokeDllBuild
    BY <2>4 DEF InvokeDllBuild
  <2>5. CASE GetDeployedDllFiles
    BY <2>5 DEF GetDeployedDllFiles
  <2>. QED
    BY <2>1, <2>2, <2>3, <2>4, <2>5
<1>. QED
  BY <1>2, <1>3, <1>4 DEF IInv

\* The removals.
LEMMA RemovingIInv ==
  ASSUME IInv, InvokeClean \/ RemoveCookedArt PROVE IInv'
<1>. DEFINE gone == IF step = "clean" THEN Parts ELSE Cooked \cup {"dep"}
            next == IF step = "clean" THEN "intermediate" ELSE "copy"
<1>1. /\ \A p \in Parts : out'[p] = out[p] \/ out'[p] = Absent
      /\ \/ step' = "failed"
         \/ step' = next /\ \A p \in Parts :
                              out'[p] = IF p \in gone THEN Absent ELSE out[p]
      /\ out' \in [Parts -> Files]
  <2>1. CASE InvokeClean
    <3>. DEFINE new == [p \in Parts |-> Absent]
    <3>1. Each(Parts, SUBSET Parts, new, "intermediate") /\ step = "clean"
      BY <2>1 DEF InvokeClean, Removing
    <3>2. \A p \in Parts : new[p] = Absent /\ new[p] \in Files
      BY IsFile DEF IInv
    <3>. HIDE DEF new
    <3>. QED
      BY <3>1, <3>2, EachParts, EachFiles DEF IInv
  <2>2. CASE RemoveCookedArt
    <3>. DEFINE ps == Cooked \cup {"dep"}
                part == {{}, {"artdefs"}, {"artdefs", "windows"}, Cooked}
                new == [p \in ps |-> Absent]
    <3>1. Each(ps, part, new, "copy") /\ step = "cooked"
      BY <2>2 DEF RemoveCookedArt, Removing
    <3>2. \A p \in ps : new[p] = Absent /\ new[p] \in Files
      BY IsFile DEF IInv
    <3>3. ps \in SUBSET Parts /\ part \in SUBSET SUBSET ps
      BY DEF Parts, Cooked
    <3>. HIDE DEF new, part, ps
    <3>4. /\ out' \in [Parts -> Files]
          /\ \A p \in Parts : out'[p] = out[p] \/ (p \in ps /\ out'[p] = new[p])
          /\ \/ step' = "failed"
             \/ step' = "copy" /\ \A p \in Parts :
                              out'[p] = IF p \in ps THEN new[p] ELSE out[p]
      BY <3>1, <3>2, <3>3, EachParts, EachFiles DEF IInv
    <3>. QED
      BY <3>1, <3>2, <3>4 DEF ps
  <2>. QED
    BY <2>1, <2>2
<1>2. /\ UNCHANGED <<version, stray, listed, opts, depped, artFailed>>
      /\ step \in {"clean", "cooked"}
      /\ step = "clean" => opts.clean
      /\ step = "cooked" => ForceArt
  BY DEF InvokeClean, RemoveCookedArt, Removing, project, history
<1>3. TypeOK' /\ step' \in {"failed", "intermediate", "copy"}
  BY <1>1, <1>2 DEF IInv, TypeOK
<1>4. ~ SkipArt /\ UNCHANGED <<SkipArt, ForceArt, SkipDll>>
  BY <1>2 DEF IInv, Consistent, Running, SkipArt, ForceArt, SkipDll
<1>5. DepTraced'
  BY <1>1, <1>2, <1>4 DEF IInv, DepTraced, Parts, Forced, Absent, Exists, Written
<1>6. CookedKept' /\ Consistent'
  BY <1>2, <1>3, <1>4 DEF CookedKept, Consistent
<1>. QED
  BY <1>3, <1>5, <1>6 DEF IInv, Steps, Running, Delivered, Prepared, SuccessComplete

LEMMA CopyContentFilesIInv == ASSUME IInv, CopyContentFiles PROVE IInv'
<1>1. Contents \in SUBSET Parts /\ \A p \in Contents : Copies[p] \in Files /\ Copies[p] # Absent
  <2>1. /\ Copies["content"] = Is(version)
        /\ Copies["artdefs"] = [version |-> version, whole |-> FALSE]
    BY DEF Copies
  <2>. QED
    BY <2>1, IsFile DEF IInv, Contents, Parts, Cooked
<1>2. /\ out' \in [Parts -> Files]
      /\ \A p \in Parts : out'[p] = out[p] \/ (p \in Contents /\ out'[p] = Copies[p])
      /\ \/ step' = "failed"
         \/ step' = "dll" /\ \A p \in Parts :
               out'[p] = IF p \in Contents THEN Copies[p] ELSE out[p]
  BY <1>1, EachParts, EachFiles DEF IInv, CopyContentFiles
<1>3. step = "copy" /\ UNCHANGED <<version, stray, listed, opts, depped, artFailed>>
  BY DEF CopyContentFiles, project, history
<1>4. TypeOK' /\ step' \in {"failed", "dll"} /\ UNCHANGED <<SkipArt, ForceArt, SkipDll>>
  BY <1>2, <1>3 DEF IInv, TypeOK, SkipArt, ForceArt, SkipDll
<1>5. \A p \in Parts : Exists(p) => Exists(p)'
  BY <1>1, <1>2 DEF Exists
<1>7. CookedKept'
  BY <1>2, <1>3, <1>4, <1>5 DEF IInv, CookedKept, Contents, Parts, Cooked
<1>8. DepTraced' /\ Delivered'
  BY <1>2, <1>3, <1>4
  DEF IInv, DepTraced, Delivered, Forced, Written, Parts, Contents, Copies, Is, Exists
<1>. QED
  BY <1>3, <1>4, <1>7, <1>8
  DEF IInv, Steps, Running, Consistent, Prepared, SuccessComplete

LEMMA CopyDllArtifactsIInv == ASSUME IInv, CopyDllArtifacts PROVE IInv'
<1>. DEFINE new == [dll |-> Is(version)]
            next == IF SkipArt THEN "dep" ELSE "artdefs"
<1>1. /\ out' \in [Parts -> Files]
      /\ \A p \in Parts : out'[p] = out[p] \/ (p = "dll" /\ out'[p] = Is(version))
      /\ step' = "failed" \/ (step' = next /\ out'["dll"] = Is(version))
  <2>1. /\ Each({"dll"}, {{}}, new, next) /\ "dll" \in Parts
        /\ new["dll"] = Is(version) /\ Is(version) \in Files
    BY IsFile DEF IInv, CopyDllArtifacts, Parts
  <2>2. {"dll"} \in SUBSET Parts /\ {{}} \in SUBSET SUBSET {"dll"}
    BY <2>1
  <2>3. \A p \in {"dll"} : new[p] \in Files
    BY <2>1
  <2>. HIDE DEF new, next
  <2>4. out' \in [Parts -> Files]
    BY <2>1, <2>2, <2>3, EachFiles DEF IInv
  <2>5. /\ \A p \in Parts : out'[p] = out[p] \/ (p \in {"dll"} /\ out'[p] = new[p])
        /\ \/ step' = "failed"
           \/ step' = next /\ \A p \in Parts :
                 out'[p] = IF p \in {"dll"} THEN new[p] ELSE out[p]
    BY <2>1, <2>2, EachParts
  <2>. QED
    BY <2>1, <2>4, <2>5
<1>2. step = "deploy" /\ UNCHANGED <<version, stray, listed, opts, depped, artFailed>>
  BY DEF CopyDllArtifacts, project, history
<1>3. TypeOK' /\ step' \in {"failed", next} /\ UNCHANGED <<SkipArt, ForceArt, SkipDll>>
  BY <1>1, <1>2 DEF IInv, TypeOK, SkipArt, ForceArt, SkipDll
<1>4. \A p \in Parts : Exists(p) => Exists(p)'
  BY <1>1, IsFile DEF IInv, Exists
<1>6. CookedKept'
  BY <1>1, <1>2, <1>3, <1>4 DEF IInv, CookedKept, Parts, Cooked
<1>7. DepTraced' /\ Delivered' /\ Prepared'
  BY <1>1, <1>2, <1>3, IsFile
  DEF IInv, DepTraced, Delivered, Prepared, Consistent, Running, Forced, Written, Parts, Exists
<1>. QED
  BY <1>2, <1>3, <1>6, <1>7
  DEF IInv, Steps, Running, Consistent, SuccessComplete

\* What a cooker command has done, to parts that are not the manifest's.
LEMMA CookIInv == ASSUME IInv, CookArtDefs \/ CookXlps PROVE IInv'
<1>. DEFINE ps == IF step = "artdefs" THEN {"artdefs"} ELSE {"windows", "macos"}
            next == IF step = "artdefs" THEN "xlps" ELSE "dep"
<1>1. step \in {"artdefs", "xlps"} /\ Cook(ps, next)
  BY DEF CookArtDefs, CookXlps, Cook, Throw, Then
<1>2. PICK dep \in {"nowhere", "output", "project"}, those \in SUBSET ps :
        /\ out' = [p \in Parts |->
                     IF p \in those \/ (p = "dep" /\ dep = "output")
                     THEN Is(version) ELSE out[p]]
        /\ stray' = IF dep = "project" THEN version ELSE stray
        /\ depped' = (depped \/ dep # "nowhere")
        /\ step' = "failed" \/ (those = ps /\ step' = next)
        /\ UNCHANGED <<version, listed, opts, artFailed>>
  BY <1>1 DEF Cook, Throw, Then
<1>3. \A p \in Parts : out'[p] = out[p] \/ out'[p] = Is(version)
  BY <1>2
<1>4. out'["modinfo"] = out["modinfo"] /\ out'["dll"] = out["dll"]
      /\ out'["content"] = out["content"]
  BY <1>2 DEF Parts
<1>5. TypeOK' /\ step' \in {"failed", next} /\ UNCHANGED <<SkipArt, ForceArt, SkipDll>>
  BY <1>2, IsFile, VersionAssumption DEF IInv, TypeOK, SkipArt, ForceArt, SkipDll
<1>6. \A p \in Parts : Exists(p) => Exists(p)'
  BY <1>3, IsFile DEF IInv, Exists
<1>8. ~ SkipArt /\ CookedKept' /\ Consistent'
  BY <1>1, <1>2, <1>5 DEF IInv, CookedKept, Prepared, Consistent, Steps, Running
<1>9. Delivered'
  BY <1>1, <1>2, <1>4, <1>5 DEF IInv, Delivered, Exists
<1>10. Prepared'
  BY <1>1, <1>2, <1>5 DEF IInv, Prepared, Parts, Cooked, Is
<1>11. DepTraced'
  <2>1. out'["dep"] = IF dep = "output" THEN Is(version) ELSE out["dep"]
    BY <1>2 DEF Parts
  <2>. QED
    BY <1>1, <1>2, <1>5, <2>1 DEF IInv, DepTraced, Forced, Written
<1>. QED
  BY <1>2, <1>5, <1>8, <1>9, <1>10, <1>11
  DEF IInv, Steps, Running, SuccessComplete

LEMMA ResolveDepPathIInv == ASSUME IInv, ResolveDepPath PROVE IInv'
<1>1. /\ step = "dep" /\ UNCHANGED <<version, listed, opts, depped, artFailed>>
      /\ step' \in {"failed", "modinfo"}
  BY DEF ResolveDepPath, Throw, Then, history
<1>2. /\ \A p \in Parts : out'[p] = out[p] \/ (p = "dep" /\ ~ Exists("dep") /\ out'[p] = Is(stray))
      /\ out' \in [Parts -> Files] /\ stray' \in 0 .. MaxVersion
  <2>1. CASE UNCHANGED <<out, stray>>
    BY <2>1 DEF IInv, TypeOK
  <2>2. CASE ~ Exists("dep") /\ out' = [out EXCEPT !["dep"] = Is(stray)] /\ stray' = 0
    <3>1. Is(stray) \in Files /\ 0 \in 0 .. MaxVersion
      BY VersionAssumption DEF IInv, TypeOK, Is, Files
    <3>. QED
      BY <2>2, <3>1 DEF IInv, TypeOK
  <2>. QED
    BY <2>1, <2>2 DEF ResolveDepPath
<1>3. step' = "modinfo" =>
        Exists("dep")' /\ (Forced /\ depped => out'["dep"] = Is(version))
  <2>1. CASE Exists("dep") /\ step' = "modinfo"
    <3>1. UNCHANGED <<out, stray>>
      BY <2>1 DEF ResolveDepPath, Throw, Then
    <3>. QED
      BY <1>1, <2>1, <3>1 DEF IInv, DepTraced, Written, Exists
  <2>2. CASE ~ Exists("dep") /\ step' = "modinfo"
    <3>1. stray # 0 /\ out' = [out EXCEPT !["dep"] = Is(stray)]
      BY <2>2 DEF ResolveDepPath, Throw, Then
    <3>2. out'["dep"] = Is(stray) /\ Is(stray) # Absent
      BY <3>1 DEF IInv, TypeOK, Parts, Is, Absent
    <3>3. Forced /\ depped => stray = version
      BY <1>1, <2>2, IsFile DEF IInv, DepTraced, Written, Exists
    <3>. QED
      BY <3>2, <3>3 DEF Exists
  <2>. QED
    BY <2>1, <2>2
<1>4. TypeOK' /\ UNCHANGED <<SkipArt, ForceArt, SkipDll, Forced>>
  <2>. QED
    BY <1>1, <1>2 DEF IInv, TypeOK, SkipArt, ForceArt, SkipDll, Forced
<1>5. \A p \in Parts : Exists(p) => Exists(p)'
  BY <1>2 DEF Exists
<1>7. CookedKept'
  BY <1>1, <1>2, <1>4, <1>5 DEF IInv, CookedKept, Parts, Cooked
<1>8. DepTraced' /\ Delivered' /\ Prepared' /\ Consistent'
  BY <1>1, <1>2, <1>3, <1>4
  DEF IInv, DepTraced, Delivered, Prepared, Consistent, Running, Parts, Cooked, Exists
<1>. QED
  BY <1>1, <1>4, <1>7, <1>8
  DEF IInv, Steps, Running, SuccessComplete

LEMMA NewModInfoIInv == ASSUME IInv, NewModInfo PROVE IInv'
<1>1. /\ step = "modinfo" /\ UNCHANGED <<version, stray, opts, depped, artFailed>>
      /\ step' \in {"failed", "done"}
      /\ UNCHANGED <<SkipArt, ForceArt, SkipDll, Forced>>
  BY DEF NewModInfo, Throw, Then, project, history, SkipArt, ForceArt, SkipDll, Forced
<1>2. CASE UNCHANGED <<out, listed>> /\ Throw
  <2>1. TypeOK' /\ CookedKept'
    BY <1>1, <1>2 DEF IInv, TypeOK, CookedKept, Throw, Then, Exists
  <2>. QED
    BY <1>1, <1>2, <2>1 DEF IInv, Steps, Running, Throw, Then, Delivered, Prepared, DepTraced,
       Consistent, SuccessComplete
<1>3. ASSUME NEW saved \in BOOLEAN,
             out' = [out EXCEPT !["modinfo"] =
                       [version |-> version, whole |-> saved]],
             listed' = {"content"} \cup
                         {p \in Cooked \cup {"dep", "dll"} : Exists(p)},
             IF saved THEN Then("done") ELSE Throw
      PROVE  IInv'
  <2>1. /\ \A p \in Parts : p # "modinfo" => out'[p] = out[p]
        /\ out'["modinfo"] = [version |-> version, whole |-> saved]
    BY <1>3 DEF IInv, TypeOK, Parts
  <2>2. [version |-> version, whole |-> saved] \in Files
    BY VersionAssumption DEF IInv, TypeOK, Files
  <2>3. TypeOK'
    BY <1>1, <1>3, <2>2 DEF IInv, TypeOK, Parts, Cooked
  <2>4. \A p \in listed' : Exists(p)'
    <3>1. Exists("content")
      BY <1>1, IsFile DEF IInv, Delivered, Exists
    <3>2. \A p \in listed' : Exists(p) /\ p \in Parts \ {"modinfo"}
      BY <1>3, <3>1 DEF Parts, Cooked
    <3>. QED
      BY <2>1, <3>2 DEF Exists
  <2>6. CookedKept' /\ Consistent' /\ Prepared' /\ Delivered' /\ DepTraced'
    BY <1>1, <2>1 DEF IInv, CookedKept, Consistent, Prepared, Delivered, DepTraced,
       Running, Parts, Cooked, Exists
  <2>7. SuccessComplete'
    <3>. SUFFICES ASSUME step' = "done"
                  PROVE  /\ {"content", "dll", "dep"} \subseteq listed'
                         /\ out'["modinfo"] = Is(version) /\ out'["content"] = Is(version)
                         /\ ~ SkipDll => out'["dll"] = Is(version)
                         /\ ~ SkipArt => \A p \in Cooked : out'[p] = Is(version)
                         /\ ~ (SkipArt /\ artFailed) => Cooked \subseteq listed'
      BY <1>1, <2>4 DEF SuccessComplete, Is
    <3>1. saved
      BY <1>3 DEF Throw, Then
    <3>2. ~ SkipArt => \A p \in Cooked : Exists(p)
      BY <1>1, IsFile DEF IInv, Prepared, Exists
    <3>3. ~ (SkipArt /\ artFailed) => \A p \in Cooked : Exists(p)
      BY <3>2 DEF IInv, CookedKept
    <3>4. ~ (SkipArt /\ artFailed) => Cooked \subseteq listed'
      BY <1>3, <3>3
    <3>. QED
      BY <3>4, <1>1, <1>3, <2>1, <3>1 DEF IInv, Delivered, Prepared, DepTraced, Exists, Parts, Cooked, Is
  <2>. QED
    BY <1>1, <2>3, <2>6, <2>7 DEF IInv, Steps
<1>. QED
  BY <1>2, <1>3 DEF NewModInfo

LEMMA NextIInv == IInv /\ [Next]_vars => IInv'
<1>. SUFFICES ASSUME IInv, [Next]_vars PROVE IInv'
  OBVIOUS
<1>1. CASE Next
  BY <1>1, StartIInv, QuietIInv, RemovingIInv, CopyContentFilesIInv,
     CopyDllArtifactsIInv, CookIInv, ResolveDepPathIInv, NewModInfoIInv
  DEF Next
<1>2. CASE UNCHANGED vars
  BY <1>2 DEF vars, IInv, TypeOK, Steps, Running, Consistent, Delivered, Prepared,
     DepTraced, CookedKept, SuccessComplete, Forced, Written,
     SkipArt, SkipDll, ForceArt, Exists
<1>. QED
  BY <1>1, <1>2

LEMMA Invariance == Spec => []IInv
BY InitIInv, NextIInv, PTL DEF Spec

-----------------------------------------------------------------------------
(* Theorems.                                                               *)

\* What exit code 0 means for the files and for what the .modinfo names: Main
\* writes it last, of what it has copied, deployed and cooked or found in
\* place.
THEOREM BuildsComplete == Spec => []SuccessComplete
<1>1. IInv => SuccessComplete
  BY DEF IInv
<1>. QED
  BY <1>1, Invariance, PTL

\* Builds that skip art find it cooked, when the last one that was to cook
\* has ended well.
THEOREM ArtStaysCooked == Spec => []ReusedArtCooked
<1>1. IInv => ReusedArtCooked
  BY DEF IInv, CookedKept, ReusedArtCooked
<1>. QED
  BY <1>1, Invariance, PTL

\* No .dep of an earlier build passes for that of a clean or forced one, when
\* its cooker has written one.
THEOREM ForcedDepIsFresh == Spec => []ForcedDepFresh
<1>1. IInv => ForcedDepFresh
  BY DEF IInv, DepTraced, Forced, ForcedDepFresh
<1>. QED
  BY <1>1, Invariance, PTL

\* Type correctness of the output directory and of the script's variables.
THEOREM BuildTypes == Spec => []TypeOK
<1>1. IInv => TypeOK
  BY DEF IInv
<1>. QED
  BY <1>1, Invariance, PTL
=============================================================================
