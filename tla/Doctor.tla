------------------------------- MODULE Doctor -------------------------------
(***************************************************************************)
(* scaffold doctor and scaffold upgrade --check: what they find of the     *)
(* manifest, the files and the tools of a project, look by look, while the *)
(* developer and make go on changing them.                                 *)
(*                                                                         *)
(* Of files and tools only matters whether they are there; the manifest,   *)
(* scaffold.yaml, says where the generated ones are.  make always writes   *)
(* these to their default places.                                          *)
(***************************************************************************)
EXTENDS Naturals, Sequences

CONSTANTS
    Static,    \* the checks of hand-written files, in doctor's order
    ToolChecks,\* the checks of tools, in doctor's order
    Installed, \* the tools make init installs
    Versions,  \* what a manifest may give as scaffold_version
    Current,   \* currentScaffoldVersion
    Elsewhere, \* a path that is not a default one
    Blank,     \* a value that is empty
    Absent,    \* a key the manifest lacks, or gives as null
    Missing,   \* there is no manifest
    Malformed, \* the manifest does not parse
    Unknown,   \* no result of a command, or an outdated one
    MaxEdits,  \* bound: how often the developer changes something
    MaxRuns    \* bound: how often make is run

Commands == {"doctor", "upgrade"}
FeaturesGen == "cmd/server/features_gen.go"
WireGen == "cmd/server/wire_gen.go"
OpenAPI == "docs/openapi"

\* doctorCheck: what is looked for, whether the command fails without it, and
\* what the report advises.
Check(what, required, hint) == [what |-> what, required |-> required, hint |-> hint]
Whats(checks) == {checks[i].what : i \in 1..Len(checks)}

Files == Whats(Static) \cup {FeaturesGen, WireGen, OpenAPI, Elsewhere}
Tools == Whats(ToolChecks)
Things == Files \cup Tools

ASSUME DoctorAssumption ==
    /\ \A checks \in {Static, ToolChecks} :
           checks \in Seq([what : Whats(checks), required : BOOLEAN, hint : {""}])
    /\ Files \cap Tools = {}
    /\ {"go", "buf", "wire"} \subseteq Tools
    /\ Installed \subseteq Tools \ {"go"}
    /\ Current \in Versions
    /\ Blank \notin Versions \cup Things
    /\ {"scaffold.yaml", "scaffold_version"} \cap Things = {}
    /\ MaxEdits \in Nat /\ MaxRuns \in Nat

VARIABLES
    manifest,  \* scaffold.yaml
    present,   \* the files and tools that are there
    make,      \* the recipe lines make has yet to run
    target,    \* what it was asked for
    generated, \* make generate runs or has succeeded, and nothing was lost since it began
    look,      \* a run of a command
    seen,      \* what was there at some time during that run
    lost,      \* what was not there at some time during that run
    quiet,     \* nothing has changed during that run
    last,      \* what a command would find again, as nothing has changed
    edits, runs

world == <<manifest, present>>
making == <<make, target>>
looking == <<look, seen, lost, quiet, last>>
vars == <<world, making, generated, looking, edits, runs>>

-----------------------------------------------------------------------------
(* The manifest.                                                           *)

PathKeys == {"registry", "injector", "docs"}

\* defaultScaffoldManifest
Default == [version |-> Current, registry |-> FeaturesGen,
            injector |-> WireGen, docs |-> OpenAPI]

\* What the manifest may have under a key.
Values(k) ==
    (IF k = "version" THEN Versions ELSE {Default[k], Elsewhere}) \cup {Blank, Absent}
Manifest == [version : Values("version"), registry : Values("registry"),
             injector : Values("injector"), docs : Values("docs")]

\* yaml.Unmarshal, into the defaults.
Unmarshal(m) == [k \in DOMAIN m |-> IF m[k] = Absent THEN Default[k] ELSE m[k]]

\* (Faulty: blank paths are taken as they are.)
Unchanged(m) == m

\* A blank path counts as none, a blank version does not.
normalize(m) == [k \in DOMAIN m |-> IF k \in PathKeys /\ m[k] = Blank THEN Default[k] ELSE m[k]]

\* loadScaffoldManifest gives no error.
Loads(m) == m \notin {Missing, Malformed} /\ m.version # Blank
loadScaffoldManifest(m) == normalize(Unmarshal(m))

\* The generated files, as doctor and upgrade look for them.
Artifacts(m) == <<
    Check(m.registry, TRUE, "make generate"),
    Check(m.injector, TRUE, "make generate"),
    Check(m.docs, FALSE, "make docs") >>

ManifestCheck == Check("scaffold.yaml", TRUE, "")
VersionCheck == Check("scaffold_version", TRUE, "")

-----------------------------------------------------------------------------

Steps == {"remove docs", "buf generate", "gormgen", "codegen", "wire", "go install"}
NoLook == [command |-> "doctor", stage |-> "idle", asked |-> Default, todo |-> <<>>,
           problems |-> {}]
Checks ==
    {Static[i] : i \in 1..Len(Static)} \cup {ToolChecks[i] : i \in 1..Len(ToolChecks)}
        \cup {ManifestCheck, VersionCheck}
        \cup [what : Files, required : BOOLEAN, hint : {"make generate", "make docs"}]

TypeOK ==
    /\ manifest \in Manifest \cup {Missing, Malformed}
    /\ present \subseteq Things
    /\ make \in Seq(Steps)
    /\ target \in {"none", "generate", "docs", "init"}
    /\ generated \in {"no", "running", "yes"}
    /\ look \in [command : Commands, stage : {"idle", "checking", "done"},
                 asked : Manifest \cup {Missing, Malformed}, todo : Seq(Checks),
                 problems : SUBSET Checks]
    /\ seen \subseteq Things
    /\ lost \subseteq Things
    /\ quiet \in BOOLEAN
    /\ last \in [Commands -> {Unknown} \cup SUBSET Checks]
    /\ edits \in 0..MaxEdits
    /\ runs \in 0..MaxRuns

\* A fresh clone: what is ignored by git is not there.
Init ==
    /\ manifest = Default
    /\ present = (Files \ {WireGen, Elsewhere}) \cup {"go"}
    /\ make = <<>>
    /\ target = "none"
    /\ generated = "no"
    /\ look = NoLook
    /\ seen = {}
    /\ lost = {}
    /\ quiet = FALSE
    /\ last = [c \in Commands |-> Unknown]
    /\ edits = 0
    /\ runs = 0

\* What a change of manifest or present means to a command that is running,
\* and to the results of those that have.
Notice ==
    IF UNCHANGED world THEN UNCHANGED looking
    ELSE /\ last' = [c \in Commands |-> Unknown]
         /\ quiet' = FALSE
         /\ IF look.stage = "checking"
              THEN seen' = seen \cup present' /\ lost' = lost \cup (Things \ present')
              ELSE UNCHANGED <<seen, lost>>
         /\ UNCHANGED look

-----------------------------------------------------------------------------
(* doctor and upgrade.                                                     *)

Begin(command, problems, todo) ==
    /\ look.stage # "checking"
    /\ look' = [command |-> command, stage |-> "checking", asked |-> manifest,
                todo |-> todo, problems |-> problems]
    /\ seen' = present
    /\ lost' = Things \ present
    /\ quiet' = TRUE
    /\ UNCHANGED <<world, making, generated, last, edits, runs>>

\* (Faulty: doctor looks in the default places, whatever the manifest says.)
DoctorByDefault ==
    Begin("doctor", {c \in {ManifestCheck} : ~Loads(manifest)},
          Static \o Artifacts(Default) \o ToolChecks)

\* doctor, up to readScaffoldManifestCheck: a manifest that does not load is a
\* problem, and the defaults are used for it.
StartDoctor ==
    LET m == IF Loads(manifest) THEN loadScaffoldManifest(manifest) ELSE Default
    IN  Begin("doctor", {c \in {ManifestCheck} : ~Loads(manifest)},
              Static \o Artifacts(m) \o ToolChecks)

\* upgradeCheck: without a manifest there is nothing to check.
StartUpgrade ==
    IF Loads(manifest)
      THEN LET m == loadScaffoldManifest(manifest)
           IN  Begin("upgrade", {c \in {VersionCheck} : m.version # Current}, Artifacts(m))
      ELSE Begin("upgrade", {ManifestCheck}, <<>>)

\* checkPath and checkTool.  The empty path is the root of the project.
Look ==
    /\ look.stage = "checking"
    /\ look.todo # <<>>
    /\ LET c == Head(look.todo)
       IN  look' = [look EXCEPT !.todo = Tail(@),
                        !.problems = IF c.what = Blank \/ c.what \in present
                                       THEN @ ELSE @ \cup {c}]
    /\ UNCHANGED <<world, making, generated, seen, lost, quiet, last, edits, runs>>

\* runDoctor and runUpgrade print the report.
Report ==
    /\ look.stage = "checking"
    /\ look.todo = <<>>
    /\ look' = [look EXCEPT !.stage = "done"]
    /\ last' = IF quiet THEN [last EXCEPT ![look.command] = look.problems] ELSE last
    /\ UNCHANGED <<world, making, generated, seen, lost, quiet, edits, runs>>

\* The command fails.
Fails(problems) == \E c \in problems : c.required

-----------------------------------------------------------------------------
(* make.                                                                   *)

\* (Faulty: make generate leaves wire out.)
NoWire(t) ==
    CASE t = "generate" -> <<"remove docs", "buf generate", "gormgen", "codegen">>
      [] t = "docs" -> <<"remove docs", "buf generate">>
      [] t = "init" -> <<"go install">>

Recipe(t) ==
    CASE t = "generate" -> <<"remove docs", "buf generate", "gormgen", "codegen", "wire">>
      [] t = "docs" -> <<"remove docs", "buf generate">>
      [] t = "init" -> <<"go install">>

Make(t) ==
    /\ target = "none"
    /\ runs < MaxRuns
    /\ runs' = runs + 1
    /\ target' = t
    /\ make' = Recipe(t)
    /\ generated' = IF t = "generate" THEN "running" ELSE generated
    /\ UNCHANGED <<world, looking, edits>>

\* What each line needs, and what it leaves behind.  codegen writes nothing
\* for a project without services, which wire then cannot compile.
Needs(step) ==
    CASE step = "buf generate" -> {"buf"}
      [] step \in {"gormgen", "codegen", "go install"} -> {"go"}
      [] step = "wire" -> {"wire", FeaturesGen}
      [] step = "remove docs" -> {}

Results(step) ==
    CASE step = "remove docs" -> {present \ {OpenAPI}}
      [] step = "buf generate" -> {present \cup {OpenAPI}}
      [] step = "gormgen" -> {present}
      [] step = "codegen" -> {present, present \cup {FeaturesGen}}
      [] step = "wire" -> {present \cup {WireGen}}
      [] step = "go install" -> {present \cup Installed}

RunStep ==
    /\ make # <<>>
    /\ Needs(Head(make)) \subseteq present
    /\ present' \in Results(Head(make))
    /\ make' = Tail(make)
    /\ UNCHANGED <<manifest, target, generated, edits, runs>>
    /\ Notice

\* make ends at the first line that fails, or at the end.
StepFails ==
    /\ make # <<>>
    /\ make' = <<>>
    /\ target' = "none"
    /\ generated' = IF target = "generate" THEN "no" ELSE generated
    /\ UNCHANGED <<world, looking, edits, runs>>

MakeDone ==
    /\ make = <<>>
    /\ target # "none"
    /\ target' = "none"
    /\ generated' = IF target = "generate" /\ generated = "running" THEN "yes" ELSE generated
    /\ UNCHANGED <<world, make, looking, edits, runs>>

\* make clean
Clean ==
    /\ target = "none"
    /\ runs < MaxRuns
    /\ runs' = runs + 1
    /\ present' = present \ {OpenAPI, WireGen}
    /\ generated' = "no"
    /\ UNCHANGED <<manifest, making, edits>>
    /\ Notice

-----------------------------------------------------------------------------
(* The developer.                                                          *)

Develop ==
    /\ edits < MaxEdits
    /\ edits' = edits + 1
    /\ UNCHANGED <<making, runs>>
    /\ Notice

EditManifest ==
    /\ \/ manifest' \in {Missing, Malformed, Default}
       \/ /\ manifest \in Manifest
          /\ \E k \in DOMAIN manifest : \E v \in Values(k) : manifest' = [manifest EXCEPT ![k] = v]
    /\ UNCHANGED <<present, generated>>
    /\ Develop

\* A file or tool goes ...
Lose(x) ==
    /\ x \in present
    /\ present' = present \ {x}
    /\ generated' = "no"
    /\ UNCHANGED manifest
    /\ Develop

\* ... or comes.
Get(x) ==
    /\ x \notin present
    /\ present' = present \cup {x}
    /\ UNCHANGED <<manifest, generated>>
    /\ Develop

Next ==
    \/ StartDoctor \/ StartUpgrade \/ Look \/ Report
    \/ \E t \in {"generate", "docs", "init"} : Make(t)
    \/ RunStep \/ StepFails \/ MakeDone \/ Clean
    \/ EditManifest
    \/ \E x \in Things : Lose(x) \/ Get(x)

Spec == Init /\ [][Next]_vars

-----------------------------------------------------------------------------
(* Properties.                                                             *)

\* Where a generated file belongs by the manifest that was asked: where it
\* says, or at its default place if it says nothing or cannot be used.
Place(m, k) == IF ~Loads(m) \/ m[k] \in {Blank, Absent} THEN Default[k] ELSE m[k]

\* What the command cannot do without.
Required(command, m) ==
    {Place(m, "registry"), Place(m, "injector")}
        \cup (IF command = "upgrade" THEN {}
              ELSE {c.what : c \in {d \in Checks : d.required /\ d.hint = ""}} \cap Things)

\* A command that passes has met everything it requires, at the place the
\* manifest it read gives it, and one that fails has missed something, even if
\* files come and go while it looks; a usable manifest is always required.
VerdictIsEarned ==
    look.stage = "done" =>
        IF Fails(look.problems)
          THEN \/ ~Loads(look.asked)
               \/ VersionCheck \in look.problems
               \/ Required(look.command, look.asked) \cap lost # {}
          ELSE Loads(look.asked) /\ Required(look.command, look.asked) \subseteq seen

\* As long as nothing changes, doctor and upgrade agree on the manifest, and if
\* it can be used, on which generated files are there.
CommandsAgree ==
    Unknown \notin {last["doctor"], last["upgrade"]} =>
        /\ ManifestCheck \in last["doctor"] <=> ManifestCheck \in last["upgrade"]
        /\ ManifestCheck \notin last["doctor"] =>
               {c \in last["doctor"] : c.hint # ""} = last["upgrade"] \ {VersionCheck}

\* Once make generate has succeeded, no command asks for it again until
\* something is lost, unless the manifest has the files in other places.
HintHelps ==
    \A c \in Commands :
        generated = "yes" /\ last[c] # Unknown
            /\ (Loads(manifest) => Elsewhere \notin {manifest.registry, manifest.injector})
        => \A p \in last[c] : p.hint # "make generate"

=============================================================================
