---------------------------- MODULE DoctorProofs ----------------------------
(***************************************************************************)
(* Proofs about Doctor, for any checks, tools, versions and numbers of     *)
(* edits and runs of make.                                                 *)
(***************************************************************************)
EXTENDS Doctor, SequenceTheorems, TLAPS

-----------------------------------------------------------------------------
(* What a command looks for.                                               *)

Items(s) == {s[i] : i \in 1..Len(s)}

\* The manifest a command works with.
Given(m) == IF Loads(m) THEN loadScaffoldManifest(m) ELSE Default

\* What it looks for, and what it has to say before it looks.
Wanted(command, m) ==
    IF command = "doctor"
      THEN Items(Static) \cup Items(Artifacts(Given(m))) \cup Items(ToolChecks)
      ELSE IF Loads(m) THEN Items(Artifacts(Given(m))) ELSE {}

Said(command, m) ==
    {c \in {ManifestCheck} : ~Loads(m)} \cup
    {c \in {VersionCheck} : command = "upgrade" /\ Loads(m) /\ Given(m).version # Current}

Lacking(checks, there) == {c \in checks : c.what \notin there}

\* What it finds if nothing changes.
Found(command, m, there) == Said(command, m) \cup Lacking(Wanted(command, m), there)

-----------------------------------------------------------------------------
(* The inductive invariant.                                                *)

\* What is there now has been seen, and what is not there, missed.
Watched ==
    look.stage = "checking" => present \subseteq seen /\ Things \ present \subseteq lost

\* A check is to come, has been reported or has been passed, rightly so.
Reported ==
    look.stage # "idle" =>
        /\ Items(look.todo) \subseteq Wanted(look.command, look.asked)
        /\ Said(look.command, look.asked) \subseteq look.problems
        /\ \A c \in look.problems : \/ c \in Said(look.command, look.asked)
                                    \/ c \in Wanted(look.command, look.asked) /\ c.what \in lost
        /\ \A c \in Wanted(look.command, look.asked) :
               c \in Items(look.todo) \/ c \in look.problems \/ c.what \in seen
        /\ look.stage = "done" => look.todo = <<>>

\* If nothing has changed, what is reported and what will be is all there is.
Undisturbed ==
    look.stage = "checking" /\ quiet =>
        /\ look.asked = manifest
        /\ look.problems \cup Lacking(Items(look.todo), present)
               = Found(look.command, manifest, present)

Recalled == \A c \in Commands : last[c] = Unknown \/ last[c] = Found(c, manifest, present)

\* make generate ends with wire, which needs the registry and writes the
\* injector.
Generates ==
    /\ generated = "running" =>
        /\ target = "generate"
        /\ IF make = <<>> THEN {FeaturesGen, WireGen} \subseteq present
                          ELSE make[Len(make)] = "wire"
    /\ generated = "yes" => {FeaturesGen, WireGen} \subseteq present

DoctorInv ==
    /\ TypeOK
    /\ Watched
    /\ Reported
    /\ Undisturbed
    /\ Recalled
    /\ Generates

-----------------------------------------------------------------------------
(* Facts about the checks.                                                 *)

LEMMA ItemsOfHead ==
    ASSUME NEW S, NEW s \in Seq(S), s # <<>>
    PROVE  /\ Head(s) \in S
           /\ Tail(s) \in Seq(S)
           /\ Items(s) = {Head(s)} \cup Items(Tail(s))
  <1>1. /\ Head(s) \in S /\ Tail(s) \in Seq(S) /\ Len(Tail(s)) = Len(s) - 1
        /\ \A i \in 1..Len(Tail(s)) : Tail(s)[i] = s[i + 1]
    BY HeadTailProperties
  <1>2. Len(s) \in Nat /\ Len(s) # 0 /\ Head(s) = s[1]
    BY EmptySeq, LenProperties
  <1>3. Items(s) \subseteq {Head(s)} \cup Items(Tail(s))
    <2>1. SUFFICES ASSUME NEW i \in 1..Len(s), i # 1
                   PROVE  s[i] \in Items(Tail(s))
      BY <1>2 DEF Items
    <2>2. i - 1 \in 1..Len(Tail(s)) /\ (i - 1) + 1 = i
      BY <1>1, <1>2, <2>1
    <2>3. Tail(s)[i - 1] = s[i]
      BY <1>1, <2>2
    <2> QED BY <2>2, <2>3 DEF Items
  <1>4. {Head(s)} \cup Items(Tail(s)) \subseteq Items(s)
    <2>1. \A i \in 1..Len(Tail(s)) : i + 1 \in 1..Len(s)
      BY <1>1, <1>2
    <2>2. 1 \in 1..Len(s)
      BY <1>2
    <2> QED BY <1>1, <1>2, <2>1, <2>2 DEF Items
  <1> QED BY <1>1, <1>3, <1>4

LEMMA ItemsOfConcat ==
    ASSUME NEW S, NEW s \in Seq(S), NEW t \in Seq(S)
    PROVE  s \o t \in Seq(S) /\ Items(s \o t) = Items(s) \cup Items(t)
  <1>1. /\ s \o t \in Seq(S) /\ Len(s \o t) = Len(s) + Len(t)
        /\ \A i \in 1..Len(s) + Len(t) :
               (s \o t)[i] = IF i <= Len(s) THEN s[i] ELSE t[i - Len(s)]
    BY ConcatProperties
  <1>2. Len(s) \in Nat /\ Len(t) \in Nat
    BY LenProperties
  <1>3. \A i \in 1..Len(s) : i \in 1..Len(s) + Len(t) /\ (s \o t)[i] = s[i]
    BY <1>1, <1>2
  <1>4. \A i \in 1..Len(t) : Len(s) + i \in 1..Len(s) + Len(t) /\ (s \o t)[Len(s) + i] = t[i]
    <2>1. SUFFICES ASSUME NEW i \in 1..Len(t)
                   PROVE  Len(s) + i \in 1..Len(s) + Len(t) /\ (s \o t)[Len(s) + i] = t[i]
      OBVIOUS
    <2>2. Len(s) + i \in 1..Len(s) + Len(t) /\ ~(Len(s) + i <= Len(s)) /\ (Len(s) + i) - Len(s) = i
      BY <1>2
    <2> QED BY <1>1, <2>2
  <1>5. Items(s \o t) \subseteq Items(s) \cup Items(t)
    <2>1. SUFFICES ASSUME NEW i \in 1..Len(s) + Len(t)
                   PROVE  (s \o t)[i] \in Items(s) \cup Items(t)
      BY <1>1 DEF Items
    <2>2. CASE i <= Len(s)
      BY <1>1, <1>2, <2>2 DEF Items
    <2>3. CASE ~(i <= Len(s))
      <3>1. i - Len(s) \in 1..Len(t)
        BY <1>2, <2>3
      <3> QED BY <1>1, <2>3, <3>1 DEF Items
    <2> QED BY <2>2, <2>3
  <1>6. Items(s) \cup Items(t) \subseteq Items(s \o t)
    BY <1>1, <1>3, <1>4 DEF Items
  <1> QED BY <1>1, <1>5, <1>6

LEMMA NoItems == Items(<<>>) = {}
  BY DEF Items

LEMMA Bounds == MaxEdits \in Nat /\ MaxRuns \in Nat
  BY DoctorAssumption

LEMMA Counting ==
    TypeOK => /\ edits < MaxEdits => edits + 1 \in 0..MaxEdits
              /\ runs < MaxRuns => runs + 1 \in 0..MaxRuns
  <1>1. SUFFICES ASSUME edits \in 0..MaxEdits, runs \in 0..MaxRuns
                 PROVE  /\ edits < MaxEdits => edits + 1 \in 0..MaxEdits
                        /\ runs < MaxRuns => runs + 1 \in 0..MaxRuns
    BY DEF TypeOK
  <1> QED BY <1>1, Bounds

LEMMA DefaultManifest == Default \in Manifest
  <1>1. Current \in Versions
    BY DoctorAssumption
  <1> QED BY <1>1 DEF Default, Manifest, Values

\* The checks that do not depend on the manifest.
LEMMA FixedChecks ==
    /\ Static \in Seq(Checks) /\ ToolChecks \in Seq(Checks)
    /\ \A c \in Items(Static) \cup Items(ToolChecks) :
           c \in Checks /\ c.what \in Things /\ c.required \in BOOLEAN /\ c.hint = ""
  <1>1. ASSUME NEW s \in {Static, ToolChecks}
        PROVE  /\ s \in Seq(Checks)
               /\ \A c \in Items(s) :
                      c \in Checks /\ c.what \in Things /\ c.required \in BOOLEAN /\ c.hint = ""
    <2> DEFINE Kind == [what : Whats(s), required : BOOLEAN, hint : {""}]
    <2>1. s \in Seq(Kind)
      BY <1>1, DoctorAssumption
    <2> HIDE DEF Kind
    <2>2. /\ Len(s) \in Nat /\ s \in [1..Len(s) -> Kind]
      BY <2>1, LenProperties
    <2>3. ASSUME NEW i \in 1..Len(s) PROVE s[i] \in Checks
      BY <1>1 DEF Checks
    <2>4. s \in Seq(Checks)
      <3>1. s \in [1..Len(s) -> Checks]
        BY <2>2, <2>3
      <3> QED BY <2>2, <3>1
    <2>5. ASSUME NEW i \in 1..Len(s)
          PROVE  s[i].what \in Things /\ s[i].required \in BOOLEAN /\ s[i].hint = ""
      <3>1. s[i] \in Kind
        BY <2>2
      <3>2. Whats(s) \subseteq Things
        BY <1>1 DEF Things, Files, Tools
      <3> QED BY <3>1, <3>2 DEF Kind
    <2> QED BY <2>3, <2>4, <2>5 DEF Items
  <1> QED BY <1>1

\* Where the generated files are, by a manifest.
LEMMA GivenPlaces ==
    ASSUME NEW m \in Manifest \cup {Missing, Malformed}
    PROVE  /\ Given(m).registry = Place(m, "registry")
           /\ Given(m).injector = Place(m, "injector")
           /\ Given(m).docs = Place(m, "docs")
           /\ {Given(m).registry, Given(m).injector, Given(m).docs} \subseteq Files
  <1> DEFINE Keys == {"version", "registry", "injector", "docs"}
  <1>1. Default.registry = FeaturesGen /\ Default.injector = WireGen /\ Default.docs = OpenAPI
    BY DEF Default
  <1>2. {FeaturesGen, WireGen, OpenAPI, Elsewhere} \subseteq Files /\ Blank \notin Files
    BY DoctorAssumption DEF Files, Things
  <1>3. CASE ~Loads(m)
    BY <1>1, <1>2, <1>3 DEF Given, Place
  <1>4. CASE Loads(m)
    <2>1. m \in Manifest
      BY <1>4 DEF Loads
    <2>2. DOMAIN m = Keys
      BY <2>1 DEF Manifest
    <2>3. ASSUME NEW k \in PathKeys
          PROVE  /\ Given(m)[k] = Place(m, k)
                 /\ m[k] \in {Default[k], Elsewhere, Blank, Absent}
      <3>1. k \in Keys /\ k # "version"
        BY DEF PathKeys
      <3>2. m[k] \in Values(k)
        BY <2>1 DEF Manifest, PathKeys
      <3>3. m[k] \in {Default[k], Elsewhere, Blank, Absent}
        BY <3>1, <3>2 DEF Values
      <3>4. Unmarshal(m) = [j \in Keys |-> IF m[j] = Absent THEN Default[j] ELSE m[j]]
        BY <2>2 DEF Unmarshal
      <3>5. /\ DOMAIN Unmarshal(m) = Keys
            /\ Unmarshal(m)[k] = IF m[k] = Absent THEN Default[k] ELSE m[k]
        BY <3>1, <3>4
      <3>6. Given(m) = [j \in Keys |-> IF j \in PathKeys /\ Unmarshal(m)[j] = Blank
                                         THEN Default[j] ELSE Unmarshal(m)[j]]
        BY <1>4, <3>5 DEF Given, loadScaffoldManifest, normalize
      <3>7. Given(m)[k] = IF Unmarshal(m)[k] = Blank THEN Default[k] ELSE Unmarshal(m)[k]
        BY <3>1, <3>6
      <3>8. Place(m, k) = IF m[k] \in {Blank, Absent} THEN Default[k] ELSE m[k]
        BY <1>4 DEF Place
      <3> QED BY <3>3, <3>5, <3>7, <3>8
    <2>4. ASSUME NEW k \in PathKeys PROVE Place(m, k) \in {Default[k], Elsewhere}
      BY <1>4, <2>3 DEF Place
    <2>5. /\ Place(m, "registry") \in Files /\ Place(m, "injector") \in Files
          /\ Place(m, "docs") \in Files
      BY <1>1, <1>2, <2>4 DEF PathKeys
    <2>6. /\ Given(m).registry = Place(m, "registry")
          /\ Given(m).injector = Place(m, "injector")
          /\ Given(m).docs = Place(m, "docs")
      BY <2>3 DEF PathKeys
    <2> QED BY <2>5, <2>6
  <1> QED BY <1>3, <1>4

LEMMA ArtifactChecks ==
    ASSUME NEW m \in Manifest \cup {Missing, Malformed}
    PROVE  /\ Artifacts(Given(m)) \in Seq(Checks)
           /\ Items(Artifacts(Given(m))) =
                  {Check(Place(m, "registry"), TRUE, "make generate"),
                   Check(Place(m, "injector"), TRUE, "make generate"),
                   Check(Place(m, "docs"), FALSE, "make docs")}
           /\ {Place(m, "registry"), Place(m, "injector"), Place(m, "docs")} \subseteq Files
  <1> DEFINE r == Check(Place(m, "registry"), TRUE, "make generate")
             i == Check(Place(m, "injector"), TRUE, "make generate")
             d == Check(Place(m, "docs"), FALSE, "make docs")
  <1>1. {Place(m, "registry"), Place(m, "injector"), Place(m, "docs")} \subseteq Files
    BY GivenPlaces
  <1>2. Artifacts(Given(m)) = <<r, i, d>>
    BY GivenPlaces DEF Artifacts
  <1>3. r \in Checks /\ i \in Checks /\ d \in Checks
    BY <1>1 DEF Check, Checks
  <1> HIDE DEF r, i, d
  <1>4. <<r, i, d>> \in Seq(Checks) /\ Items(<<r, i, d>>) = {r, i, d}
    BY <1>3 DEF Items
  <1>5. Artifacts(Given(m)) \in Seq(Checks) /\ Items(Artifacts(Given(m))) = {r, i, d}
    BY <1>2, <1>4
  <1> QED BY <1>1, <1>5 DEF r, i, d

\* Everything a command looks for is a check of something there is to find; what
\* it says before it looks is not.
LEMMA WantedChecks ==
    ASSUME NEW command \in Commands, NEW m \in Manifest \cup {Missing, Malformed}
    PROVE  /\ Wanted(command, m) \subseteq Checks
           /\ \A c \in Wanted(command, m) : c.what \in Things /\ c.required \in BOOLEAN
           /\ Said(command, m) \subseteq Checks
           /\ ManifestCheck \in Said(command, m) <=> ~Loads(m)
           /\ Said(command, m) \subseteq {ManifestCheck, VersionCheck}
           /\ {ManifestCheck, VersionCheck} \cap Wanted(command, m) = {}
  <1> DEFINE art == Items(Artifacts(Given(m)))
  <1>1. \A c \in art : c \in Checks /\ c.what \in Things /\ c.required \in BOOLEAN
    <2>1. art \subseteq Checks
      <3>1. Artifacts(Given(m)) \in Seq(Checks)
        BY ArtifactChecks
      <3> QED BY <3>1, LenProperties DEF Items
    <2>2. ASSUME NEW x \in Files, NEW b \in BOOLEAN, NEW hint
          PROVE  Check(x, b, hint).what \in Things /\ Check(x, b, hint).required \in BOOLEAN
      BY DEF Check, Things
    <2>3. art = {Check(Place(m, "registry"), TRUE, "make generate"),
                 Check(Place(m, "injector"), TRUE, "make generate"),
                 Check(Place(m, "docs"), FALSE, "make docs")}
      BY ArtifactChecks
    <2> HIDE DEF art
    <2> QED BY <2>1, <2>2, <2>3, ArtifactChecks
  <1>2. Wanted(command, m) \subseteq Items(Static) \cup art \cup Items(ToolChecks)
    BY DEF Wanted
  <1> HIDE DEF art
  <1>3. /\ ManifestCheck.what = "scaffold.yaml" /\ VersionCheck.what = "scaffold_version"
        /\ ManifestCheck # VersionCheck
    BY DEF ManifestCheck, VersionCheck, Check
  <1>4. \A c \in Wanted(command, m) : c \in Checks /\ c.what \in Things /\ c.required \in BOOLEAN
    BY <1>1, <1>2, FixedChecks
  <1>5. ManifestCheck.what \notin Things /\ VersionCheck.what \notin Things
    BY <1>3, DoctorAssumption
  <1>6. {ManifestCheck, VersionCheck} \subseteq Checks
    BY DEF Checks
  <1>7. Said(command, m) \subseteq {ManifestCheck, VersionCheck}
    BY DEF Said
  <1>8. ManifestCheck \in Said(command, m) <=> ~Loads(m)
    BY <1>3 DEF Said
  <1> QED BY <1>4, <1>5, <1>6, <1>7, <1>8

-----------------------------------------------------------------------------
(* The invariant holds at first.                                           *)

LEMMA Starts == Init => DoctorInv
  <1>1. SUFFICES ASSUME Init PROVE DoctorInv
    OBVIOUS
  <1>2. Default \in Manifest
    BY DefaultManifest
  <1>3. TypeOK
    <2>1. present \subseteq Things
      BY <1>1, DoctorAssumption DEF Init, Files, Things
    <2>2. look \in [command : Commands, stage : {"idle", "checking", "done"},
                  asked : Manifest \cup {Missing, Malformed}, todo : Seq(Checks),
                  problems : SUBSET Checks]
      <3>1. <<>> \in Seq(Checks)
        OBVIOUS
      <3> QED BY <1>1, <1>2, <3>1 DEF Init, NoLook, Commands
    <2>3. make \in Seq(Steps)
      BY <1>1 DEF Init
    <2>4. /\ manifest \in Manifest \cup {Missing, Malformed}
          /\ target \in {"none", "generate", "docs", "init"}
          /\ generated \in {"no", "running", "yes"}
          /\ seen \subseteq Things /\ lost \subseteq Things /\ quiet \in BOOLEAN
      BY <1>1, <1>2 DEF Init
    <2>5. last \in [Commands -> {Unknown} \cup SUBSET Checks]
      BY <1>1 DEF Init
    <2>6. edits \in 0..MaxEdits /\ runs \in 0..MaxRuns
      BY <1>1, Bounds DEF Init
    <2> QED BY <2>1, <2>2, <2>3, <2>4, <2>5, <2>6 DEF TypeOK
  <1>4. look.stage = "idle"
    BY <1>1 DEF Init, NoLook
  <1> QED
    BY <1>1, <1>3, <1>4
    DEF Init, DoctorInv, Watched, Reported, Undisturbed, Recalled, Generates

-----------------------------------------------------------------------------
(* The commands.                                                           *)

LEMMA Begins ==
    ASSUME DoctorInv, NEW command \in Commands, NEW problems, NEW todo \in Seq(Checks),
           problems = Said(command, manifest),
           Items(todo) = Wanted(command, manifest),
           Begin(command, problems, todo)
    PROVE  DoctorInv'
  <1>1. /\ look' = [command |-> command, stage |-> "checking", asked |-> manifest,
                    todo |-> todo, problems |-> problems]
        /\ seen' = present /\ lost' = Things \ present /\ quiet' = TRUE
        /\ UNCHANGED <<manifest, present, make, target, generated, last, edits, runs>>
    BY DEF Begin, world, making
  <1>2. /\ look'.command = command /\ look'.stage = "checking" /\ look'.asked = manifest
        /\ look'.todo = todo /\ look'.problems = problems
    BY <1>1
  <1>3. /\ manifest \in Manifest \cup {Missing, Malformed} /\ present \subseteq Things
        /\ problems \subseteq Checks
    BY WantedChecks DEF DoctorInv, TypeOK
  <1>4. TypeOK'
    BY <1>1, <1>3 DEF DoctorInv, TypeOK
  <1>5. Watched'
    BY <1>1 DEF Watched
  <1>6. Reported'
    BY <1>1, <1>2 DEF Reported
  <1>7. Undisturbed'
    BY <1>1, <1>2 DEF Undisturbed, Found
  <1>8. Recalled' /\ Generates'
    BY <1>1 DEF DoctorInv, Recalled, Generates
  <1> QED BY <1>4, <1>5, <1>6, <1>7, <1>8 DEF DoctorInv

LEMMA StartDoctorKeeps == DoctorInv /\ StartDoctor => DoctorInv'
  <1>1. SUFFICES ASSUME DoctorInv, StartDoctor PROVE DoctorInv'
    OBVIOUS
  <1> DEFINE problems == {c \in {ManifestCheck} : ~Loads(manifest)}
             art == Artifacts(Given(manifest))
             first == Static \o art
             todo == first \o ToolChecks
  <1>2. Begin("doctor", problems, todo)
    BY <1>1 DEF StartDoctor, Given
  <1>3. manifest \in Manifest \cup {Missing, Malformed} /\ "doctor" \in Commands
    BY <1>1 DEF DoctorInv, TypeOK, Commands
  <1>4. problems = Said("doctor", manifest)
    BY DEF Said
  <1>5. art \in Seq(Checks) /\ Static \in Seq(Checks) /\ ToolChecks \in Seq(Checks)
    BY <1>3, ArtifactChecks, FixedChecks
  <1> HIDE DEF art
  <1>6. first \in Seq(Checks) /\ Items(first) = Items(Static) \cup Items(art)
    BY <1>5, ItemsOfConcat
  <1> HIDE DEF first
  <1>7. todo \in Seq(Checks) /\ Items(todo) = Items(first) \cup Items(ToolChecks)
    BY <1>5, <1>6, ItemsOfConcat
  <1>8. Items(todo) = Wanted("doctor", manifest)
    BY <1>6, <1>7 DEF Wanted, art
  <1> HIDE DEF todo, problems
  <1> QED BY <1>1, <1>2, <1>3, <1>4, <1>7, <1>8, Begins

LEMMA StartUpgradeKeeps == DoctorInv /\ StartUpgrade => DoctorInv'
  <1>1. SUFFICES ASSUME DoctorInv, StartUpgrade PROVE DoctorInv'
    OBVIOUS
  <1>2. manifest \in Manifest \cup {Missing, Malformed} /\ "upgrade" \in Commands
    BY <1>1 DEF DoctorInv, TypeOK, Commands
  <1>3. CASE Loads(manifest)
    <2> DEFINE problems == {c \in {VersionCheck} : Given(manifest).version # Current}
               todo == Artifacts(Given(manifest))
    <2>1. Begin("upgrade", problems, todo)
      BY <1>1, <1>3 DEF StartUpgrade, Given
    <2>2. problems = Said("upgrade", manifest)
      BY <1>3 DEF Said
    <2>3. todo \in Seq(Checks)
      BY <1>2, ArtifactChecks
    <2>4. Items(todo) = Wanted("upgrade", manifest)
      BY <1>3 DEF Wanted
    <2> HIDE DEF todo, problems
    <2> QED BY <1>1, <1>2, <2>1, <2>2, <2>3, <2>4, Begins
  <1>4. CASE ~Loads(manifest)
    <2>1. Begin("upgrade", {ManifestCheck}, <<>>)
      BY <1>1, <1>4 DEF StartUpgrade
    <2>2. {ManifestCheck} = Said("upgrade", manifest)
      BY <1>4 DEF Said
    <2>3. Items(<<>>) = Wanted("upgrade", manifest)
      BY <1>4, NoItems DEF Wanted
    <2>4. <<>> \in Seq(Checks)
      OBVIOUS
    <2> QED BY <1>1, <1>2, <2>1, <2>2, <2>3, <2>4, Begins
  <1> QED BY <1>3, <1>4

LEMMA LookKeeps == DoctorInv /\ Look => DoctorInv'
  <1>1. SUFFICES ASSUME DoctorInv, Look PROVE DoctorInv'
    OBVIOUS
  <1> DEFINE c == Head(look.todo)
             problems == IF c.what = Blank \/ c.what \in present
                           THEN look.problems ELSE look.problems \cup {c}
  <1>2. /\ look \in [command : Commands, stage : {"idle", "checking", "done"},
                     asked : Manifest \cup {Missing, Malformed}, todo : Seq(Checks),
                     problems : SUBSET Checks]
        /\ look.stage = "checking" /\ look.todo # <<>>
    BY <1>1 DEF DoctorInv, TypeOK, Look
  <1>3. /\ c \in Checks /\ Tail(look.todo) \in Seq(Checks)
        /\ Items(look.todo) = {c} \cup Items(Tail(look.todo))
    BY <1>2, ItemsOfHead
  <1>4. /\ look' = [look EXCEPT !.todo = Tail(@), !.problems = problems]
        /\ UNCHANGED <<manifest, present, make, target, generated, seen, lost, quiet, last,
                       edits, runs>>
    BY <1>1 DEF Look, world, making
  <1>5. /\ look'.command = look.command /\ look'.stage = "checking"
        /\ look'.asked = look.asked /\ look'.todo = Tail(look.todo)
        /\ look'.problems = problems
    BY <1>2, <1>4
  <1>6. c \in Wanted(look.command, look.asked)
    BY <1>1, <1>2, <1>3 DEF DoctorInv, Reported
  <1>7. c.what \in Things /\ c.what # Blank
    <2>1. look.command \in Commands /\ look.asked \in Manifest \cup {Missing, Malformed}
      BY <1>2
    <2> HIDE DEF c
    <2>2. c.what \in Things
      BY <1>6, <2>1, WantedChecks
    <2>3. Blank \notin Things
      BY DoctorAssumption
    <2> QED BY <2>2, <2>3
  <1>8. problems = IF c.what \in present THEN look.problems ELSE look.problems \cup {c}
    BY <1>7
  <1> HIDE DEF c, problems
  <1>9. TypeOK'
    <2>1. problems \subseteq Checks
      BY <1>2, <1>3, <1>8
    <2>2. look' \in [command : Commands, stage : {"idle", "checking", "done"},
                     asked : Manifest \cup {Missing, Malformed}, todo : Seq(Checks),
                     problems : SUBSET Checks]
      BY <1>2, <1>3, <1>4, <2>1
    <2> QED BY <1>1, <1>4, <2>2 DEF DoctorInv, TypeOK
  <1>10. /\ present \subseteq seen /\ Things \ present \subseteq lost
    BY <1>1, <1>2 DEF DoctorInv, Watched
  <1>11. Watched'
    BY <1>4, <1>10 DEF Watched
  <1>12. Reported'
    BY <1>1, <1>2, <1>3, <1>4, <1>5, <1>6, <1>7, <1>8, <1>10 DEF DoctorInv, Reported
  <1>13. Undisturbed'
    <2>1. SUFFICES ASSUME quiet
                   PROVE  problems \cup Lacking(Items(Tail(look.todo)), present)
                            = look.problems \cup Lacking(Items(look.todo), present)
      BY <1>1, <1>2, <1>4, <1>5 DEF DoctorInv, Undisturbed
    <2> QED BY <1>3, <1>8 DEF Lacking
  <1>14. Recalled' /\ Generates'
    BY <1>1, <1>4 DEF DoctorInv, Recalled, Generates
  <1> QED BY <1>9, <1>11, <1>12, <1>13, <1>14 DEF DoctorInv

LEMMA ReportKeeps == DoctorInv /\ Report => DoctorInv'
  <1>1. SUFFICES ASSUME DoctorInv, Report PROVE DoctorInv'
    OBVIOUS
  <1>2. /\ look \in [command : Commands, stage : {"idle", "checking", "done"},
                     asked : Manifest \cup {Missing, Malformed}, todo : Seq(Checks),
                     problems : SUBSET Checks]
        /\ look.stage = "checking" /\ look.todo = <<>>
        /\ last \in [Commands -> {Unknown} \cup SUBSET Checks]
    BY <1>1 DEF DoctorInv, TypeOK, Report
  <1>3. /\ look' = [look EXCEPT !.stage = "done"]
        /\ last' = IF quiet THEN [last EXCEPT ![look.command] = look.problems] ELSE last
        /\ UNCHANGED <<manifest, present, make, target, generated, seen, lost, quiet,
                       edits, runs>>
    BY <1>1 DEF Report, world, making
  <1>4. /\ look'.command = look.command /\ look'.stage = "done"
        /\ look'.asked = look.asked /\ look'.todo = <<>>
        /\ look'.problems = look.problems
    BY <1>2, <1>3
  <1>5. TypeOK'
    <2>1. look' \in [command : Commands, stage : {"idle", "checking", "done"},
                     asked : Manifest \cup {Missing, Malformed}, todo : Seq(Checks),
                     problems : SUBSET Checks]
      BY <1>2, <1>3
    <2>2. last' \in [Commands -> {Unknown} \cup SUBSET Checks]
      BY <1>2, <1>3
    <2> QED BY <1>1, <1>3, <2>1, <2>2 DEF DoctorInv, TypeOK
  <1>6. Watched' /\ Undisturbed'
    BY <1>4 DEF Watched, Undisturbed
  <1>7. Reported'
    BY <1>1, <1>2, <1>3, <1>4 DEF DoctorInv, Reported
  <1>8. Recalled'
    <2>1. ASSUME quiet PROVE look.problems = Found(look.command, manifest, present)
      BY <1>1, <1>2, <2>1, NoItems DEF DoctorInv, Undisturbed, Lacking
    <2>2. ASSUME NEW d \in Commands
          PROVE  last'[d] = Unknown \/ last'[d] = Found(d, manifest, present)
      <3>1. last[d] = Unknown \/ last[d] = Found(d, manifest, present)
        BY <1>1 DEF DoctorInv, Recalled
      <3> QED BY <1>2, <1>3, <2>1, <3>1
    <2> QED BY <1>3, <2>2 DEF Recalled
  <1>9. Generates'
    BY <1>1, <1>3 DEF DoctorInv, Generates
  <1> QED BY <1>5, <1>6, <1>7, <1>8, <1>9 DEF DoctorInv

-----------------------------------------------------------------------------
(* make and the developer.                                                 *)

\* Whatever is changed while a command runs, it stays right.
LEMMA NoticeKeeps ==
    ASSUME DoctorInv, Notice, present' \subseteq Things
    PROVE  /\ look' = look
           /\ seen' \subseteq Things /\ lost' \subseteq Things /\ quiet' \in BOOLEAN
           /\ last' \in [Commands -> {Unknown} \cup SUBSET Checks]
           /\ Watched' /\ Reported' /\ Undisturbed' /\ Recalled'
  <1>1. CASE UNCHANGED world
    <2>1. UNCHANGED <<manifest, present, look, seen, lost, quiet, last>>
      BY <1>1 DEF Notice, world, looking
    <2> QED
      BY <2>1 DEF DoctorInv, TypeOK, Watched, Reported, Undisturbed, Recalled
  <1>2. CASE ~UNCHANGED world
    <2>1. /\ last' = [c \in Commands |-> Unknown] /\ quiet' = FALSE /\ look' = look
          /\ IF look.stage = "checking"
               THEN seen' = seen \cup present' /\ lost' = lost \cup (Things \ present')
               ELSE UNCHANGED <<seen, lost>>
      BY <1>2 DEF Notice
    <2>2. /\ seen \subseteq seen' /\ lost \subseteq lost'
          /\ seen' \subseteq Things /\ lost' \subseteq Things
      BY <2>1 DEF DoctorInv, TypeOK
    <2>3. last' \in [Commands -> {Unknown} \cup SUBSET Checks]
      BY <2>1
    <2>4. Watched'
      BY <2>1 DEF Watched
    <2>5. Reported'
      BY <2>1, <2>2 DEF DoctorInv, Reported
    <2>6. Undisturbed' /\ Recalled'
      BY <2>1 DEF Undisturbed, Recalled
    <2> QED BY <2>1, <2>2, <2>3, <2>4, <2>5, <2>6
  <1> QED BY <1>1, <1>2

\* What the commands have found stays right while nothing they look at changes.
LEMMA StillKeeps ==
    ASSUME DoctorInv, UNCHANGED <<world, looking>>
    PROVE  Watched' /\ Reported' /\ Undisturbed' /\ Recalled'
  BY DEF DoctorInv, Watched, Reported, Undisturbed, Recalled, world, looking

LEMMA MakeKeeps ==
    ASSUME DoctorInv, NEW t \in {"generate", "docs", "init"}, Make(t)
    PROVE  DoctorInv'
  <1>1. /\ target = "none" /\ runs < MaxRuns /\ runs' = runs + 1
        /\ target' = t /\ make' = Recipe(t)
        /\ generated' = IF t = "generate" THEN "running" ELSE generated
        /\ UNCHANGED <<world, looking>>
        /\ UNCHANGED <<manifest, present, look, seen, lost, quiet, last, edits>>
    BY DEF Make, world, looking
  <1>2. Recipe(t) \in Seq(Steps)
    <2>1. /\ Recipe("generate") = <<"remove docs", "buf generate", "gormgen", "codegen", "wire">>
          /\ Recipe("docs") = <<"remove docs", "buf generate">>
          /\ Recipe("init") = <<"go install">>
      BY DEF Recipe
    <2>2. <<"remove docs", "buf generate", "gormgen", "codegen", "wire">> \in Seq(Steps)
      BY DEF Steps
    <2>3. <<"remove docs", "buf generate">> \in Seq(Steps)
      BY DEF Steps
    <2>4. <<"go install">> \in Seq(Steps)
      BY DEF Steps
    <2> QED BY <2>1, <2>2, <2>3, <2>4
  <1>3. TypeOK'
    <2>1. runs' \in 0..MaxRuns
      BY <1>1, Counting DEF DoctorInv, TypeOK
    <2>2. /\ generated' \in {"no", "running", "yes"}
          /\ target' \in {"none", "generate", "docs", "init"}
      BY <1>1 DEF DoctorInv, TypeOK
    <2> QED BY <1>1, <1>2, <2>1, <2>2 DEF DoctorInv, TypeOK
  <1>4. Generates'
    <2>1. CASE t = "generate"
      <3>1. make' = <<"remove docs", "buf generate", "gormgen", "codegen", "wire">>
        BY <1>1, <2>1 DEF Recipe
      <3>2. make' # <<>> /\ make'[Len(make')] = "wire"
        BY <3>1
      <3> QED BY <1>1, <2>1, <3>2 DEF Generates
    <2>2. CASE t # "generate"
      <3>1. generated # "running"
        BY <1>1 DEF DoctorInv, Generates
      <3> QED BY <1>1, <2>2, <3>1 DEF DoctorInv, Generates
    <2> QED BY <2>1, <2>2
  <1> QED BY <1>1, <1>3, <1>4, StillKeeps DEF DoctorInv

LEMMA RunStepKeeps == DoctorInv /\ RunStep => DoctorInv'
  <1>1. SUFFICES ASSUME DoctorInv, RunStep PROVE DoctorInv'
    OBVIOUS
  <1> DEFINE step == Head(make)
  <1>2. /\ make # <<>> /\ Needs(step) \subseteq present /\ present' \in Results(step)
        /\ make' = Tail(make) /\ Notice
        /\ UNCHANGED <<manifest, target, generated, edits, runs>>
    BY <1>1 DEF RunStep
  <1>3. make \in Seq(Steps) /\ present \subseteq Things
    BY <1>1 DEF DoctorInv, TypeOK
  <1>4. /\ step \in Steps /\ Tail(make) \in Seq(Steps) /\ Len(Tail(make)) = Len(make) - 1
        /\ \A i \in 1..Len(Tail(make)) : Tail(make)[i] = make[i + 1]
        /\ Len(make) \in Nat /\ step = make[1]
    BY <1>2, <1>3, HeadTailProperties, LenProperties
  <1> HIDE DEF step
  <1>5. {FeaturesGen, WireGen, OpenAPI} \cup Installed \subseteq Things
    BY DoctorAssumption DEF Things, Files
  <1>6. present' \subseteq Things
    BY <1>2, <1>3, <1>4, <1>5 DEF Results, Steps
  <1>7. /\ {FeaturesGen, WireGen} \cap present \subseteq present'
        /\ step = "wire" => {FeaturesGen, WireGen} \subseteq present'
    BY <1>2, <1>4 DEF Results, Needs, Steps, FeaturesGen, WireGen, OpenAPI
  <1>8. TypeOK'
    BY <1>1, <1>2, <1>4, <1>6, NoticeKeeps DEF DoctorInv, TypeOK
  <1>9. Generates'
    <2>1. ASSUME generated = "running", make' = <<>> PROVE step = "wire"
      <3>1. Len(make) = 1
        <4>1. Len(make') = 0
          BY <2>1
        <4> QED BY <1>2, <1>4, <4>1
      <3> QED BY <1>1, <1>2, <1>4, <2>1, <3>1 DEF DoctorInv, Generates
    <2>2. ASSUME generated = "running", make' # <<>> PROVE make'[Len(make')] = "wire"
      <3>1. Len(Tail(make)) \in 1..Len(Tail(make)) /\ Len(Tail(make)) + 1 = Len(make)
        <4>1. Len(Tail(make)) \in Nat /\ Len(Tail(make)) # 0
          BY <1>2, <1>4, <2>2, EmptySeq, LenProperties
        <4> QED BY <1>4, <4>1
      <3>2. Tail(make)[Len(Tail(make))] = make[Len(make)]
        BY <1>4, <3>1
      <3> QED BY <1>1, <1>2, <2>2, <3>2 DEF DoctorInv, Generates
    <2>3. /\ generated' = generated /\ target' = target
          /\ generated = "running" => target = "generate"
          /\ generated = "yes" => {FeaturesGen, WireGen} \subseteq present
      BY <1>1, <1>2 DEF DoctorInv, Generates
    <2> QED BY <1>7, <2>1, <2>2, <2>3 DEF Generates
  <1> QED BY <1>1, <1>2, <1>6, <1>8, <1>9, NoticeKeeps DEF DoctorInv

LEMMA StepFailsKeeps == DoctorInv /\ StepFails => DoctorInv'
  <1>1. SUFFICES ASSUME DoctorInv, StepFails PROVE DoctorInv'
    OBVIOUS
  <1>2. /\ make' = <<>> /\ target' = "none"
        /\ generated' = IF target = "generate" THEN "no" ELSE generated
        /\ UNCHANGED <<world, looking>>
        /\ UNCHANGED <<manifest, present, look, seen, lost, quiet, last, edits, runs>>
    BY <1>1 DEF StepFails, world, looking
  <1>3. <<>> \in Seq(Steps)
    OBVIOUS
  <1>4. TypeOK' /\ Generates'
    BY <1>1, <1>2, <1>3 DEF DoctorInv, TypeOK, Generates
  <1> QED BY <1>1, <1>2, <1>4, StillKeeps DEF DoctorInv

LEMMA MakeDoneKeeps == DoctorInv /\ MakeDone => DoctorInv'
  <1>1. SUFFICES ASSUME DoctorInv, MakeDone PROVE DoctorInv'
    OBVIOUS
  <1>2. /\ make = <<>> /\ make' = make /\ target' = "none"
        /\ generated' = IF target = "generate" /\ generated = "running" THEN "yes" ELSE generated
        /\ UNCHANGED <<world, looking>>
        /\ UNCHANGED <<manifest, present, look, seen, lost, quiet, last, edits, runs>>
    BY <1>1 DEF MakeDone, world, looking
  <1>3. TypeOK' /\ Generates'
    BY <1>1, <1>2 DEF DoctorInv, TypeOK, Generates
  <1> QED BY <1>1, <1>2, <1>3, StillKeeps DEF DoctorInv

LEMMA CleanKeeps == DoctorInv /\ Clean => DoctorInv'
  <1>1. SUFFICES ASSUME DoctorInv, Clean PROVE DoctorInv'
    OBVIOUS
  <1>2. /\ runs < MaxRuns /\ runs' = runs + 1 /\ present' = present \ {OpenAPI, WireGen}
        /\ generated' = "no" /\ Notice
        /\ UNCHANGED <<manifest, make, target, edits>>
    BY <1>1 DEF Clean, making
  <1>3. present' \subseteq Things /\ runs' \in 0..MaxRuns
    BY <1>1, <1>2, Counting DEF DoctorInv, TypeOK
  <1>4. TypeOK'
    BY <1>1, <1>2, <1>3, NoticeKeeps DEF DoctorInv, TypeOK
  <1>5. Generates'
    BY <1>2 DEF Generates
  <1> QED BY <1>1, <1>2, <1>3, <1>4, <1>5, NoticeKeeps DEF DoctorInv

LEMMA EditManifestKeeps == DoctorInv /\ EditManifest => DoctorInv'
  <1>1. SUFFICES ASSUME DoctorInv, EditManifest PROVE DoctorInv'
    OBVIOUS
  <1>2. /\ edits < MaxEdits /\ edits' = edits + 1 /\ Notice
        /\ UNCHANGED <<present, generated, make, target, runs>>
    BY <1>1 DEF EditManifest, Develop, making
  <1>3. manifest' \in Manifest \cup {Missing, Malformed}
    <2>1. CASE manifest' \in {Missing, Malformed, Default}
      BY <2>1, DefaultManifest
    <2>2. CASE /\ manifest \in Manifest
               /\ \E k \in DOMAIN manifest : \E v \in Values(k) :
                      manifest' = [manifest EXCEPT ![k] = v]
      <3>1. PICK k \in DOMAIN manifest : \E v \in Values(k) :
                     manifest' = [manifest EXCEPT ![k] = v]
        BY <2>2
      <3>2. PICK v \in Values(k) : manifest' = [manifest EXCEPT ![k] = v]
        BY <3>1
      <3>3. k \in {"version", "registry", "injector", "docs"}
        BY <2>2 DEF Manifest
      <3> QED BY <2>2, <3>2, <3>3 DEF Manifest
    <2> QED BY <1>1, <2>1, <2>2 DEF EditManifest
  <1>4. present' \subseteq Things /\ edits' \in 0..MaxEdits
    BY <1>1, <1>2, Counting DEF DoctorInv, TypeOK
  <1>5. TypeOK'
    BY <1>1, <1>2, <1>3, <1>4, NoticeKeeps DEF DoctorInv, TypeOK
  <1>6. Generates'
    BY <1>1, <1>2 DEF DoctorInv, Generates
  <1> QED BY <1>1, <1>2, <1>4, <1>5, <1>6, NoticeKeeps DEF DoctorInv

LEMMA LoseKeeps ==
    ASSUME DoctorInv, NEW x \in Things, Lose(x)
    PROVE  DoctorInv'
  <1>1. /\ edits < MaxEdits /\ edits' = edits + 1 /\ Notice
        /\ present' = present \ {x} /\ generated' = "no"
        /\ UNCHANGED <<manifest, make, target, runs>>
    BY DEF Lose, Develop, making
  <1>2. present' \subseteq Things /\ edits' \in 0..MaxEdits
    BY <1>1, Counting DEF DoctorInv, TypeOK
  <1>3. TypeOK'
    BY <1>1, <1>2, NoticeKeeps DEF DoctorInv, TypeOK
  <1>4. Generates'
    BY <1>1 DEF Generates
  <1> QED BY <1>1, <1>2, <1>3, <1>4, NoticeKeeps DEF DoctorInv

LEMMA GetKeeps ==
    ASSUME DoctorInv, NEW x \in Things, Get(x)
    PROVE  DoctorInv'
  <1>1. /\ edits < MaxEdits /\ edits' = edits + 1 /\ Notice
        /\ present' = present \cup {x}
        /\ UNCHANGED <<manifest, make, target, generated, runs>>
    BY DEF Get, Develop, making
  <1>2. present' \subseteq Things /\ edits' \in 0..MaxEdits
    BY <1>1, Counting DEF DoctorInv, TypeOK
  <1>3. TypeOK'
    BY <1>1, <1>2, NoticeKeeps DEF DoctorInv, TypeOK
  <1>4. Generates'
    BY <1>1 DEF DoctorInv, Generates
  <1> QED BY <1>1, <1>2, <1>3, <1>4, NoticeKeeps DEF DoctorInv

-----------------------------------------------------------------------------
(* The invariant is kept.                                                  *)

LEMMA NothingChanges == DoctorInv /\ UNCHANGED vars => DoctorInv'
  <1>1. SUFFICES ASSUME DoctorInv, UNCHANGED vars PROVE DoctorInv'
    OBVIOUS
  <1>2. /\ UNCHANGED <<world, looking>>
        /\ UNCHANGED <<manifest, present, make, target, generated, look, seen, lost, quiet,
                       last, edits, runs>>
    BY <1>1 DEF vars, world, making, looking
  <1>3. TypeOK' /\ Generates'
    BY <1>1, <1>2 DEF DoctorInv, TypeOK, Generates
  <1> QED BY <1>1, <1>2, <1>3, StillKeeps DEF DoctorInv

\* The inductive invariant of the model holds at all times: reports say what the
\* checks met, results that are remembered are what a command would find again,
\* and make generate leaves its files behind.
THEOREM Invariance == Spec => []DoctorInv
  <1>1. DoctorInv /\ [Next]_vars => DoctorInv'
    <2>1. SUFFICES ASSUME DoctorInv, [Next]_vars PROVE DoctorInv'
      OBVIOUS
    <2>2. CASE StartDoctor
      BY <2>1, <2>2, StartDoctorKeeps
    <2>3. CASE StartUpgrade
      BY <2>1, <2>3, StartUpgradeKeeps
    <2>4. CASE Look
      BY <2>1, <2>4, LookKeeps
    <2>5. CASE Report
      BY <2>1, <2>5, ReportKeeps
    <2>6. CASE \E t \in {"generate", "docs", "init"} : Make(t)
      BY <2>1, <2>6, MakeKeeps
    <2>7. CASE RunStep
      BY <2>1, <2>7, RunStepKeeps
    <2>8. CASE StepFails
      BY <2>1, <2>8, StepFailsKeeps
    <2>9. CASE MakeDone
      BY <2>1, <2>9, MakeDoneKeeps
    <2>10. CASE Clean
      BY <2>1, <2>10, CleanKeeps
    <2>11. CASE EditManifest
      BY <2>1, <2>11, EditManifestKeeps
    <2>12. CASE \E x \in Things : Lose(x) \/ Get(x)
      BY <2>1, <2>12, LoseKeeps, GetKeeps
    <2>13. CASE UNCHANGED vars
      BY <2>1, <2>13, NothingChanges
    <2> QED
      BY <2>1, <2>2, <2>3, <2>4, <2>5, <2>6, <2>7, <2>8, <2>9, <2>10, <2>11, <2>12, <2>13
      DEF Next
  <1> QED BY <1>1, Starts, PTL DEF Spec

\* The variables keep their types.
THEOREM TypeCorrect == Spec => []TypeOK
  <1>1. DoctorInv => TypeOK
    BY DEF DoctorInv
  <1> QED BY <1>1, Invariance, PTL

-----------------------------------------------------------------------------
(* What follows from it.                                                   *)

\* Among the checks that do not depend on the manifest are all without a hint.
LEMMA UnhintedChecks ==
    ASSUME NEW c \in Checks, c.hint = "", c.what \in Things
    PROVE  c \in Items(Static) \cup Items(ToolChecks)
  <1>1. ManifestCheck.what = "scaffold.yaml" /\ VersionCheck.what = "scaffold_version"
    BY DEF ManifestCheck, VersionCheck, Check
  <1>2. c # ManifestCheck /\ c # VersionCheck
    BY <1>1, DoctorAssumption
  <1>3. c \notin [what : Files, required : BOOLEAN, hint : {"make generate", "make docs"}]
    OBVIOUS
  <1> QED BY <1>2, <1>3 DEF Checks, Items

\* What a command requires is what it has required checks for.
LEMMA RequiredAre ==
    ASSUME NEW command \in Commands, NEW m \in Manifest, Loads(m)
    PROVE  Required(command, m) = {c.what : c \in {d \in Wanted(command, m) : d.required}}
  <1> DEFINE r == Check(Place(m, "registry"), TRUE, "make generate")
             i == Check(Place(m, "injector"), TRUE, "make generate")
             d == Check(Place(m, "docs"), FALSE, "make docs")
             fixed == Items(Static) \cup Items(ToolChecks)
             art == Items(Artifacts(Given(m)))
  <1>1. art = {r, i, d}
    BY ArtifactChecks
  <1>2. /\ r.what = Place(m, "registry") /\ r.required
        /\ i.what = Place(m, "injector") /\ i.required
        /\ d.required = FALSE
    BY DEF Check
  <1>3. Wanted(command, m) = IF command = "upgrade" THEN art ELSE fixed \cup art
    BY DEF Wanted, Commands
  <1> HIDE DEF r, i, d, art
  <1>4. {c.what : c \in {e \in art : e.required}} = {Place(m, "registry"), Place(m, "injector")}
    BY <1>1, <1>2
  <1> DEFINE unhinted == {c.what : c \in {e \in Checks : e.required /\ e.hint = ""}} \cap Things
             needed == {c.what : c \in {e \in fixed : e.required}}
  <1>5. unhinted = needed
    <2>1. unhinted \subseteq needed
      BY UnhintedChecks
    <2>2. needed \subseteq unhinted
      BY FixedChecks
    <2> QED BY <2>1, <2>2
  <1>6. Required(command, m) = {Place(m, "registry"), Place(m, "injector")} \cup
                                   (IF command = "upgrade" THEN {} ELSE unhinted)
    BY DEF Required
  <1> HIDE DEF unhinted, fixed
  <1>7. CASE command = "upgrade"
    BY <1>3, <1>4, <1>6, <1>7
  <1>8. CASE command # "upgrade"
    <2>1. {c.what : c \in {e \in fixed \cup art : e.required}} =
              needed \cup {c.what : c \in {e \in art : e.required}}
      OBVIOUS
    <2> QED BY <1>3, <1>4, <1>5, <1>6, <1>8, <2>1
  <1> QED BY <1>7, <1>8

\* A verdict is earned by what was there, or was not, while the command ran.
THEOREM VerdictsAreEarned == Spec => []VerdictIsEarned
  <1>1. DoctorInv => VerdictIsEarned
    <2>1. SUFFICES ASSUME DoctorInv, look.stage = "done" PROVE VerdictIsEarned
      BY DEF VerdictIsEarned
    <2> DEFINE m == look.asked
               wanted == Wanted(look.command, m)
    <2>2. look.command \in Commands /\ m \in Manifest \cup {Missing, Malformed}
      BY <2>1 DEF DoctorInv, TypeOK
    <2>3. /\ Said(look.command, m) \subseteq look.problems
          /\ \A c \in look.problems :
                 c \in Said(look.command, m) \/ (c \in wanted /\ c.what \in lost)
          /\ \A c \in wanted : c \in look.problems \/ c.what \in seen
      BY <2>1, NoItems DEF DoctorInv, Reported
    <2>4. ManifestCheck.required
      BY DEF ManifestCheck, Check
    <2>5. ManifestCheck \in Said(look.command, m) <=> ~Loads(m)
      BY <2>2, WantedChecks
    <2>6. Said(look.command, m) \subseteq {ManifestCheck, VersionCheck}
      BY <2>2, WantedChecks
    <2>7. CASE ~Loads(m)
      <3>1. Fails(look.problems)
        BY <2>3, <2>4, <2>5, <2>7 DEF Fails
      <3> QED BY <2>7, <3>1 DEF VerdictIsEarned
    <2>8. CASE Loads(m)
      <3>1. m \in Manifest
        BY <2>2, <2>8 DEF Loads
      <3>2. Required(look.command, m) = {c.what : c \in {d \in wanted : d.required}}
        BY <2>2, <2>8, <3>1, RequiredAre
      <3> HIDE DEF m, wanted
      <3>3. CASE Fails(look.problems)
        <4>1. PICK c \in look.problems : c.required
          BY <3>3 DEF Fails
        <4>2. CASE c \in Said(look.command, m)
          <5>1. VersionCheck \in look.problems
            BY <2>5, <2>6, <2>8, <4>1, <4>2
          <5> QED BY <3>3, <5>1 DEF VerdictIsEarned
        <4>3. CASE c \in wanted /\ c.what \in lost
          <5>1. Required(look.command, m) \cap lost # {}
            BY <3>2, <4>1, <4>3
          <5> QED BY <3>3, <5>1 DEF VerdictIsEarned, m
        <4> QED BY <2>3, <4>1, <4>2, <4>3
      <3>4. CASE ~Fails(look.problems)
        <4>1. Required(look.command, m) \subseteq seen
          BY <2>3, <3>2, <3>4 DEF Fails
        <4> QED BY <2>8, <3>4, <4>1 DEF VerdictIsEarned, m
      <3> QED BY <3>3, <3>4
    <2> QED BY <2>7, <2>8
  <1> QED BY <1>1, Invariance, PTL

\* doctor and upgrade agree as long as nothing changes.
THEOREM CommandsAlwaysAgree == Spec => []CommandsAgree
  <1>1. DoctorInv => CommandsAgree
    <2>1. SUFFICES ASSUME DoctorInv, Unknown \notin {last["doctor"], last["upgrade"]}
                   PROVE  CommandsAgree
      BY DEF CommandsAgree
    <2> DEFINE art == Lacking(Items(Artifacts(Given(manifest))), present)
               fixed == Lacking(Items(Static) \cup Items(ToolChecks), present)
    <2>2. "doctor" \in Commands /\ "upgrade" \in Commands
      BY DEF Commands
    <2>3. manifest \in Manifest \cup {Missing, Malformed}
      BY <2>1 DEF DoctorInv, TypeOK
    <2>4. ASSUME NEW c \in Commands
          PROVE  /\ last[c] = Found(c, manifest, present)
                 /\ ManifestCheck \in last[c] <=> ~Loads(manifest)
      <3>1. last[c] = Unknown \/ last[c] = Found(c, manifest, present)
        BY <2>1 DEF DoctorInv, Recalled
      <3>2. c \in {"doctor", "upgrade"}
        BY DEF Commands
      <3>3. last[c] = Found(c, manifest, present)
        BY <2>1, <3>1, <3>2
      <3>4. ManifestCheck \notin Wanted(c, manifest)
        BY <2>3, WantedChecks
      <3>5. ManifestCheck \in Said(c, manifest) <=> ~Loads(manifest)
        BY <2>3, WantedChecks
      <3> QED BY <3>3, <3>4, <3>5 DEF Found, Lacking
    <2>5. ASSUME Loads(manifest)
          PROVE  {c \in last["doctor"] : c.hint # ""} = last["upgrade"] \ {VersionCheck}
      <3>1. Said("doctor", manifest) = {} /\ Said("upgrade", manifest) \subseteq {VersionCheck}
        BY <2>5 DEF Said
      <3>2. last["doctor"] = fixed \cup art
        BY <2>2, <2>4, <3>1 DEF Found, Wanted, Lacking
      <3>3. last["upgrade"] = Said("upgrade", manifest) \cup art
        BY <2>2, <2>4, <2>5 DEF Found, Wanted
      <3>4. \A c \in fixed : c.hint = ""
        BY FixedChecks DEF Lacking
      <3>5. \A c \in art : c.hint # ""
        <4>1. ASSUME NEW x, NEW b
              PROVE  Check(x, b, "make generate").hint # "" /\ Check(x, b, "make docs").hint # ""
          BY DEF Check
        <4>2. Items(Artifacts(Given(manifest))) =
                  {Check(Place(manifest, "registry"), TRUE, "make generate"),
                   Check(Place(manifest, "injector"), TRUE, "make generate"),
                   Check(Place(manifest, "docs"), FALSE, "make docs")}
          BY <2>3, ArtifactChecks
        <4> QED BY <4>1, <4>2 DEF Lacking
      <3>6. VersionCheck \notin art
        <4>1. VersionCheck \notin Wanted("upgrade", manifest)
          BY <2>2, <2>3, WantedChecks
        <4> QED BY <2>5, <4>1 DEF Wanted, Lacking
      <3> HIDE DEF art, fixed
      <3> QED BY <3>1, <3>2, <3>3, <3>4, <3>5, <3>6
    <2>6. /\ ManifestCheck \in last["doctor"] <=> ~Loads(manifest)
          /\ ManifestCheck \in last["upgrade"] <=> ~Loads(manifest)
      BY <2>2, <2>4
    <2> QED BY <2>5, <2>6 DEF CommandsAgree
  <1> QED BY <1>1, Invariance, PTL

\* The hint to run make generate helps.
THEOREM HintsHelp == Spec => []HintHelps
  <1>1. DoctorInv => HintHelps
    <2>1. SUFFICES ASSUME DoctorInv, NEW c \in Commands,
                          generated = "yes", last[c] # Unknown,
                          Loads(manifest) =>
                              Elsewhere \notin {manifest.registry, manifest.injector},
                          NEW p \in last[c], p.hint = "make generate"
                   PROVE  FALSE
      BY DEF HintHelps
    <2>2. manifest \in Manifest \cup {Missing, Malformed}
      BY <2>1 DEF DoctorInv, TypeOK
    <2>3. p \in Found(c, manifest, present)
      BY <2>1 DEF DoctorInv, Recalled
    <2>4. ManifestCheck.hint # "make generate" /\ VersionCheck.hint # "make generate"
      BY DEF ManifestCheck, VersionCheck, Check
    <2>5. p \notin Said(c, manifest)
      BY <2>1, <2>4 DEF Said
    <2>6. p \in Wanted(c, manifest) /\ p.what \notin present
      BY <2>3, <2>5 DEF Found, Lacking
    <2>7. p \notin Items(Static) \cup Items(ToolChecks)
      BY <2>1, FixedChecks
    <2>8. p \in Items(Artifacts(Given(manifest)))
      BY <2>6, <2>7 DEF Wanted
    <2>9. p \in {Check(Place(manifest, "registry"), TRUE, "make generate"),
                 Check(Place(manifest, "injector"), TRUE, "make generate"),
                 Check(Place(manifest, "docs"), FALSE, "make docs")}
      BY <2>2, <2>8, ArtifactChecks
    <2>10. p.what \in {Place(manifest, "registry"), Place(manifest, "injector")}
      <3>1. CASE p = Check(Place(manifest, "registry"), TRUE, "make generate")
        BY <3>1 DEF Check
      <3>2. CASE p = Check(Place(manifest, "injector"), TRUE, "make generate")
        BY <3>2 DEF Check
      <3>3. CASE p = Check(Place(manifest, "docs"), FALSE, "make docs")
        <4>1. p.hint = "make docs"
          BY <3>3 DEF Check
        <4> QED BY <2>1, <4>1
      <3> QED BY <2>9, <3>1, <3>2, <3>3
    <2>11. Place(manifest, "registry") = FeaturesGen /\ Place(manifest, "injector") = WireGen
      <3>1. Default.registry = FeaturesGen /\ Default.injector = WireGen
        BY DEF Default
      <3>2. CASE ~Loads(manifest)
        BY <3>1, <3>2 DEF Place
      <3>3. CASE Loads(manifest)
        <4>1. manifest \in Manifest
          BY <2>2, <3>3 DEF Loads
        <4>2. /\ manifest["registry"] \in {Default["registry"], Elsewhere, Blank, Absent}
              /\ manifest["injector"] \in {Default["injector"], Elsewhere, Blank, Absent}
          BY <4>1 DEF Manifest, Values
        <4>3. manifest["registry"] # Elsewhere /\ manifest["injector"] # Elsewhere
          BY <2>1, <3>3
        <4> QED BY <3>1, <3>3, <4>2, <4>3 DEF Place
      <3> QED BY <3>2, <3>3
    <2>12. {FeaturesGen, WireGen} \subseteq present
      BY <2>1 DEF DoctorInv, Generates
    <2> QED BY <2>6, <2>10, <2>11, <2>12
  <1> QED BY <1>1, Invariance, PTL

=============================================================================
