------------------------------ MODULE Workspace ------------------------------
(***************************************************************************)
(* A project and the tools that write its files: scaffold add-feature,     *)
(* which starts a feature, and make generate, which runs buf and then      *)
(* cmd/codegen over what buf wrote.  They run one at a time, file by file, *)
(* and may fail at any file, by an error or by being killed; in between    *)
(* the developer edits, repairs and discards files.                        *)
(*                                                                         *)
(* A file is a pair of its kind and the feature, table or migration it     *)
(* belongs to.  Of its contents the model keeps whether the developer has  *)
(* worked on it, whether a failing write has truncated it, and which RPCs  *)
(* it declares.                                                            *)
(***************************************************************************)
EXTENDS Naturals, Sequences

CONSTANTS
    Names,      \* names of features, as the sequences of their words; none is a
                \* keyword of Go or ends in a word that Go takes for a build
                \* constraint in the name of a file (test, linux, arm64, ...)
    Sibilants,  \* the stems that end in s, x, z, ch or sh
    Rpcs,       \* the methods a service may have
    Template,   \* those of a new feature
    Included,   \* the features buf.gen.yaml covers at first
    LastSecond, \* bound: the clock stops here
    MaxEdits,   \* bound: how often the developer does something
    MaxFails    \* bound: how often a tool fails

\* A word of a name, and the word two underscores in a row, or one at the
\* end, leave empty.
Word == [stem : STRING, ending : {"", "e", "y", "ie"}]
NoWord == [stem |-> "", ending |-> ""]

ASSUME WorkspaceAssumption ==
    /\ \A n \in Names : n # <<>> /\ n \in Seq(Word) /\ Head(n) # NoWord
    /\ Template \subseteq Rpcs /\ Template # {}
    /\ Included \subseteq Names
    /\ LastSecond \in Nat
    /\ MaxEdits \in Nat
    /\ MaxFails \in Nat

VARIABLES
    tree,      \* the files that exist
    edited,    \* those that hold work of the developer
    broken,    \* those a failing write has truncated
    rpcs,      \* the RPCs each file that has any declares
    binding,   \* the features whose wire.go refers to WireBind
    registry,  \* the features features_gen.go registers
    inputs,    \* the features whose protos buf.gen.yaml covers
    added,     \* the features add-feature has created where nothing was left of them
    fresh,     \* nothing has happened since make generate succeeded
    job,       \* the tool that runs, and how far it has come
    name,      \* the feature it works on, while it does
    todo,      \* the files it has yet to write for that feature
    queue,     \* the features codegen has not come to yet
    services,  \* the features codegen has found in gen/
    clock,     \* the second of the last add-feature
    edits,     \* what the developer has done, counted
    fails      \* failures of a tool, counted

content == <<tree, edited, broken, rpcs>>
output == <<binding, registry>>
run == <<job, name, todo, queue, services>>
bounds == <<clock, edits, fails>>
vars == <<content, output, run, inputs, added, fresh, bounds>>

-----------------------------------------------------------------------------
(* Names and files.                                                        *)

\* toPascalCase leaves out empty words.
Pascal(n) == SelectSeq(n, LAMBDA w : w # NoWord)

\* pluralize, on the end of the name.
Plural(w) == [stem |-> w.stem, ending |->
    CASE w.ending \in {"y", "ie"} -> "ies"
      [] w.ending = "e" \/ w.stem \in Sibilants -> "es"
      [] OTHER -> "s"]
Table(n) == [n EXCEPT ![Len(n)] = Plural(@)]

RpcKinds == {"proto", "pb", "service", "usecase"}
FeatureKinds ==
    RpcKinds \cup {"reason", "ports", "facade", "wire_bind", "repo", "wire"}
BufGen == <<"buf.gen", "">>
FeaturesGen == <<"features_gen", "">>
Tables == {Table(n) : n \in Names}
Path ==
    FeatureKinds \X Names \cup {"schema"} \X Tables
        \cup {"migration"} \X (Tables \X (0..LastSecond)) \cup {BufGen, FeaturesGen}

FilesOf(n) == {f \in tree : f \in FeatureKinds \X {n}}
Migrations == {f \in tree : f[1] = "migration"}

\* The files codegen writes anew on every run, and those it writes once.
Rewritten == {"service", "wire"}
Generated == <<"service", "usecase", "repo", "wire">>

\* (Faulty: the schema is left to the developer.)
NewFilesNoSchema(n, second) == <<
    <<"proto", n>>, <<"reason", n>>, <<"ports", n>>, <<"facade", n>>,
    <<"wire_bind", n>>, <<"migration", <<Table(n), second>>>> >>

\* What add-feature writes, in this order.
NewFiles(n, second) == <<
    <<"proto", n>>, <<"reason", n>>, <<"ports", n>>, <<"facade", n>>,
    <<"wire_bind", n>>, <<"schema", Table(n)>>, <<"migration", <<Table(n), second>>>> >>

TypeOK ==
    /\ tree \subseteq Path
    /\ edited \subseteq tree
    /\ broken \subseteq tree
    /\ rpcs \in [RpcKinds \X Names -> SUBSET Rpcs]
    /\ binding \subseteq Names
    /\ registry \subseteq Names
    /\ inputs \subseteq Names
    /\ added \subseteq Names
    /\ fresh \in BOOLEAN
    /\ job \in {"none", "add", "proto", "code"}
    /\ name \in Names \cup {<<>>}
    /\ todo \in Seq(Path)
    /\ queue \subseteq services
    /\ services \subseteq Names
    /\ clock \in 0..LastSecond
    /\ edits \in 0..MaxEdits
    /\ fails \in 0..MaxFails

Init ==
    /\ tree = {BufGen}
    /\ edited = {}
    /\ broken = {}
    /\ rpcs = [f \in RpcKinds \X Names |-> {}]
    /\ binding = {}
    /\ registry = {}
    /\ inputs = Included
    /\ added = {}
    /\ fresh = FALSE
    /\ job = "none"
    /\ name = <<>>
    /\ todo = <<>>
    /\ queue = {}
    /\ services = {}
    /\ clock = 0
    /\ edits = 0
    /\ fails = 0

\* os.WriteFile: whatever was there is replaced.
Write(f) ==
    /\ tree' = tree \cup {f}
    /\ edited' = edited \ {f}
    /\ broken' = broken \ {f}

Declare(f, methods) == rpcs' = [rpcs EXCEPT ![f] = methods]

-----------------------------------------------------------------------------
(* scaffold add-feature.                                                   *)

\* No file it is about to write exists.
StartAdd(n) ==
    /\ job = "none"
    /\ clock' \in {clock, clock + 1} \cap 0..LastSecond
    /\ \A i \in 1..Len(NewFiles(n, clock')) : NewFiles(n, clock')[i] \notin tree
    /\ job' = "add"
    /\ name' = n
    /\ todo' = NewFiles(n, clock')
    /\ fresh' = FALSE
    /\ UNCHANGED <<content, output, inputs, added, queue, services, edits, fails>>

WriteNewFile ==
    /\ job = "add"
    /\ todo # <<>>
    /\ Write(Head(todo))
    /\ IF Head(todo)[1] = "proto" THEN Declare(Head(todo), Template) ELSE UNCHANGED rpcs
    /\ todo' = Tail(todo)
    /\ UNCHANGED <<output, inputs, added, fresh, job, name, queue, services, bounds>>

\* (Faulty: buf.gen.yaml covers what it covered before.)
FinishAddWithoutBuf ==
    /\ job = "add"
    /\ todo = <<>>
    /\ edited' = edited \ {BufGen}
    /\ added' = added \cup {n \in {name} : <<"usecase", n>> \notin tree}
    /\ name' = <<>>
    /\ job' = "none"
    /\ UNCHANGED <<tree, broken, rpcs, output, inputs, fresh, todo, queue, services, bounds>>

\* ensureBufGenIncludesAPI: buf.gen.yaml covers the whole of api/.  It is read,
\* cut down to the keys that are known, and written again, so comments and other
\* keys of the developer's get lost; one that was truncated lacks its plugins
\* ever after.
FinishAdd ==
    /\ job = "add"
    /\ todo = <<>>
    /\ inputs' = Names
    /\ edited' = edited \ {BufGen}
    /\ added' = added \cup {n \in {name} : <<"usecase", n>> \notin tree}
    /\ name' = <<>>
    /\ job' = "none"
    /\ UNCHANGED <<tree, broken, rpcs, output, fresh, todo, queue, services, bounds>>

-----------------------------------------------------------------------------
(* make generate.                                                          *)

\* buf generate writes gen/ for the protos there are, and takes nothing away.
\* A truncated proto has no service, if it does not stop buf altogether, and
\* one without methods gets no _http.pb.go, which is all that codegen looks at:
\* an old one stays as it is.
GenProto ==
    LET protos == {n \in inputs : <<"proto", n>> \in tree \ broken /\ rpcs[<<"proto", n>>] # {}}
    IN  /\ job = "none"
        /\ BufGen \notin broken
        /\ tree' = tree \cup ({"pb"} \X protos)
        /\ rpcs' = [f \in DOMAIN rpcs |->
               IF f \in {"pb"} \X protos THEN rpcs[<<"proto", f[2]>>] ELSE rpcs[f]]
        /\ job' = "proto"
        /\ UNCHANGED <<edited, broken, output, inputs, added, fresh, name, todo, queue,
                       services, bounds>>

\* (Faulty: codegen generates for every feature, found in gen/ or not.)
ScanEverything ==
    /\ job = "proto"
    /\ services' = {n \in Names : <<"pb", n>> \in tree}
    /\ queue' = Names
    /\ job' = "code"
    /\ UNCHANGED <<content, output, inputs, added, fresh, name, todo, bounds>>

\* scanGeneratedFiles: the services in gen/.
Scan ==
    /\ job = "proto"
    /\ services' = {n \in Names : <<"pb", n>> \in tree}
    /\ queue' = services'
    /\ job' = "code"
    /\ UNCHANGED <<content, output, inputs, added, fresh, name, todo, bounds>>

\* codegen turns to the next service; they are sorted, in an order that
\* nothing depends on.
NextService(n) ==
    /\ job = "code"
    /\ todo = <<>>
    /\ n \in queue
    /\ name' = n
    /\ queue' = queue \ {n}
    /\ todo' = [i \in 1..Len(Generated) |-> <<Generated[i], n>>]
    /\ UNCHANGED <<content, output, inputs, added, fresh, job, services, bounds>>

\* (Faulty: the use case is generated anew, too.)
SkipsNever(f) == FALSE

\* (Faulty: a file that exists is left alone, even one that can be rebuilt.)
SkipsExisting(f) == f \in tree

\* writeTemplateFile leaves a file alone that it must not overwrite.
Skips(f) == f \in tree /\ f[1] \notin Rewritten

\* (Faulty: service.go gets the methods of the use case it is to call.)
GenerateFileForUseCase ==
    LET f == Head(todo)
    IN  /\ job = "code"
        /\ todo # <<>>
        /\ IF Skips(f)
             THEN UNCHANGED <<content, binding>>
             ELSE /\ Write(f)
                  /\ IF f[1] \in RpcKinds
                       THEN Declare(f, rpcs[<<IF f[1] = "service" THEN "usecase" ELSE "pb", name>>])
                       ELSE UNCHANGED rpcs
                  /\ binding' = IF f[1] # "wire" THEN binding
                                ELSE IF <<"facade", name>> \in tree THEN binding \cup {name}
                                ELSE binding \ {name}
        /\ todo' = Tail(todo)
        /\ UNCHANGED <<registry, inputs, added, fresh, job, name, queue, services, bounds>>

\* generateService, generateUseCase, generateRepo and generateWire.
GenerateFile ==
    LET f == Head(todo)
    IN  /\ job = "code"
        /\ todo # <<>>
        /\ IF Skips(f)
             THEN UNCHANGED <<content, binding>>
             ELSE /\ Write(f)
                  /\ IF f[1] \in RpcKinds THEN Declare(f, rpcs[<<"pb", name>>]) ELSE UNCHANGED rpcs
                  /\ binding' = IF f[1] # "wire" THEN binding
                                ELSE IF <<"facade", name>> \in tree THEN binding \cup {name}
                                ELSE binding \ {name}
        /\ todo' = Tail(todo)
        /\ UNCHANGED <<registry, inputs, added, fresh, job, name, queue, services, bounds>>

\* generateServerFeatures, which writes nothing when there are no services.
RegisterServices ==
    /\ job = "code"
    /\ todo = <<>>
    /\ queue = {}
    /\ IF services # {}
         THEN Write(FeaturesGen) /\ registry' = services
         ELSE UNCHANGED <<tree, edited, broken, registry>>
    /\ fresh' = TRUE
    /\ job' = "none"
    /\ name' = <<>>
    /\ services' = {}
    /\ UNCHANGED <<rpcs, binding, inputs, added, todo, queue, bounds>>

-----------------------------------------------------------------------------
(* Failures.                                                               *)

\* The files the next step of the running tool writes: one or none.
Targets ==
    IF todo # <<>> THEN {f \in {Head(todo)} : job = "add" \/ ~Skips(f)}
    ELSE IF job = "add" THEN {BufGen}
    ELSE IF job = "code" /\ queue = {} /\ services # {} THEN {FeaturesGen}
    ELSE {}

Stop ==
    /\ fails < MaxFails
    /\ fails' = fails + 1
    /\ job' = "none"
    /\ name' = <<>>
    /\ todo' = <<>>
    /\ queue' = {}
    /\ services' = {}
    /\ fresh' = FALSE
    /\ UNCHANGED <<output, inputs, added, clock, edits>>

\* The tool ends before a write, or in the middle of it.
Fail ==
    /\ job # "none"
    /\ UNCHANGED content
    /\ Stop

FailWriting ==
    \E f \in Targets :
        /\ tree' = tree \cup {f}
        /\ edited' = edited \ {f}
        /\ broken' = broken \cup {f}
        /\ IF f \in DOMAIN rpcs THEN Declare(f, {}) ELSE UNCHANGED rpcs
        /\ Stop

-----------------------------------------------------------------------------
(* The developer, between two runs of a tool.                              *)

Develop ==
    /\ job = "none"
    /\ edits < MaxEdits
    /\ edits' = edits + 1
    /\ fresh' = FALSE
    /\ UNCHANGED <<output, run, inputs, clock, fails>>

Edit(f) ==
    /\ f \in tree \ broken
    /\ f[1] \in {"service", "usecase", "facade", "repo", "buf.gen"}
    /\ edited' = edited \cup {f}
    /\ Develop
    /\ UNCHANGED <<tree, broken, rpcs, added>>

\* A proto or a use case is given other methods.
ChangeMethods(f, methods) ==
    /\ f \in tree \ broken
    /\ f[1] \in {"proto", "usecase"}
    /\ Declare(f, methods)
    /\ edited' = edited \cup {f}
    /\ Develop
    /\ UNCHANGED <<tree, broken, added>>

Remove(files) ==
    /\ tree' = tree \ files
    /\ edited' = edited \ files
    /\ broken' = broken \ files
    /\ rpcs' = [f \in DOMAIN rpcs |-> IF f \in files THEN {} ELSE rpcs[f]]

\* A truncated file is deleted; buf.gen.yaml is restored instead.
Repair(f) ==
    /\ f \in broken
    /\ IF f = BufGen
         THEN broken' = broken \ {f} /\ UNCHANGED <<tree, edited, rpcs>>
         ELSE Remove({f})
    /\ Develop
    /\ UNCHANGED added

\* A feature shows nothing to others any more.
DropFacade(n) ==
    /\ <<"facade", n>> \in tree
    /\ Remove({<<"facade", n>>, <<"wire_bind", n>>, <<"ports", n>>})
    /\ Develop
    /\ UNCHANGED added

\* A feature is given up, with all its files but those in gen/, which is not
\* under version control.
Discard(n) ==
    /\ FilesOf(n) # {}
    /\ \A m \in Names \ {n} : Table(m) = Table(n) => FilesOf(m) = {}
    /\ Remove((FilesOf(n) \ {<<"pb", n>>}) \cup {<<"schema", Table(n)>>}
                  \cup {f \in Migrations : f[2][1] = Table(n)})
    /\ added' = added \ {n}
    /\ Develop

\* make clean
Clean ==
    /\ Remove({"pb"} \X Names)
    /\ Develop
    /\ UNCHANGED added

Tool ==
    \/ \E n \in Names : StartAdd(n)
    \/ WriteNewFile \/ FinishAdd
    \/ GenProto \/ Scan
    \/ \E n \in Names : NextService(n)
    \/ GenerateFile \/ RegisterServices
    \/ Fail \/ FailWriting

Developer ==
    \/ \E f \in tree : Edit(f) \/ Repair(f)
    \/ \E f \in tree, methods \in SUBSET Rpcs : ChangeMethods(f, methods)
    \/ \E n \in Names : DropFacade(n) \/ Discard(n)
    \/ Clean

Next == Tool \/ Developer

Spec == Init /\ [][Next]_vars

-----------------------------------------------------------------------------
(* Properties.                                                             *)

\* No tool ever replaces the developer's work in a file of a feature that is
\* hers, in any sequence of runs, failures and retries; service.go and wire.go
\* are not, and buf.gen.yaml is shared with add-feature, which rewrites it.
HandWorkKept ==
    [][edits' = edits =>
          \A f \in edited : f[1] \in FeatureKinds \ Rewritten => f \in edited']_vars

\* The services codegen finds in gen/.
Found == {n \in Names : <<"pb", n>> \in tree}

\* After a successful make generate everything codegen owns of the features in
\* gen/ says what gen/ and the facades say, whatever earlier runs left behind half
\* done, and features_gen.go registers these features and no others.  Only an
\* empty gen/ leaves features_gen.go as it was, stale or truncated.
GlueIsRebuilt ==
    fresh =>
        /\ Found # {} => registry = Found /\ FeaturesGen \in tree \ broken
        /\ \A n \in Found :
             /\ \A i \in 1..Len(Generated) : <<Generated[i], n>> \in tree
             /\ {<<"service", n>>, <<"wire", n>>} \cap broken = {}
             /\ rpcs[<<"service", n>>] = rpcs[<<"pb", n>>]
             /\ n \in binding <=> <<"facade", n>> \in tree

\* make generate is reproducible: run again after it has succeeded, with nothing
\* done in between, it leaves every file and every reference to a file as it is,
\* and does so at each of its steps.
GeneratingAgainChangesNothing ==
    [][fresh /\ fresh' => UNCHANGED <<content, output>>]_vars

\* The files a tool creates once; nothing repairs them but the developer.
CreatedOnce(n) ==
    {<<k, n>> : k \in {"ports", "facade", "wire_bind", "usecase", "repo"}}

\* Package ports has a file of every feature: one that is truncated, or two with
\* the same identifiers, keep it from compiling.
PortsCompile ==
    /\ \A m \in Names : <<"ports", m>> \notin broken
    /\ \A m, n \in Names :
         {<<"ports", m>>, <<"ports", n>>} \subseteq tree /\ Pascal(m) = Pascal(n) => m = n

\* What the compiler asks of the package of a feature: its files are whole and
\* refer to nothing that is missing, in gen/ and in package ports as well.
Builds(n) ==
    /\ {<<k, n>> : k \in {"service", "usecase", "repo", "wire", "facade", "wire_bind"}}
           \cap broken = {}
    /\ {<<"pb", n>>, <<"service", n>>, <<"usecase", n>>, <<"repo", n>>, <<"wire", n>>} \subseteq tree
    /\ rpcs[<<"service", n>>] \subseteq rpcs[<<"usecase", n>>]
    /\ n \in binding => <<"wire_bind", n>> \in tree
    /\ <<"wire_bind", n>> \in tree =>
           {<<"facade", n>>, <<"ports", n>>} \subseteq tree /\ PortsCompile

\* A feature add-feature has created needs no more than make generate to be
\* registered and to build: not after failed runs, and not after edits as
\* long as the proto has methods and the use case has them too.  No other
\* feature gets in its way but by its file in package ports, and what was
\* truncated of the files that are created once stays so.
AddedFeatureBuilds ==
    fresh => \A n \in added :
        /\ CreatedOnce(n) \cap broken = {}
        /\ <<"wire_bind", n>> \in tree => PortsCompile
        /\ \/ {<<"proto", n>>, <<"usecase", n>>} \cap edited = {}
           \/ rpcs[<<"proto", n>>] # {} /\ rpcs[<<"proto", n>>] \subseteq rpcs[<<"usecase", n>>]
        => n \in registry /\ Builds(n)

\* No two migrations create the same table, though names as different as
\* bus and buse have the same plural.
OneMigrationPerTable ==
    \A f, g \in Migrations : f[2][1] = g[2][1] => f = g

\* Features with different names live together in package ports and in
\* features_gen.go, whose identifiers are made of toPascalCase.
IdentifiersDiffer ==
    fresh => \A m, n \in registry : Pascal(m) = Pascal(n) => m = n

=============================================================================
