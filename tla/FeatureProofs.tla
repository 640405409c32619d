--------------------------- MODULE FeatureProofs ----------------------------
(***************************************************************************)
(* Proofs that a feature add-feature has created needs no more than make   *)
(* generate to be registered and to build, and that make generate run      *)
(* again changes nothing, for any names, methods and numbers of edits and  *)
(* failures.                                                               *)
(***************************************************************************)
EXTENDS WorkspaceProofs

-----------------------------------------------------------------------------
(* The inductive invariant.                                                *)

\* gen/ has a file of the service of a feature, if its proto has methods.
InGen(n) == rpcs[<<"proto", n>>] # {} => <<"pb", n>> \in tree

\* What add-feature has created is all there and whole, but for what the
\* developer has dropped, and buf covers it.
AddedAreWhole ==
    \A n \in added :
        /\ inputs = Names
        /\ <<"proto", n>> \in tree \ broken
        /\ {<<"ports", n>>, <<"facade", n>>, <<"wire_bind", n>>} \cap broken = {}
        /\ <<"facade", n>> \in tree <=> <<"wire_bind", n>> \in tree
        /\ <<"facade", n>> \in tree => <<"ports", n>> \in tree
        /\ fresh \/ job \in {"proto", "code"} => InGen(n)
        /\ job = "add" => name # n

\* A file nobody has worked on since it was written.
Pristine(f) == f \in tree \ (broken \cup edited)

\* A proto nobody has worked on has the methods add-feature gave it, and so has
\* the use case codegen has made of it.
MethodsAreKept ==
    /\ \A n \in Names : Pristine(<<"proto", n>>) => rpcs[<<"proto", n>>] = Template
    /\ \A n \in added :
           Pristine(<<"proto", n>>) /\ Pristine(<<"usecase", n>>)
               => rpcs[<<"usecase", n>>] = Template

AddedInv == AddedAreWhole /\ MethodsAreKept

-----------------------------------------------------------------------------
(* Steps that leave features alone.                                        *)

\* A step leaves a file where it is, whole and worked on as it is or more so, ...
Stays(f) ==
    /\ f \in tree' <=> f \in tree
    /\ f \in broken' <=> f \in broken
    /\ f \in edited => f \in edited'

\* ... with the methods it has.
Steady(f) == Stays(f) /\ (f \in RpcKinds \X Names => rpcs'[f] = rpcs[f])

FacadeFiles(n) == {<<"ports", n>>, <<"facade", n>>, <<"wire_bind", n>>}

\* What a step that adds no feature must not do to those there are.
LEMMA FeaturesKept ==
    ASSUME AddedInv, added' \subseteq added, added \subseteq Names, inputs' = inputs,
           \A n \in added' :
               /\ Stays(<<"proto", n>>)
               /\ \/ \A f \in FacadeFiles(n) : Stays(f)
                  \/ FacadeFiles(n) \cap (tree' \cup broken') = {}
               /\ fresh' \/ job' \in {"proto", "code"} => InGen(n)'
               /\ job' = "add" => name' # n,
           \A n \in Names :
               \/ Steady(<<"proto", n>>)
               \/ Pristine(<<"proto", n>>)' => rpcs'[<<"proto", n>>] = Template,
           \A n \in added' :
               \/ Steady(<<"usecase", n>>)
               \/ Pristine(<<"proto", n>>)' /\ Pristine(<<"usecase", n>>)'
                     => rpcs'[<<"usecase", n>>] = Template
    PROVE  AddedInv'
  <1>1. AddedAreWhole'
    BY DEF AddedInv, AddedAreWhole, Stays, FacadeFiles
  <1>2. \A n \in Names : /\ <<"proto", n>> \in RpcKinds \X Names
                         /\ <<"usecase", n>> \in RpcKinds \X Names
    BY DEF RpcKinds
  <1>3. \A f : Stays(f) /\ Pristine(f)' => Pristine(f)
    BY DEF Stays, Pristine
  <1>4. \A f : Steady(f) => Stays(f)
    BY DEF Steady
  <1>5. \A f \in RpcKinds \X Names : Steady(f) => rpcs'[f] = rpcs[f]
    BY DEF Steady
  <1>6. ASSUME NEW n \in Names, Pristine(<<"proto", n>>)'
        PROVE  rpcs'[<<"proto", n>>] = Template
    <2>1. CASE Steady(<<"proto", n>>)
      BY <1>2, <1>3, <1>4, <1>5, <1>6, <2>1 DEF AddedInv, MethodsAreKept
    <2> QED BY <1>6, <2>1
  <1>7. ASSUME NEW n \in added', Pristine(<<"proto", n>>)', Pristine(<<"usecase", n>>)'
        PROVE  rpcs'[<<"usecase", n>>] = Template
    <2>1. CASE Steady(<<"usecase", n>>)
      <3>1. n \in added /\ n \in Names /\ Stays(<<"proto", n>>)
        OBVIOUS
      <3> QED BY <1>2, <1>3, <1>4, <1>5, <1>7, <2>1, <3>1 DEF AddedInv, MethodsAreKept
    <2> QED BY <1>7, <2>1
  <1>8. MethodsAreKept'
    BY <1>6, <1>7 DEF MethodsAreKept
  <1> QED BY <1>1, <1>8 DEF AddedInv

\* A step that touches no files.
LEMMA NoFileChanges ==
    ASSUME WorkspaceInv, AddedInv, UNCHANGED <<tree, edited, broken, rpcs, inputs, added>>,
           (fresh' \/ job' \in {"proto", "code"}) => (fresh \/ job \in {"proto", "code"}),
           \A n \in added : job' = "add" => name' # n
    PROVE  AddedInv'
  <1>1. \A f : Steady(f) /\ Stays(f)
    BY DEF Steady, Stays
  <1>2. \A n \in added' : fresh' \/ job' \in {"proto", "code"} => InGen(n)'
    BY DEF AddedInv, AddedAreWhole, InGen
  <1> QED BY <1>1, <1>2, FeaturesKept DEF WorkspaceInv, TypeOK

-----------------------------------------------------------------------------
(* scaffold add-feature.                                                   *)

LEMMA StartAddKeepsFeatures ==
    ASSUME WorkspaceInv, AddedInv, NEW n \in Names, StartAdd(n)
    PROVE  AddedInv'
  <1>1. /\ job' = "add" /\ name' = n /\ fresh' = FALSE
        /\ UNCHANGED <<tree, edited, broken, rpcs, inputs, added>>
        /\ \A i \in 1..7 : NewFiles(n, clock')[i] \notin tree
    BY NewFilesAre DEF StartAdd, content
  <1>2. <<"proto", n>> \notin tree
    <2>1. 1 \in 1..7 /\ NewFiles(n, clock')[1] = <<"proto", n>>
      BY NewFilesAre
    <2> QED BY <1>1, <2>1
  <1>3. n \notin added
    BY <1>1, <1>2 DEF AddedInv, AddedAreWhole
  <1> QED BY <1>1, <1>3, NoFileChanges

\* A file add-feature writes, or truncates, belongs to no feature that has been added.
LEMMA NewFileIsNobodys ==
    ASSUME WorkspaceInv, job = "add", todo # <<>>, NEW k \in 0..7, Written(k)
    PROVE  /\ \A n : \A j \in FeatureKinds : <<j, n>> = Head(todo) => n = name
           /\ Head(todo)[1] \notin {"usecase", "pb"}
           /\ Head(todo) \notin tree
  <1>1. /\ k \in 0..6 /\ Head(todo) = NewFiles(name, clock)[k + 1]
        /\ Head(todo) \notin tree
    BY NextNewFile
  <1>2. k + 1 \in {1, 2, 3, 4, 5, 6, 7}
    BY <1>1
  <1>3. \/ Head(todo)[1] \in FeatureKinds \ {"usecase", "pb"} /\ Head(todo)[2] = name
        \/ Head(todo)[1] \in {"schema", "migration"}
    BY <1>1, <1>2, NewFilesAre, KindsAre
  <1>4. Head(todo)[1] \notin {"usecase", "pb"}
    BY <1>3
  <1>5. ASSUME NEW n, NEW j \in FeatureKinds, <<j, n>> = Head(todo) PROVE n = name
    <2>1. Head(todo)[1] = j /\ Head(todo)[2] = n
      BY <1>5
    <2> QED BY <1>3, <2>1, KindsAre
  <1> QED BY <1>1, <1>4, <1>5

\* Whether it is written or truncated, this is all a step of add-feature changes.
LEMMA NewFileKeepsFeatures ==
    ASSUME WorkspaceInv, AddedInv, job = "add", todo # <<>>, NEW k \in 0..7, Written(k),
           \A f : f # Head(todo) => Steady(f),
           UNCHANGED <<inputs, added>>, ~fresh', job' \in {"add", "none"},
           job' = "add" => name' = name,
           \A n \in Names : <<"proto", n>> = Head(todo) =>
               (Pristine(<<"proto", n>>)' => rpcs'[<<"proto", n>>] = Template)
    PROVE  AddedInv'
  <1>1. \A n : \A j \in FeatureKinds : <<j, n>> = Head(todo) => n = name
    BY NewFileIsNobodys
  <1>2. Head(todo)[1] \notin {"usecase", "pb"}
    BY NewFileIsNobodys
  <1>3. \A n \in added : n # name
    BY DEF AddedInv, AddedAreWhole
  <1>4. ASSUME NEW n \in added, NEW j \in FeatureKinds
        PROVE  Steady(<<j, n>>) /\ Stays(<<j, n>>)
    <2>1. <<j, n>> # Head(todo)
      BY <1>1, <1>3
    <2> QED BY <2>1 DEF Steady
  <1>5. \A n \in added : /\ Steady(<<"usecase", n>>) /\ Stays(<<"proto", n>>)
                         /\ \A f \in FacadeFiles(n) : Stays(f)
    BY <1>4, KindsAre DEF FacadeFiles
  <1> QED BY <1>3, <1>5, FeaturesKept DEF WorkspaceInv, TypeOK

LEMMA WriteNewFileKeepsFeatures ==
    ASSUME WorkspaceInv, AddedInv, WriteNewFile
    PROVE  AddedInv'
  <1> DEFINE f == Head(todo)
  <1>1. /\ job = "add" /\ job' = "add" /\ todo # <<>> /\ name' = name /\ ~fresh'
        /\ tree' = tree \cup {f} /\ edited' = edited \ {f} /\ broken' = broken \ {f}
        /\ IF f[1] = "proto" THEN rpcs' = [rpcs EXCEPT ![f] = Template] ELSE rpcs' = rpcs
        /\ UNCHANGED <<inputs, added>>
    BY DEF WriteNewFile, Write, Declare, WorkspaceInv, AddsNewFiles
  <1>2. PICK k \in 0..7 : Written(k)
    BY <1>1 DEF WorkspaceInv, AddsNewFiles
  <1>3. rpcs \in [RpcKinds \X Names -> SUBSET Rpcs]
    BY DEF WorkspaceInv, TypeOK
  <1>4. ASSUME NEW n \in Names, <<"proto", n>> = f PROVE rpcs'[<<"proto", n>>] = Template
    <2>1. f[1] = "proto" /\ f \in RpcKinds \X Names
      BY <1>4 DEF RpcKinds
    <2> QED BY <1>1, <1>3, <1>4, <2>1
  <1> HIDE DEF f
  <1>5. \A g : g # f => Steady(g)
    BY <1>1, <1>3 DEF Steady, Stays
  <1> QED BY <1>1, <1>2, <1>4, <1>5, NewFileKeepsFeatures DEF f

LEMMA FinishAddKeepsFeatures ==
    ASSUME WorkspaceInv, AddedInv, FinishAdd
    PROVE  AddedInv'
  <1>1. /\ job = "add" /\ job' = "none" /\ inputs' = Names /\ ~fresh' /\ todo = <<>>
        /\ added' = added \cup {n \in {name} : <<"usecase", n>> \notin tree}
        /\ edited' = edited \ {BufGen} /\ UNCHANGED <<tree, broken, rpcs>>
    BY DEF FinishAdd, WorkspaceInv, AddsNewFiles
  <1>2. \A i \in 1..7 : NewFiles(name, clock)[i] \in tree \ broken
    <2>1. PICK k \in 0..7 : Written(k)
      BY <1>1 DEF WorkspaceInv, AddsNewFiles
    <2>2. k = 7
      <3>1. Rest(todo, NewFiles(name, clock), 7, k)
        BY <2>1 DEF Written
      <3> QED BY <1>1, <3>1 DEF Rest
    <2>3. \A i \in 1..7 : i <= 7
      OBVIOUS
    <2> QED BY <2>1, <2>2, <2>3 DEF Written
  <1>3. /\ {<<"proto", name>>, <<"ports", name>>, <<"facade", name>>, <<"wire_bind", name>>}
              \subseteq tree \ broken
    BY <1>2, NewFilesAre
  <1>4. AddedAreWhole'
    BY <1>1, <1>3 DEF AddedInv, AddedAreWhole
  <1>5. MethodsAreKept'
    <2>1. \A n : <<"proto", n>> # BufGen /\ <<"usecase", n>> # BufGen
      BY DEF BufGen
    <2>2. \A f : Pristine(f)' => f \in tree' \ (broken' \cup edited')
      BY DEF Pristine
    <2>3. \A f : f # BufGen /\ Pristine(f)' => Pristine(f)
      BY <1>1, <2>2 DEF Pristine
    <2>4. ASSUME NEW n \in Names, Pristine(<<"proto", n>>)'
          PROVE  rpcs'[<<"proto", n>>] = Template
      <3>1. Pristine(<<"proto", n>>)
        BY <2>1, <2>3, <2>4
      <3> QED BY <1>1, <3>1 DEF AddedInv, MethodsAreKept
    <2>5. ASSUME NEW n \in added', Pristine(<<"proto", n>>)', Pristine(<<"usecase", n>>)'
          PROVE  rpcs'[<<"usecase", n>>] = Template
      <3>1. Pristine(<<"proto", n>>) /\ Pristine(<<"usecase", n>>)
        BY <2>1, <2>3, <2>5
      <3>2. n \in added
        BY <1>1, <3>1 DEF Pristine
      <3> QED BY <1>1, <3>1, <3>2 DEF AddedInv, MethodsAreKept
    <2> QED BY <2>4, <2>5 DEF MethodsAreKept
  <1> QED BY <1>4, <1>5 DEF AddedInv

-----------------------------------------------------------------------------
(* make generate.                                                          *)

LEMMA GenProtoKeepsFeatures ==
    ASSUME WorkspaceInv, AddedInv, GenProto
    PROVE  AddedInv'
  <1> DEFINE protos ==
                 {n \in inputs : <<"proto", n>> \in tree \ broken /\ rpcs[<<"proto", n>>] # {}}
             pbs == {"pb"} \X protos
  <1>1. /\ job = "none" /\ job' = "proto" /\ tree' = tree \cup pbs
        /\ rpcs' = [f \in DOMAIN rpcs |->
               IF f \in pbs THEN rpcs[<<"proto", f[2]>>] ELSE rpcs[f]]
        /\ UNCHANGED <<edited, broken, inputs, added, fresh>>
    BY DEF GenProto
  <1>2. DOMAIN rpcs = RpcKinds \X Names
    BY DEF WorkspaceInv, TypeOK
  <1>3. \A j, n : j # "pb" => <<j, n>> \notin pbs
    OBVIOUS
  <1>4. \A n \in added : rpcs[<<"proto", n>>] # {} => <<"pb", n>> \in pbs
    BY DEF AddedInv, AddedAreWhole, WorkspaceInv, TypeOK
  <1> HIDE DEF pbs
  <1>5. \A f : f \notin pbs => Steady(f) /\ Stays(f)
    BY <1>1, <1>2 DEF Steady, Stays
  <1>6. \A n : /\ Steady(<<"proto", n>>) /\ Stays(<<"proto", n>>) /\ Steady(<<"usecase", n>>)
              /\ \A f \in FacadeFiles(n) : Stays(f)
    BY <1>3, <1>5 DEF FacadeFiles
  <1>7. \A n \in added : InGen(n)'
    <2>1. SUFFICES ASSUME NEW n \in added PROVE InGen(n)'
      OBVIOUS
    <2>2. <<"proto", n>> \in RpcKinds \X Names
      BY DEF RpcKinds, WorkspaceInv, TypeOK
    <2>3. rpcs'[<<"proto", n>>] = rpcs[<<"proto", n>>]
      BY <1>6, <2>2 DEF Steady
    <2> QED BY <1>1, <1>4, <2>3 DEF InGen
  <1> QED BY <1>1, <1>6, <1>7, FeaturesKept DEF WorkspaceInv, TypeOK

LEMMA GenerateFileKeepsFeatures ==
    ASSUME WorkspaceInv, AddedInv, GenerateFile
    PROVE  AddedInv'
  <1> DEFINE f == Head(todo)
  <1>1. /\ job = "code" /\ job' = "code" /\ todo # <<>>
        /\ UNCHANGED <<inputs, added, fresh>>
    BY DEF GenerateFile
  <1>2. /\ name \in Names /\ \E k \in 0..3 : f = <<Generated[k + 1], name>>
    BY <1>1, NextGenerated
  <1>3. f[1] \in {"service", "usecase", "repo", "wire"} /\ f[2] = name
    <2>1. PICK k \in 0..3 : f = <<Generated[k + 1], name>>
      BY <1>2
    <2>2. k \in {0, 1, 2, 3}
      OBVIOUS
    <2> QED BY <2>1, <2>2, GeneratedAre
  <1>4. CASE UNCHANGED content
    <2>1. UNCHANGED <<tree, edited, broken, rpcs>>
      BY <1>4 DEF content
    <2> QED BY <1>1, <2>1, NoFileChanges
  <1>5. CASE ~UNCHANGED content
    <2>1. /\ tree' = tree \cup {f} /\ edited' = edited \ {f} /\ broken' = broken \ {f}
          /\ IF f[1] \in RpcKinds THEN rpcs' = [rpcs EXCEPT ![f] = rpcs[<<"pb", name>>]]
                                  ELSE rpcs' = rpcs
      BY <1>5 DEF GenerateFile, Write, Declare
    <2>2. rpcs \in [RpcKinds \X Names -> SUBSET Rpcs]
      BY DEF WorkspaceInv, TypeOK
    <2>3. \A g : g # f => Steady(g) /\ Stays(g)
      BY <2>1, <2>2 DEF Steady, Stays
    <2>4. ASSUME NEW n, NEW j, <<j, n>> = f
          PROVE  j \in {"service", "usecase", "repo", "wire"} /\ n = name
      BY <1>3, <2>4
    <2>5. \A n : /\ Steady(<<"proto", n>>) /\ Stays(<<"proto", n>>)
                /\ \A g \in FacadeFiles(n) : Stays(g)
      BY <2>3, <2>4 DEF FacadeFiles
    <2>6. ASSUME NEW n \in added, Pristine(<<"proto", n>>)', <<"usecase", n>> = f
          PROVE  rpcs'[<<"usecase", n>>] = Template
      <3>1. n = name /\ n \in Names /\ f[1] = "usecase"
        BY <1>2, <2>4, <2>6
      <3>2. f \in RpcKinds \X Names /\ f[1] \in RpcKinds
        BY <2>6, <3>1 DEF RpcKinds
      <3>3. rpcs'[f] = rpcs[<<"pb", n>>]
        BY <2>1, <2>2, <3>1, <3>2
      <3>4. Pristine(<<"proto", n>>)
        BY <2>5, <2>6 DEF Stays, Pristine
      <3>5. rpcs[<<"proto", n>>] = Template /\ rpcs[<<"proto", n>>] # {}
        BY <3>1, <3>4, WorkspaceAssumption DEF AddedInv, MethodsAreKept
      <3>6. rpcs[<<"pb", n>>] = rpcs[<<"proto", n>>]
        BY <1>1, <2>6, <3>1, <3>5 DEF WorkspaceInv, GenIsCurrent, AddedInv, AddedAreWhole
      <3> QED BY <2>6, <3>3, <3>5, <3>6
    <2>7. ASSUME NEW n \in added PROVE InGen(n)'
      <3>1. <<"proto", n>> \in RpcKinds \X Names
        BY DEF RpcKinds, WorkspaceInv, TypeOK
      <3>2. rpcs'[<<"proto", n>>] = rpcs[<<"proto", n>>]
        BY <2>5, <3>1 DEF Steady
      <3> QED BY <1>1, <2>1, <3>2 DEF AddedInv, AddedAreWhole, InGen
    <2> HIDE DEF f
    <2> QED BY <1>1, <2>3, <2>5, <2>6, <2>7, FeaturesKept DEF WorkspaceInv, TypeOK
  <1> QED BY <1>4, <1>5

\* The registry and buf.gen.yaml belong to no feature.
LEMMA SharedFiles ==
    \A n : \A j \in FeatureKinds : <<j, n>> # FeaturesGen /\ <<j, n>> # BufGen
  BY KindsAre DEF FeaturesGen, BufGen

\* A step that leaves all files of all features alone but their gluing.
LEMMA GluingKeepsFeatures ==
    ASSUME WorkspaceInv, AddedInv, UNCHANGED <<inputs, added>>, job' = "none",
           \A n : \A j \in FeatureKinds \ {"usecase"} :
               <<j, n>> \notin {<<"service", n>>, <<"repo", n>>, <<"wire", n>>} => Steady(<<j, n>>),
           fresh' => job = "code",
           \A n : Steady(<<"usecase", n>>) \/ ~Pristine(<<"usecase", n>>)'
    PROVE  AddedInv'
  <1>1. ASSUME NEW n PROVE /\ Steady(<<"proto", n>>) /\ Stays(<<"proto", n>>)
                           /\ Stays(<<"pb", n>>)
                           /\ \A f \in FacadeFiles(n) : Stays(f)
    BY KindsAre DEF FacadeFiles, Steady
  <1>2. ASSUME NEW n \in added, fresh' PROVE InGen(n)'
    <2>1. <<"proto", n>> \in RpcKinds \X Names
      BY DEF RpcKinds, WorkspaceInv, TypeOK
    <2>2. rpcs'[<<"proto", n>>] = rpcs[<<"proto", n>>]
      BY <1>1, <2>1 DEF Steady
    <2> QED BY <1>1, <1>2, <2>2 DEF AddedInv, AddedAreWhole, InGen, Stays
  <1> QED BY <1>1, <1>2, FeaturesKept DEF WorkspaceInv, TypeOK

LEMMA RegisterServicesKeepsFeatures ==
    ASSUME WorkspaceInv, AddedInv, RegisterServices
    PROVE  AddedInv'
  <1>1. /\ job = "code" /\ job' = "none" /\ UNCHANGED <<rpcs, inputs, added>>
        /\ \A f : f # FeaturesGen => Stays(f)
    BY DEF RegisterServices, Write, Stays
  <1>2. \A n : \A j \in FeatureKinds : Steady(<<j, n>>)
    BY <1>1, SharedFiles DEF Steady
  <1> QED BY <1>1, <1>2, KindsAre, GluingKeepsFeatures

-----------------------------------------------------------------------------
(* Failures.                                                               *)

LEMMA FailWritingKeepsFeatures ==
    ASSUME WorkspaceInv, AddedInv, FailWriting
    PROVE  AddedInv'
  <1>1. PICK f \in Targets :
            /\ tree' = tree \cup {f} /\ edited' = edited \ {f} /\ broken' = broken \cup {f}
            /\ IF f \in DOMAIN rpcs THEN Declare(f, {}) ELSE UNCHANGED rpcs
            /\ Stop
    BY DEF FailWriting
  <1>2. job' = "none" /\ fresh' = FALSE /\ UNCHANGED <<inputs, added>>
    BY <1>1 DEF Stop
  <1>3. \A g : g # f => Steady(g)
    BY <1>1 DEF Steady, Stays, Declare, WorkspaceInv, TypeOK
  <1>4. ~Pristine(f)'
    BY <1>1 DEF Pristine
  <1>5. CASE job = "add" /\ todo # <<>> /\ f = Head(todo)
    <2>1. PICK k \in 0..7 : Written(k)
      BY <1>5 DEF WorkspaceInv, AddsNewFiles
    <2> QED BY <1>2, <1>3, <1>4, <1>5, <2>1, NewFileKeepsFeatures
  <1>6. CASE f[1] \in {"service", "usecase", "repo", "wire"}
    <2>1. \A n : \A j : <<j, n>> = f => j \in {"service", "usecase", "repo", "wire"}
      BY <1>6
    <2> QED BY <1>2, <1>3, <1>4, <2>1, KindsAre, GluingKeepsFeatures
  <1>7. CASE f \in {BufGen, FeaturesGen}
    <2>1. \A n : \A j \in FeatureKinds : Steady(<<j, n>>)
      BY <1>3, <1>7, SharedFiles
    <2> QED BY <1>2, <2>1, KindsAre, GluingKeepsFeatures
  <1> QED BY <1>5, <1>6, <1>7, TargetsAre

-----------------------------------------------------------------------------
(* The developer.                                                          *)

\* What the developer does ends no tool and adds no feature.
LEMMA DevelopKeepsFeatures ==
    ASSUME WorkspaceInv, AddedInv, Develop, added' \subseteq added,
           \A n \in added' :
               /\ Stays(<<"proto", n>>)
               /\ \/ \A f \in FacadeFiles(n) : Stays(f)
                  \/ FacadeFiles(n) \cap (tree' \cup broken') = {},
           \A n \in Names : Steady(<<"proto", n>>) \/ ~Pristine(<<"proto", n>>)',
           \A n \in added' : Steady(<<"usecase", n>>) \/ ~Pristine(<<"usecase", n>>)'
    PROVE  AddedInv'
  <1>1. job' = "none" /\ fresh' = FALSE /\ UNCHANGED inputs
    BY DEF Develop, run
  <1> QED BY <1>1, FeaturesKept DEF WorkspaceInv, TypeOK

LEMMA EditKeepsFeatures ==
    ASSUME WorkspaceInv, AddedInv, NEW f \in tree,
           Edit(f) \/ \E methods \in SUBSET Rpcs : ChangeMethods(f, methods)
    PROVE  AddedInv'
  <1>1. /\ tree' = tree /\ broken' = broken /\ edited' = edited \cup {f} /\ Develop
        /\ UNCHANGED added
        /\ rpcs' = rpcs \/ \E methods \in SUBSET Rpcs : rpcs' = [rpcs EXCEPT ![f] = methods]
    BY DEF Edit, ChangeMethods, Declare
  <1>2. rpcs \in [RpcKinds \X Names -> SUBSET Rpcs]
    BY DEF WorkspaceInv, TypeOK
  <1>3. \A g : Stays(g)
    BY <1>1 DEF Stays
  <1>4. \A g : g # f => Steady(g)
    BY <1>1, <1>2, <1>3 DEF Steady
  <1>5. ~Pristine(f)'
    BY <1>1 DEF Pristine
  <1>6. \A g : Steady(g) \/ ~Pristine(g)'
    BY <1>4, <1>5
  <1> QED BY <1>1, <1>3, <1>6, DevelopKeepsFeatures

\* Removing files leaves the others as they are.
LEMMA RemoveIsSteady ==
    ASSUME WorkspaceInv, NEW files, Remove(files)
    PROVE  /\ \A f : f \notin files => Steady(f) /\ Stays(f)
           /\ \A f : f \in files => f \notin tree' \cup broken'
           /\ \A f : Steady(f) \/ ~Pristine(f)'
  <1>1. /\ tree' = tree \ files /\ edited' = edited \ files /\ broken' = broken \ files
        /\ rpcs' = [f \in DOMAIN rpcs |-> IF f \in files THEN {} ELSE rpcs[f]]
    BY DEF Remove
  <1>2. DOMAIN rpcs = RpcKinds \X Names
    BY DEF WorkspaceInv, TypeOK
  <1>3. \A f : f \notin files => Steady(f) /\ Stays(f)
    BY <1>1, <1>2 DEF Steady, Stays
  <1>4. \A f : f \in files => f \notin tree' \cup broken'
    BY <1>1
  <1>5. \A f : f \in files => ~Pristine(f)'
    BY <1>1 DEF Pristine
  <1> QED BY <1>3, <1>4, <1>5

LEMMA RepairKeepsFeatures ==
    ASSUME WorkspaceInv, AddedInv, NEW f \in tree, Repair(f)
    PROVE  AddedInv'
  <1>1. f \in broken /\ Develop /\ UNCHANGED added
    BY DEF Repair
  <1>2. /\ \A g : g # f => Steady(g) /\ Stays(g)
        /\ f # BufGen => ~Pristine(f)'
    <2>1. CASE f = BufGen
      <3>1. broken' = broken \ {f} /\ UNCHANGED <<tree, edited, rpcs>>
        BY <2>1 DEF Repair
      <3> QED BY <2>1, <3>1 DEF Steady, Stays
    <2>2. CASE f # BufGen
      <3>1. Remove({f})
        BY <2>2 DEF Repair
      <3> QED BY <3>1, RemoveIsSteady DEF Pristine
    <2> QED BY <2>1, <2>2
  <1>3. ASSUME NEW n \in added
        PROVE  Stays(<<"proto", n>>) /\ \A g \in FacadeFiles(n) : Stays(g)
    <2>1. <<"proto", n>> \notin broken /\ FacadeFiles(n) \cap broken = {}
      BY DEF AddedInv, AddedAreWhole, FacadeFiles
    <2> QED BY <1>1, <1>2, <2>1
  <1>4. ASSUME NEW n, NEW j \in FeatureKinds
        PROVE  Steady(<<j, n>>) \/ ~Pristine(<<j, n>>)'
    BY <1>2, SharedFiles
  <1> QED BY <1>1, <1>3, <1>4, KindsAre, DevelopKeepsFeatures

LEMMA DropFacadeKeepsFeatures ==
    ASSUME WorkspaceInv, AddedInv, NEW n \in Names, DropFacade(n)
    PROVE  AddedInv'
  <1>1. Remove(FacadeFiles(n)) /\ Develop /\ UNCHANGED added
    <2>1. {<<"facade", n>>, <<"wire_bind", n>>, <<"ports", n>>} = FacadeFiles(n)
      BY DEF FacadeFiles
    <2> QED BY <2>1 DEF DropFacade
  <1>2. \A m : <<"proto", m>> \notin FacadeFiles(n)
    BY DEF FacadeFiles
  <1>3. \A m : m # n => FacadeFiles(m) \cap FacadeFiles(n) = {}
    BY DEF FacadeFiles
  <1>4. \A m : \/ \A f \in FacadeFiles(m) : Stays(f)
              \/ FacadeFiles(m) \cap (tree' \cup broken') = {}
    BY <1>1, <1>3, RemoveIsSteady
  <1> QED BY <1>1, <1>2, <1>4, RemoveIsSteady, DevelopKeepsFeatures

LEMMA DiscardKeepsFeatures ==
    ASSUME WorkspaceInv, AddedInv, NEW n \in Names, Discard(n)
    PROVE  AddedInv'
  <1> DEFINE files == (FilesOf(n) \ {<<"pb", n>>}) \cup {<<"schema", Table(n)>>}
                          \cup {f \in Migrations : f[2][1] = Table(n)}
  <1>1. Remove(files) /\ Develop /\ added' = added \ {n}
    BY DEF Discard
  <1>2. ASSUME NEW m, m # n, NEW j \in FeatureKinds PROVE <<j, m>> \notin files
    <2>1. <<j, m>>[1] = j /\ <<j, m>>[2] = m
      OBVIOUS
    <2>2. <<j, m>> \notin FilesOf(n)
      BY <1>2 DEF FilesOf
    <2>3. <<j, m>> # <<"schema", Table(n)>> /\ <<j, m>> \notin Migrations
      BY <2>1, KindsAre DEF Migrations
    <2> QED BY <2>2, <2>3
  <1> HIDE DEF files
  <1>3. ASSUME NEW m \in added'
        PROVE  Stays(<<"proto", m>>) /\ \A f \in FacadeFiles(m) : Stays(f)
    <2>1. m # n
      BY <1>1
    <2> QED BY <1>1, <1>2, <2>1, KindsAre, RemoveIsSteady DEF FacadeFiles
  <1> QED BY <1>1, <1>3, RemoveIsSteady, DevelopKeepsFeatures

LEMMA CleanKeepsFeatures ==
    ASSUME WorkspaceInv, AddedInv, Clean
    PROVE  AddedInv'
  <1> DEFINE files == {"pb"} \X Names
  <1>1. Remove(files) /\ Develop /\ UNCHANGED added
    BY DEF Clean
  <1>2. \A n : <<"proto", n>> \notin files /\ FacadeFiles(n) \cap files = {}
    BY DEF FacadeFiles
  <1> HIDE DEF files
  <1>3. \A n : Stays(<<"proto", n>>) /\ \A f \in FacadeFiles(n) : Stays(f)
    BY <1>1, <1>2, RemoveIsSteady
  <1> QED BY <1>1, <1>3, RemoveIsSteady, DevelopKeepsFeatures

-----------------------------------------------------------------------------
(* Theorems.                                                               *)

\* The part of the invariant that is about new features holds, too.
THEOREM FeaturesInvariance == Spec => []AddedInv
  <1>1. Init => AddedInv
    BY DEF Init, AddedInv, AddedAreWhole, MethodsAreKept, Pristine, BufGen
  <1>2. ASSUME WorkspaceInv, AddedInv, [Next]_vars PROVE AddedInv'
    <2>1. CASE \E n \in Names : StartAdd(n)
      BY <1>2, <2>1, StartAddKeepsFeatures
    <2>2. CASE WriteNewFile
      BY <1>2, <2>2, WriteNewFileKeepsFeatures
    <2>3. CASE FinishAdd
      BY <1>2, <2>3, FinishAddKeepsFeatures
    <2>4. CASE GenProto
      BY <1>2, <2>4, GenProtoKeepsFeatures
    <2>5. CASE Scan \/ \E n \in Names : NextService(n)
      <3>1. /\ job \in {"proto", "code"} /\ job' = "code"
            /\ UNCHANGED <<tree, edited, broken, rpcs, inputs, added, fresh>>
        BY <2>5 DEF Scan, NextService, content
      <3> QED BY <1>2, <3>1, NoFileChanges
    <2>6. CASE GenerateFile
      BY <1>2, <2>6, GenerateFileKeepsFeatures
    <2>7. CASE RegisterServices
      BY <1>2, <2>7, RegisterServicesKeepsFeatures
    <2>8. CASE Fail
      <3>1. /\ job' = "none" /\ fresh' = FALSE
            /\ UNCHANGED <<tree, edited, broken, rpcs, inputs, added>>
        BY <2>8 DEF Fail, Stop, content
      <3> QED BY <1>2, <3>1, NoFileChanges
    <2>9. CASE FailWriting
      BY <1>2, <2>9, FailWritingKeepsFeatures
    <2>10. CASE \E f \in tree : Edit(f) \/ Repair(f)
      BY <1>2, <2>10, EditKeepsFeatures, RepairKeepsFeatures
    <2>11. CASE \E f \in tree, methods \in SUBSET Rpcs : ChangeMethods(f, methods)
      BY <1>2, <2>11, EditKeepsFeatures
    <2>12. CASE \E n \in Names : DropFacade(n) \/ Discard(n)
      BY <1>2, <2>12, DropFacadeKeepsFeatures, DiscardKeepsFeatures
    <2>13. CASE Clean
      BY <1>2, <2>13, CleanKeepsFeatures
    <2>14. CASE UNCHANGED vars
      <3>1. UNCHANGED <<tree, edited, broken, rpcs, inputs, added, fresh, job, name>>
        BY <2>14 DEF vars, content, run
      <3> QED BY <1>2, <3>1, NoFileChanges DEF AddedInv, AddedAreWhole
    <2> QED BY <1>2, <2>1, <2>2, <2>3, <2>4, <2>5, <2>6, <2>7, <2>8, <2>9, <2>10, <2>11,
               <2>12, <2>13, <2>14 DEF Next, Tool, Developer
  <1> QED BY <1>1, <1>2, Invariance, PTL DEF Spec

\* A feature add-feature has created needs no more than make generate, also
\* after failed runs and edits.
THEOREM AddedFeaturesBuild == Spec => []AddedFeatureBuilds
  <1>1. WorkspaceInv /\ AddedInv => AddedFeatureBuilds
    <2>1. SUFFICES ASSUME WorkspaceInv, AddedInv, fresh, NEW n \in added,
                          CreatedOnce(n) \cap broken = {},
                          <<"wire_bind", n>> \in tree => PortsCompile,
                          \/ {<<"proto", n>>, <<"usecase", n>>} \cap edited = {}
                          \/ rpcs[<<"proto", n>>] # {} /\ rpcs[<<"proto", n>>] \subseteq rpcs[<<"usecase", n>>]
                   PROVE  n \in registry /\ Builds(n)
      BY DEF AddedFeatureBuilds
    <2>2. /\ n \in Names /\ inputs = Names /\ <<"proto", n>> \in tree \ broken
          /\ FacadeFiles(n) \cap broken = {}
          /\ <<"facade", n>> \in tree <=> <<"wire_bind", n>> \in tree
          /\ <<"facade", n>> \in tree => <<"ports", n>> \in tree
      BY <2>1 DEF WorkspaceInv, TypeOK, AddedInv, AddedAreWhole, FacadeFiles
    <2>3. rpcs[<<"proto", n>>] # {}
      <3>1. CASE {<<"proto", n>>, <<"usecase", n>>} \cap edited = {}
        <4>1. Pristine(<<"proto", n>>)
          BY <2>2, <3>1 DEF Pristine
        <4> QED BY <2>1, <2>2, <4>1, WorkspaceAssumption DEF AddedInv, MethodsAreKept
      <3> QED BY <2>1, <3>1
    <2>4. n \in Found
      BY <2>1, <2>2, <2>3 DEF AddedInv, AddedAreWhole, InGen, Found
    <2>5. /\ n \in registry
          /\ \A i \in 1..4 : <<Generated[i], n>> \in tree
          /\ {<<"service", n>>, <<"wire", n>>} \cap broken = {}
          /\ rpcs[<<"service", n>>] = rpcs[<<"pb", n>>]
          /\ n \in binding <=> <<"facade", n>> \in tree
      BY <2>1, <2>4, GeneratedAre DEF WorkspaceInv, GlueIsRebuilt
    <2>6. {<<"service", n>>, <<"usecase", n>>, <<"repo", n>>, <<"wire", n>>} \subseteq tree
      BY <2>5, GeneratedAre
    <2>7. rpcs[<<"pb", n>>] = rpcs[<<"proto", n>>]
      BY <2>1, <2>2, <2>3 DEF WorkspaceInv, GenIsCurrent
    <2>8. <<"usecase", n>> \notin broken /\ <<"repo", n>> \notin broken
      BY <2>1 DEF CreatedOnce
    <2>9. rpcs[<<"proto", n>>] \subseteq rpcs[<<"usecase", n>>]
      <3>1. CASE {<<"proto", n>>, <<"usecase", n>>} \cap edited = {}
        <4>1. Pristine(<<"proto", n>>) /\ Pristine(<<"usecase", n>>)
          BY <2>2, <2>6, <2>8, <3>1 DEF Pristine
        <4> QED BY <2>1, <2>2, <4>1 DEF AddedInv, MethodsAreKept
      <3> QED BY <2>1, <3>1
    <2>10. {<<k, n>> : k \in {"service", "usecase", "repo", "wire", "facade", "wire_bind"}}
               \cap broken = {}
      BY <2>2, <2>5, <2>8 DEF FacadeFiles
    <2>11. <<"pb", n>> \in tree
      BY <2>4 DEF Found
    <2> QED BY <2>1, <2>2, <2>5, <2>6, <2>7, <2>9, <2>10, <2>11 DEF Builds
  <1> QED BY <1>1, Invariance, FeaturesInvariance, PTL

-----------------------------------------------------------------------------
(* make generate again.                                                    *)

\* What make generate has written, it has written over whatever was there; a
\* service.go with work in it is one codegen has yet to come to.
NothingIsStale ==
    /\ \A f \in edited : f[1] \notin {"wire", "features_gen"}
    /\ job = "code" =>
           \A n \in services \ queue : <<"service", n>> \in edited =>
               todo # <<>> /\ Head(todo) = <<"service", n>>
    /\ fresh => \A n \in Found : <<"service", n>> \notin edited

\* Nothing is fresh and codegen is not running.
LEMMA NothingToSay ==
    ASSUME NothingIsStale, fresh' = FALSE, job' # "code",
           \A f \in edited' \ edited : f[1] \notin {"wire", "features_gen"}
    PROVE  NothingIsStale'
  BY DEF NothingIsStale

\* What codegen does for its next file.
LEMMA GenerateFileDoes ==
    ASSUME WorkspaceInv, GenerateFile
    PROVE  LET f == Head(todo)
           IN  /\ job = "code" /\ job' = "code" /\ todo # <<>> /\ name \in services
               /\ UNCHANGED <<registry, fresh, queue, services>>
               /\ f[1] \in {"service", "usecase", "repo", "wire"} /\ f = <<f[1], name>>
               /\ \E i \in 1..4 : f = <<Generated[i], name>>
               /\ Found' = Found
               /\ f[1] \in Rewritten => edited' = edited \ {f}
               /\ edited' \subseteq edited
  <1> DEFINE f == Head(todo)
  <1>1. /\ job = "code" /\ job' = "code" /\ todo # <<>>
        /\ UNCHANGED <<registry, fresh, queue, services>>
        /\ tree' = tree \cup {f} \/ tree' = tree
        /\ f[1] \in Rewritten => edited' = edited \ {f}
        /\ edited' \subseteq edited
    BY DEF GenerateFile, content, Write, Skips
  <1>2. name \in services /\ \E k \in 0..3 : f = <<Generated[k + 1], name>>
    BY <1>1, NextGenerated
  <1>3. PICK k \in 0..3 : f = <<Generated[k + 1], name>>
    BY <1>2
  <1>4. k + 1 \in {1, 2, 3, 4} /\ k + 1 \in 1..4
    OBVIOUS
  <1>5. f[1] \in {"service", "usecase", "repo", "wire"} /\ f = <<f[1], name>>
    BY <1>3, <1>4, GeneratedAre
  <1>6. \E i \in 1..4 : f = <<Generated[i], name>>
    BY <1>3, <1>4
  <1> HIDE DEF f
  <1>7. Found' = Found
    <2>1. \A n : <<"pb", n>> # f
      BY <1>5
    <2> QED BY <1>1, <2>1 DEF Found
  <1> QED BY <1>1, <1>2, <1>5, <1>6, <1>7 DEF f

\* If nothing has happened since the last run, the protos there are have all
\* been found.
LEMMA BufFindsNothingNew ==
    ASSUME WorkspaceInv, GenProto, fresh
    PROVE  tree' = tree /\ rpcs' = rpcs
  <1> DEFINE protos ==
                 {n \in inputs : <<"proto", n>> \in tree \ broken /\ rpcs[<<"proto", n>>] # {}}
             pbs == {"pb"} \X protos
  <1>1. /\ tree' = tree \cup pbs
        /\ rpcs' = [f \in DOMAIN rpcs |->
               IF f \in pbs THEN rpcs[<<"proto", f[2]>>] ELSE rpcs[f]]
    BY DEF GenProto
  <1>2. \A n \in protos : <<"pb", n>> \in tree /\ rpcs[<<"pb", n>>] = rpcs[<<"proto", n>>]
    BY DEF WorkspaceInv, GenIsCurrent
  <1>3. ASSUME NEW f \in pbs PROVE f \in tree /\ rpcs[<<"proto", f[2]>>] = rpcs[f]
    <2>1. PICK n \in protos : f = <<"pb", n>>
      OBVIOUS
    <2>2. f[2] = n
      BY <2>1
    <2> QED BY <1>2, <2>1, <2>2
  <1> HIDE DEF pbs
  <1>4. tree' = tree
    BY <1>1, <1>3
  <1>5. rpcs' = [f \in DOMAIN rpcs |-> rpcs[f]]
    BY <1>1, <1>3
  <1> QED BY <1>4, <1>5 DEF WorkspaceInv, TypeOK

LEMMA StepsKeepNothingStale ==
    ASSUME WorkspaceInv, NothingIsStale, [Next]_vars
    PROVE  NothingIsStale'
  <1>1. CASE \E n \in Names : StartAdd(n)
    <2>1. fresh' = FALSE /\ job' = "add" /\ edited' = edited
      BY <1>1 DEF StartAdd, content
    <2> QED BY <2>1, NothingToSay
  <1>2. CASE WriteNewFile \/ FinishAdd
    <2>1. ~fresh' /\ job' # "code" /\ edited' \subseteq edited
      BY <1>2 DEF WriteNewFile, FinishAdd, Write, content, WorkspaceInv, AddsNewFiles
    <2>2. fresh' = FALSE
      BY <1>2, <2>1 DEF WriteNewFile, FinishAdd, WorkspaceInv, TypeOK
    <2> QED BY <2>1, <2>2, NothingToSay
  <1>3. CASE GenProto
    <2>1. job' = "proto" /\ UNCHANGED <<edited, registry, fresh>>
      BY <1>3 DEF GenProto, output
    <2>2. fresh => tree' = tree
      BY <1>3, BufFindsNothingNew
    <2> QED BY <2>1, <2>2 DEF NothingIsStale, Found
  <1>4. CASE Scan
    <2>1. /\ job' = "code" /\ queue' = services'
          /\ UNCHANGED <<tree, edited, registry, fresh>>
      BY <1>4 DEF Scan, content, output
    <2> QED BY <2>1 DEF NothingIsStale, Found
  <1>5. CASE \E n \in Names : NextService(n)
    <2>1. PICK n \in Names : NextService(n)
      BY <1>5
    <2>2. /\ job = "code" /\ job' = "code" /\ todo = <<>> /\ queue' = queue \ {n}
          /\ todo' = [i \in 1..4 |-> <<Generated[i], n>>]
          /\ UNCHANGED <<tree, edited, registry, fresh, services>>
      BY <2>1, GeneratedAre DEF NextService, content, output
    <2>3. todo' # <<>> /\ Head(todo') = <<"service", n>>
      BY <2>2, GeneratedAre
    <2>4. \A m \in services' \ queue' : m \in services \ queue \/ m = n
      BY <2>2
    <2> QED BY <2>2, <2>3, <2>4 DEF NothingIsStale, Found
  <1>6. CASE GenerateFile
    <2> DEFINE f == Head(todo)
    <2>1. /\ job = "code" /\ UNCHANGED <<registry, fresh, queue, services>>
          /\ f[1] \in Rewritten => edited' = edited \ {f}
          /\ edited' \subseteq edited /\ Found' = Found
      BY <1>6, GenerateFileDoes
    <2>2. \A n \in services' \ queue' : <<"service", n>> \notin edited'
      <3>1. SUFFICES ASSUME NEW n \in services \ queue, <<"service", n>> \in edited
                     PROVE  <<"service", n>> \notin edited'
        BY <2>1
      <3>2. f = <<"service", n>>
        BY <2>1, <3>1 DEF NothingIsStale
      <3>3. f[1] \in Rewritten
        BY <3>2 DEF Rewritten
      <3> QED BY <2>1, <3>2, <3>3
    <2>3. tree \subseteq tree'
      BY <1>6 DEF GenerateFile, content, Write
    <2> HIDE DEF f
    <2> QED BY <2>1, <2>2, <2>3 DEF NothingIsStale
  <1>7. CASE RegisterServices
    <2>1. /\ job = "code" /\ todo = <<>> /\ queue = {} /\ job' = "none"
          /\ edited' \subseteq edited
          /\ IF services # {} THEN tree' = tree \cup {FeaturesGen} /\ registry' = services
                              ELSE tree' = tree
      BY <1>7 DEF RegisterServices, Write
    <2>2. services = Found
      BY <2>1 DEF WorkspaceInv, CodegenGlues, Found
    <2>3. Found' = Found
      BY <2>1 DEF Found, FeaturesGen
    <2>4. \A n \in services : <<"service", n>> \notin edited
      BY <2>1 DEF NothingIsStale
    <2> QED BY <2>1, <2>2, <2>3, <2>4 DEF NothingIsStale
  <1>8. CASE Fail \/ FailWriting
    <2>1. fresh' = FALSE /\ job' # "code" /\ edited' \subseteq edited
      BY <1>8 DEF Fail, FailWriting, Stop, content
    <2> QED BY <2>1, NothingToSay
  <1>9. CASE Developer
    <2>1. fresh' = FALSE /\ job' # "code"
      BY <1>9 DEF Developer, Edit, Repair, ChangeMethods, DropFacade, Discard, Clean, Develop, run
    <2>2. \A f \in edited' \ edited : f[1] \notin {"wire", "features_gen"}
      BY <1>9 DEF Developer, Edit, Repair, ChangeMethods, DropFacade, Discard, Clean, Remove
    <2> QED BY <2>1, <2>2, NothingToSay
  <1>10. CASE UNCHANGED vars
    BY <1>10 DEF vars, content, output, run, NothingIsStale, Found
  <1> QED BY <1>1, <1>2, <1>3, <1>4, <1>5, <1>6, <1>7, <1>8, <1>9, <1>10 DEF Next, Tool

\* codegen writes what is there already.
LEMMA CodegenRepeatsItself ==
    ASSUME WorkspaceInv, NothingIsStale, fresh, GenerateFile
    PROVE  UNCHANGED <<tree, edited, broken, rpcs, binding>>
  <1> DEFINE f == Head(todo)
  <1>1. /\ name \in services /\ name \in Names /\ <<"pb", name>> \in tree /\ job = "code"
        /\ f[1] \in {"service", "usecase", "repo", "wire"} /\ f = <<f[1], name>>
        /\ \E i \in 1..4 : f = <<Generated[i], name>>
    BY GenerateFileDoes DEF WorkspaceInv, CodegenGlues
  <1>2. /\ \A i \in 1..4 : <<Generated[i], name>> \in tree
        /\ {<<"service", name>>, <<"wire", name>>} \cap broken = {}
        /\ rpcs[<<"service", name>>] = rpcs[<<"pb", name>>]
        /\ name \in binding <=> <<"facade", name>> \in tree
    BY <1>1, GeneratedAre DEF WorkspaceInv, GlueIsRebuilt, Found
  <1>3. f \in tree
    BY <1>1, <1>2
  <1>4. CASE f[1] \in Rewritten
    <2>1. f = <<"service", name>> \/ f = <<"wire", name>>
      BY <1>1, <1>4 DEF Rewritten
    <2>2. f \notin broken
      BY <1>2, <2>1
    <2>3. f \notin edited
      BY <1>1, <2>1 DEF NothingIsStale, Found
    <2>4. /\ Write(f)
          /\ IF f[1] \in RpcKinds THEN Declare(f, rpcs[<<"pb", name>>]) ELSE UNCHANGED rpcs
          /\ binding' = IF f[1] # "wire" THEN binding
                        ELSE IF <<"facade", name>> \in tree THEN binding \cup {name}
                        ELSE binding \ {name}
      BY <1>4 DEF GenerateFile, Skips
    <2>5. rpcs' = rpcs
      <3>1. CASE f = <<"service", name>>
        <4>1. rpcs' = [rpcs EXCEPT ![<<"service", name>>] = rpcs[<<"service", name>>]]
          BY <1>2, <2>4, <3>1 DEF Declare, RpcKinds
        <4> QED BY <4>1 DEF WorkspaceInv, TypeOK
      <3>2. CASE f = <<"wire", name>>
        <4>1. f[1] \notin RpcKinds
          BY <3>2 DEF RpcKinds
        <4> QED BY <2>4, <4>1
      <3> QED BY <2>1, <3>1, <3>2
    <2>6. binding' = binding
      BY <1>2, <2>4
    <2> QED BY <1>3, <2>2, <2>3, <2>4, <2>5, <2>6 DEF Write
  <1>5. CASE f[1] \notin Rewritten
    BY <1>3, <1>5 DEF GenerateFile, Skips, content
  <1> QED BY <1>4, <1>5

\* make generate is reproducible, for any features, after any failures and edits.
THEOREM GenerationIsRepeatable == Spec => GeneratingAgainChangesNothing
  <1> DEFINE Same == fresh /\ fresh' => UNCHANGED <<content, output>>
  <1>1. Init => NothingIsStale
    BY DEF Init, NothingIsStale
  <1>2. ASSUME WorkspaceInv, NothingIsStale, [Next]_vars PROVE Same
    <2>1. SUFFICES ASSUME fresh, fresh'
                   PROVE  UNCHANGED <<tree, edited, broken, rpcs, binding, registry>>
      BY DEF content, output
    <2>2. CASE GenProto
      BY <1>2, <2>1, <2>2, BufFindsNothingNew DEF GenProto, output
    <2>3. CASE Scan \/ \E n \in Names : NextService(n)
      BY <2>3 DEF Scan, NextService, content, output
    <2>4. CASE GenerateFile
      BY <1>2, <2>1, <2>4, CodegenRepeatsItself DEF GenerateFile
    <2>5. CASE RegisterServices
      <3>1. services = Found
        BY <1>2, <2>5 DEF RegisterServices, WorkspaceInv, CodegenGlues, Found
      <3>2. CASE services = {}
        BY <2>5, <3>2 DEF RegisterServices
      <3>3. CASE services # {}
        <4>1. FeaturesGen \in tree /\ registry = services
          BY <1>2, <2>1, <3>1, <3>3 DEF WorkspaceInv, GlueIsRebuilt
        <4>2. FeaturesGen \notin broken
          BY <1>2, <2>1, <3>1, <3>3 DEF WorkspaceInv, GlueIsRebuilt
        <4>3. FeaturesGen \notin edited
          BY <1>2 DEF NothingIsStale, FeaturesGen
        <4> QED BY <2>5, <3>3, <4>1, <4>2, <4>3 DEF RegisterServices, Write
      <3> QED BY <3>2, <3>3
    <2>6. CASE \/ (\E n \in Names : StartAdd(n)) \/ WriteNewFile \/ FinishAdd
               \/ Fail \/ FailWriting \/ Developer
      <3>1. ~fresh'
        BY <1>2, <2>6 DEF StartAdd, WriteNewFile, FinishAdd, Fail, FailWriting, Stop,
                          Developer, Edit, Repair, ChangeMethods, DropFacade, Discard, Clean,
                          Develop, WorkspaceInv, AddsNewFiles
      <3> QED BY <2>1, <3>1
    <2>7. CASE UNCHANGED vars
      BY <2>7 DEF vars, content, output
    <2> QED BY <1>2, <2>2, <2>3, <2>4, <2>5, <2>6, <2>7 DEF Next, Tool
  <1>3. WorkspaceInv /\ NothingIsStale /\ [Next]_vars => NothingIsStale' /\ [Same]_vars
    BY <1>2, StepsKeepNothingStale
  <1> QED BY <1>1, <1>3, Invariance, PTL DEF Spec, GeneratingAgainChangesNothing

=============================================================================
