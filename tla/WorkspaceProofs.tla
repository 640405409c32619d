-------------------------- MODULE WorkspaceProofs ---------------------------
(***************************************************************************)
(* Proofs about Workspace, for any names, methods and numbers of edits and *)
(* failures.                                                               *)
(***************************************************************************)
EXTENDS Workspace, SequenceTheorems, TLAPS

-----------------------------------------------------------------------------
(* The inductive invariant.                                                *)

\* What is left of the first m items of a list when k are done.
Rest(s, list, m, k) == s = [i \in 1..(m - k) |-> list[i + k]]

\* A tool that does not run has nothing left to do.
IdleTools ==
    /\ job \in {"none", "proto"} => name = <<>> /\ todo = <<>>

\* add-feature has written the first k of its files and found none of the others,
\* nor, until it has written the last one, a migration of their table.
Written(k) ==
    /\ Rest(todo, NewFiles(name, clock), 7, k)
    /\ \A i \in 1..7 : i <= k => NewFiles(name, clock)[i] \in tree \ broken
    /\ \A i \in 1..7 : i > k => NewFiles(name, clock)[i] \notin tree
    /\ k < 7 => \A f \in Migrations : f[2][1] # Table(name)

AddsNewFiles == job = "add" => ~fresh /\ name \in Names /\ \E k \in 0..7 : Written(k)

\* A migration comes after the schema of its table, which keeps the next one away.
MigrationsHaveSchemas == \A f \in Migrations : <<"schema", f[2][1]>> \in tree \ broken

\* gen/ says what the protos say, while codegen runs and after it succeeded.
GenIsCurrent ==
    fresh \/ job \in {"proto", "code"} =>
        \A n \in inputs :
            <<"proto", n>> \in tree \ broken /\ rpcs[<<"proto", n>>] # {} =>
                <<"pb", n>> \in tree /\ rpcs[<<"pb", n>>] = rpcs[<<"proto", n>>]

\* What codegen has done for a service after so many of its files.
Glued(n, k) ==
    /\ \A i \in 1..4 : i <= k => <<Generated[i], n>> \in tree
    /\ k >= 1 => <<"service", n>> \notin broken /\ rpcs[<<"service", n>>] = rpcs[<<"pb", n>>]
    /\ k >= 4 => <<"wire", n>> \notin broken /\ (n \in binding <=> <<"facade", n>> \in tree)

CodegenGlues ==
    job = "code" =>
        /\ services = {n \in Names : <<"pb", n>> \in tree}
        /\ queue \subseteq services
        /\ \A n \in services : n \notin queue /\ n # name => Glued(n, 4)
        /\ name = <<>> => todo = <<>>
        /\ name # <<>> =>
            /\ name \in services
            /\ \E k \in 0..4 :
                /\ Rest(todo, [i \in 1..4 |-> <<Generated[i], name>>], 4, k)
                /\ Glued(name, k)

WorkspaceInv ==
    /\ TypeOK
    /\ OneMigrationPerTable
    /\ GlueIsRebuilt
    /\ IdleTools
    /\ AddsNewFiles
    /\ MigrationsHaveSchemas
    /\ GenIsCurrent
    /\ CodegenGlues

-----------------------------------------------------------------------------
(* Facts about files.                                                      *)

\* The head of what is left, and what is left then.
LEMMA NextItem ==
    ASSUME NEW S, NEW s \in Seq(S), NEW m \in Nat, NEW k \in 0..m, NEW g,
           Rest(s, g, m, k), s # <<>>
    PROVE  k + 1 \in 1..m /\ Head(s) = g[k + 1] /\ Rest(Tail(s), g, m, k + 1)
  <1>1. s = [i \in 1..(m - k) |-> g[i + k]] /\ Len(s) = m - k
    BY DEF Rest
  <1>2. k < m
    BY <1>1
  <1>3. /\ Tail(s) \in Seq(S) /\ Len(Tail(s)) = m - (k + 1)
        /\ \A i \in 1..Len(Tail(s)) : Tail(s)[i] = s[i + 1]
    <2>1. /\ Tail(s) \in Seq(S) /\ Len(Tail(s)) = Len(s) - 1
          /\ \A i \in 1..Len(Tail(s)) : Tail(s)[i] = s[i + 1]
      BY HeadTailProperties
    <2>2. Len(s) - 1 = m - (k + 1)
      BY <1>1
    <2> QED BY <2>1, <2>2
  <1>4. \A i \in 1..(m - (k + 1)) : Tail(s)[i] = g[i + (k + 1)]
    <2>1. SUFFICES ASSUME NEW i \in 1..(m - (k + 1)) PROVE Tail(s)[i] = g[i + (k + 1)]
      OBVIOUS
    <2>2. Tail(s)[i] = s[i + 1]
      BY <1>3
    <2>3. i + 1 \in 1..(m - k) /\ (i + 1) + k = i + (k + 1)
      BY <1>2
    <2> QED BY <1>1, <2>2, <2>3
  <1>5. Tail(s) = [i \in 1..(m - (k + 1)) |-> Tail(s)[i]]
    BY <1>3, LenProperties
  <1>6. Head(s) = g[k + 1]
    BY <1>1, <1>2
  <1> QED BY <1>2, <1>4, <1>5, <1>6 DEF Rest

LEMMA NewFilesAre ==
    ASSUME NEW n, NEW s
    PROVE  /\ Len(NewFiles(n, s)) = 7
           /\ NewFiles(n, s)[1] = <<"proto", n>>
           /\ NewFiles(n, s)[2] = <<"reason", n>>
           /\ NewFiles(n, s)[3] = <<"ports", n>>
           /\ NewFiles(n, s)[4] = <<"facade", n>>
           /\ NewFiles(n, s)[5] = <<"wire_bind", n>>
           /\ NewFiles(n, s)[6] = <<"schema", Table(n)>>
           /\ NewFiles(n, s)[7] = <<"migration", <<Table(n), s>>>>
  BY DEF NewFiles

LEMMA GeneratedAre ==
    /\ Len(Generated) = 4
    /\ Generated[1] = "service" /\ Generated[2] = "usecase"
    /\ Generated[3] = "repo" /\ Generated[4] = "wire"
  BY DEF Generated

LEMMA PathsAre ==
    /\ \A k \in FeatureKinds, n \in Names : <<k, n>> \in Path
    /\ \A n \in Names : <<"schema", Table(n)>> \in Path
    /\ \A n \in Names, s \in 0..LastSecond : <<"migration", <<Table(n), s>>>> \in Path
    /\ BufGen \in Path /\ FeaturesGen \in Path
    /\ \A f \in Path : f[1] = "migration" =>
           \E t \in Tables, s \in 0..LastSecond : f = <<"migration", <<t, s>>>>
  <1>1. \A f \in Path : f[1] = "migration" =>
            \E t \in Tables, s \in 0..LastSecond : f = <<"migration", <<t, s>>>>
    <2>1. SUFFICES ASSUME NEW f \in Path, f[1] = "migration"
                   PROVE  \E t \in Tables, s \in 0..LastSecond : f = <<"migration", <<t, s>>>>
      OBVIOUS
    <2>2. \/ f \in FeatureKinds \X Names \/ f \in {"schema"} \X Tables
          \/ f \in {"migration"} \X (Tables \X (0..LastSecond))
          \/ f = BufGen \/ f = FeaturesGen
      BY DEF Path
    <2>3. f \notin FeatureKinds \X Names
      BY <2>1 DEF FeatureKinds, RpcKinds
    <2>4. f \notin {"schema"} \X Tables
      BY <2>1
    <2>5. BufGen[1] = "buf.gen" /\ FeaturesGen[1] = "features_gen"
      BY DEF BufGen, FeaturesGen
    <2> QED BY <2>1, <2>2, <2>3, <2>4, <2>5
  <1>2. /\ \A k \in FeatureKinds, n \in Names : <<k, n>> \in Path
        /\ BufGen \in Path /\ FeaturesGen \in Path
    BY DEF Path
  <1>3. \A n \in Names : Table(n) \in Tables
    BY DEF Tables
  <1>4. \A t \in Tables, s \in 0..LastSecond :
            <<"migration", <<t, s>>>> \in Path
    BY DEF Path
  <1>5. \A t \in Tables : <<"schema", t>> \in Path
    BY DEF Path
  <1>6. \A n \in Names : <<"schema", Table(n)>> \in Path
    BY <1>3, <1>5
  <1>7. \A n \in Names, s \in 0..LastSecond : <<"migration", <<Table(n), s>>>> \in Path
    BY <1>3, <1>4
  <1> QED BY <1>1, <1>2, <1>6, <1>7

LEMMA KindsAre ==
    FeatureKinds = {"proto", "pb", "service", "usecase", "reason", "ports", "facade",
                    "wire_bind", "repo", "wire"}
  BY DEF FeatureKinds, RpcKinds

\* The files add-feature writes are files, and all different.
LEMMA NewFilesAreNew ==
    ASSUME NEW n \in Names, NEW s \in 0..LastSecond
    PROVE  /\ \A i \in 1..7 : NewFiles(n, s)[i] \in Path
           /\ \A i, j \in 1..7 : NewFiles(n, s)[i] = NewFiles(n, s)[j] => i = j
           /\ NewFiles(n, s) \in Seq(Path)
  <1>1. \A i \in 1..7 : NewFiles(n, s)[i] \in Path
    <2>1. SUFFICES ASSUME NEW i \in 1..7 PROVE NewFiles(n, s)[i] \in Path
      OBVIOUS
    <2>2. i \in {1, 2, 3, 4, 5, 6, 7}
      BY <2>1
    <2> QED BY <2>2, NewFilesAre, PathsAre, KindsAre
  <1>2. ASSUME NEW i \in 1..7, NEW j \in 1..7, NewFiles(n, s)[i] = NewFiles(n, s)[j]
        PROVE  i = j
    <2>1. i \in {1, 2, 3, 4, 5, 6, 7} /\ j \in {1, 2, 3, 4, 5, 6, 7}
      OBVIOUS
    <2>2. NewFiles(n, s)[i][1] = NewFiles(n, s)[j][1]
      BY <1>2
    <2> QED BY <2>1, <2>2, NewFilesAre
  <1>3. NewFiles(n, s) = [i \in 1..7 |-> NewFiles(n, s)[i]]
    BY DEF NewFiles
  <1> QED BY <1>1, <1>2, <1>3

\* A tool that has ended, with success or without, leaves nothing to say of its
\* progress, and what make generate left behind may be out of date.
LEMMA NothingRuns ==
    ASSUME job' = "none", fresh' = FALSE, name' = <<>>, todo' = <<>>
    PROVE  GlueIsRebuilt' /\ IdleTools' /\ AddsNewFiles' /\ GenIsCurrent' /\ CodegenGlues'
  BY DEF GlueIsRebuilt, IdleTools, AddsNewFiles, GenIsCurrent, CodegenGlues

\* Migrations that have their schemas still are one for each table.
LEMMA MigrationsKept ==
    ASSUME OneMigrationPerTable, MigrationsHaveSchemas, Migrations' \subseteq Migrations,
           \A f \in Migrations' : <<"schema", f[2][1]>> \in tree \ broken
               => <<"schema", f[2][1]>> \in tree' \ broken'
    PROVE  OneMigrationPerTable' /\ MigrationsHaveSchemas'
  BY DEF OneMigrationPerTable, MigrationsHaveSchemas

-----------------------------------------------------------------------------
(* scaffold add-feature.                                                   *)

LEMMA StartAddKeeps ==
    ASSUME WorkspaceInv, NEW n \in Names, StartAdd(n)
    PROVE  WorkspaceInv'
  <1> USE DEF WorkspaceInv
  <1>1. /\ job = "none" /\ job' = "add" /\ name' = n /\ todo' = NewFiles(n, clock')
        /\ fresh' = FALSE /\ clock' \in 0..LastSecond
        /\ UNCHANGED <<tree, edited, broken, rpcs, binding, registry, inputs, added, queue,
                       services, edits, fails>>
        /\ \A i \in 1..7 : NewFiles(n, clock')[i] \notin tree
    BY NewFilesAre DEF StartAdd, content, output
  <1>2. TypeOK'
    <2>1. todo' \in Seq(Path)
      BY <1>1, NewFilesAreNew
    <2> QED BY <1>1, <2>1 DEF TypeOK, Path, Tables
  <1>3. OneMigrationPerTable' /\ MigrationsHaveSchemas'
    BY <1>1, MigrationsKept DEF Migrations
  <1>4. AddsNewFiles'
    <2>1. \A f \in Migrations' : f[2][1] # Table(n)
      BY <1>1, NewFilesAre DEF MigrationsHaveSchemas, Migrations
    <2>2. Rest(todo, NewFiles(name, clock), 7, 0)'
      BY <1>1, NewFilesAre DEF NewFiles, Rest
    <2>3. Written(0)'
      <3>1. \A i \in 1..7 : ~(i <= 0)
        OBVIOUS
      <3>2. \A i \in 1..7 : NewFiles(name', clock')[i] \notin tree'
        BY <1>1
      <3>3. \A f \in Migrations' : f[2][1] # Table(name')
        BY <1>1, <2>1
      <3> QED BY <2>2, <3>1, <3>2, <3>3 DEF Written
    <2>4. 0 \in 0..7
      OBVIOUS
    <2> QED BY <1>1, <2>3, <2>4 DEF AddsNewFiles
  <1>5. GlueIsRebuilt' /\ IdleTools' /\ GenIsCurrent' /\ CodegenGlues'
    BY <1>1, WorkspaceAssumption DEF GlueIsRebuilt, IdleTools, GenIsCurrent, CodegenGlues
  <1> QED BY <1>2, <1>3, <1>4, <1>5

\* The next file of a running add-feature.
LEMMA NextNewFile ==
    ASSUME WorkspaceInv, job = "add", todo # <<>>, NEW k \in 0..7, Written(k)
    PROVE  LET New == NewFiles(name, clock)
           IN  /\ k \in 0..6 /\ Head(todo) = New[k + 1] /\ Rest(Tail(todo), New, 7, k + 1)
               /\ New[k + 1] \in Path /\ New[k + 1] \notin tree
  <1> DEFINE New == NewFiles(name, clock)
  <1>1. todo \in Seq(Path) /\ 7 \in Nat /\ clock \in 0..LastSecond /\ name \in Names
    BY DEF WorkspaceInv, TypeOK, AddsNewFiles
  <1>2. k + 1 \in 1..7 /\ Head(todo) = New[k + 1] /\ Rest(Tail(todo), New, 7, k + 1)
    <2>1. Rest(todo, New, 7, k)
      BY DEF Written
    <2> HIDE DEF New
    <2> QED BY <1>1, <2>1, NextItem
  <1>3. New[k + 1] \in Path
    BY <1>1, <1>2, NewFilesAreNew
  <1>4. New[k + 1] \notin tree
    <2>1. k + 1 > k
      OBVIOUS
    <2> QED BY <1>2, <2>1 DEF Written
  <1> QED BY <1>2, <1>3, <1>4

\* It does not matter to the migrations whether it is written or truncated.
LEMMA NewFileKeepsMigrations ==
    ASSUME WorkspaceInv, job = "add", todo # <<>>, NEW k \in 0..7, Written(k),
           tree' = tree \cup {Head(todo)},
           \A f : f # Head(todo) => (f \in broken' <=> f \in broken)
    PROVE  OneMigrationPerTable' /\ MigrationsHaveSchemas'
  <1> DEFINE New == NewFiles(name, clock)
  <1>1. k \in 0..6 /\ Head(todo) = New[k + 1] /\ Head(todo) \notin tree
    BY NextNewFile
  <1>2. \A f \in Migrations : <<"schema", f[2][1]>> \in tree' \ broken'
    BY <1>1 DEF WorkspaceInv, MigrationsHaveSchemas
  <1>3. CASE k = 6
    <2>1. Head(todo) = <<"migration", <<Table(name), clock>>>>
      BY <1>1, <1>3, NewFilesAre
    <2>2. Migrations' = Migrations \cup {Head(todo)}
      BY <2>1 DEF Migrations
    <2>3. \A f \in Migrations : f[2][1] # Table(name)
      BY <1>3 DEF Written
    <2>4. <<"schema", Table(name)>> \in tree' \ broken'
      <3>1. <<"schema", Table(name)>> \in tree \ broken
        BY <1>3, NewFilesAre DEF Written
      <3> QED BY <1>1, <3>1
    <2>5. OneMigrationPerTable'
      BY <2>1, <2>2, <2>3 DEF WorkspaceInv, OneMigrationPerTable
    <2>6. MigrationsHaveSchemas'
      <3>1. SUFFICES ASSUME NEW f \in Migrations'
                     PROVE  <<"schema", f[2][1]>> \in tree' \ broken'
        BY DEF MigrationsHaveSchemas
      <3>2. CASE f \in Migrations
        BY <1>2, <3>2
      <3>3. CASE f = Head(todo)
        <4>1. f[2][1] = Table(name)
          BY <2>1, <3>3
        <4> QED BY <2>4, <4>1
      <3> QED BY <2>2, <3>1, <3>2, <3>3
    <2> QED BY <2>5, <2>6
  <1>4. CASE k # 6
    <2>1. k + 1 \in {1, 2, 3, 4, 5, 6}
      BY <1>1, <1>4
    <2>2. Head(todo)[1] # "migration"
      BY <1>1, <2>1, NewFilesAre
    <2>3. Migrations' = Migrations
      BY <2>2 DEF Migrations
    <2> QED BY <1>2, <2>3, MigrationsKept DEF WorkspaceInv
  <1> QED BY <1>3, <1>4

LEMMA WriteNewFileKeeps ==
    ASSUME WorkspaceInv, WriteNewFile
    PROVE  WorkspaceInv'
  <1> USE DEF WorkspaceInv
  <1> DEFINE New == NewFiles(name, clock)
  <1>1. /\ job = "add" /\ todo # <<>> /\ todo' = Tail(todo) /\ ~fresh /\ name \in Names
        /\ tree' = tree \cup {Head(todo)}
        /\ edited' = edited \ {Head(todo)}
        /\ broken' = broken \ {Head(todo)}
        /\ UNCHANGED <<binding, registry, inputs, added, fresh, job, name, queue,
                       services, clock, edits, fails>>
    BY DEF WriteNewFile, Write, output, bounds, AddsNewFiles
  <1>2. PICK k \in 0..7 : Written(k)
    BY <1>1 DEF AddsNewFiles
  <1>3. /\ k \in 0..6 /\ Head(todo) = New[k + 1] /\ Rest(todo', New, 7, k + 1)
        /\ New[k + 1] \in Path /\ New[k + 1] \notin tree
    BY <1>1, <1>2, NextNewFile
  <1>4. /\ \A i \in 1..7 : i <= k => New[i] \in tree \ broken
        /\ \A i \in 1..7 : i > k => New[i] \notin tree
        /\ \A f \in Migrations : f[2][1] # Table(name)
    BY <1>2, <1>3 DEF Written
  <1>5. TypeOK'
    <2>1. rpcs' \in [RpcKinds \X Names -> SUBSET Rpcs]
      BY WorkspaceAssumption DEF WriteNewFile, Declare, TypeOK
    <2>2. todo' \in Seq(Path)
      BY <1>1 DEF TypeOK
    <2> QED BY <1>1, <1>3, <2>1, <2>2 DEF TypeOK
  <1>6. AddsNewFiles'
    <2>1. ASSUME NEW i \in 1..7
          PROVE  /\ i <= k + 1 => New[i] \in tree' \ broken'
                 /\ i > k + 1 => New[i] \notin tree'
      <3>1. k + 1 \in 1..7 /\ (New[i] = New[k + 1] => i = k + 1)
        <4>1. k + 1 \in 1..7
          BY <1>3
        <4>2. clock \in 0..LastSecond
          BY DEF TypeOK
        <4> QED BY <1>1, <4>1, <4>2, NewFilesAreNew
      <3> HIDE DEF New
      <3>2. CASE i = k + 1
        BY <1>1, <1>3, <3>1, <3>2
      <3>3. CASE i # k + 1
        <4>1. (i <= k + 1 <=> i <= k) /\ New[i] # Head(todo)
          BY <1>3, <3>1, <3>3
        <4> QED BY <1>1, <1>4, <4>1
      <3> QED BY <3>2, <3>3
    <2>2. k + 1 < 7 => \A f \in Migrations' : f[2][1] # Table(name)
      <3>1. SUFFICES ASSUME k + 1 < 7 PROVE Head(todo)[1] # "migration"
        BY <1>1, <1>4, <1>3 DEF Migrations
      <3>2. k + 1 \in {1, 2, 3, 4, 5, 6}
        BY <1>3, <3>1
      <3> QED BY <1>3, <3>2, NewFilesAre
    <2>3. k + 1 \in 0..7
      BY <1>3
    <2>4. Written(k + 1)'
      BY <1>1, <1>3, <2>1, <2>2 DEF Written
    <2> QED BY <1>1, <2>3, <2>4 DEF AddsNewFiles
  <1>7. OneMigrationPerTable' /\ MigrationsHaveSchemas'
    BY <1>1, <1>2, <1>3, NewFileKeepsMigrations
  <1>8. GlueIsRebuilt' /\ IdleTools' /\ GenIsCurrent' /\ CodegenGlues'
    BY <1>1, WorkspaceAssumption DEF GlueIsRebuilt, IdleTools, GenIsCurrent, CodegenGlues
  <1> QED BY <1>5, <1>6, <1>7, <1>8

LEMMA FinishAddKeeps ==
    ASSUME WorkspaceInv, FinishAdd
    PROVE  WorkspaceInv'
  <1> USE DEF WorkspaceInv
  <1>1. /\ job = "add" /\ job' = "none" /\ name' = <<>> /\ inputs' = Names /\ ~fresh
        /\ todo = <<>> /\ name \in Names
        /\ edited' \subseteq edited
        /\ UNCHANGED <<tree, broken, rpcs, binding, registry, fresh, todo, queue, services,
                       clock, edits, fails>>
    BY DEF FinishAdd, output, bounds, AddsNewFiles
  <1>2. TypeOK'
    BY <1>1 DEF TypeOK, FinishAdd
  <1>3. OneMigrationPerTable' /\ MigrationsHaveSchemas'
    BY <1>1, MigrationsKept DEF Migrations
  <1> QED BY <1>1, <1>2, <1>3, NothingRuns DEF TypeOK

-----------------------------------------------------------------------------
(* make generate.                                                          *)

\* Steps of make generate write no migration, and no schema.
LEMMA GenerateKeepsMigrations ==
    ASSUME WorkspaceInv, NEW fs, tree' = tree \cup fs, broken' \ fs = broken \ fs,
           \A f \in fs : f[1] \notin {"schema", "migration"}
    PROVE  OneMigrationPerTable' /\ MigrationsHaveSchemas'
  <1>1. Migrations' = Migrations
    BY DEF Migrations
  <1>2. \A f \in Migrations' : <<"schema", f[2][1]>> \in tree \ broken
            => <<"schema", f[2][1]>> \in tree' \ broken'
    <2>1. SUFFICES ASSUME NEW f, <<"schema", f[2][1]>> \in tree \ broken
                   PROVE  <<"schema", f[2][1]>> \in tree' \ broken'
      OBVIOUS
    <2>2. <<"schema", f[2][1]>>[1] = "schema"
      OBVIOUS
    <2>3. <<"schema", f[2][1]>> \notin fs
      BY <2>2
    <2> QED BY <2>1, <2>3
  <1> QED BY <1>1, <1>2, MigrationsKept DEF WorkspaceInv

LEMMA GenProtoKeeps ==
    ASSUME WorkspaceInv, GenProto
    PROVE  WorkspaceInv'
  <1> USE DEF WorkspaceInv
  <1> DEFINE protos ==
                 {n \in inputs : <<"proto", n>> \in tree \ broken /\ rpcs[<<"proto", n>>] # {}}
             pbs == {"pb"} \X protos
  <1>1. /\ job = "none" /\ job' = "proto" /\ tree' = tree \cup pbs
        /\ rpcs' = [f \in DOMAIN rpcs |->
               IF f \in pbs THEN rpcs[<<"proto", f[2]>>] ELSE rpcs[f]]
        /\ UNCHANGED <<edited, broken, binding, registry, inputs, added, fresh, name, todo,
                       queue, services, clock, edits, fails>>
    BY DEF GenProto, output, bounds
  <1>2. /\ DOMAIN rpcs = RpcKinds \X Names /\ protos \subseteq Names
        /\ pbs \subseteq RpcKinds \X Names
        /\ \A n \in Names : <<"proto", n>> \in RpcKinds \X Names
        /\ \A n \in Names : <<"service", n>> \in RpcKinds \X Names
    BY DEF TypeOK, RpcKinds
  <1>3. \A n \in Names :
            /\ rpcs'[<<"proto", n>>] = rpcs[<<"proto", n>>]
            /\ rpcs'[<<"service", n>>] = rpcs[<<"service", n>>]
            /\ rpcs'[<<"pb", n>>] =
                   rpcs[IF n \in protos THEN <<"proto", n>> ELSE <<"pb", n>>]
    BY <1>1, <1>2 DEF RpcKinds
  <1>4. TypeOK'
    <2>1. rpcs' \in [RpcKinds \X Names -> SUBSET Rpcs]
      BY <1>1, <1>2 DEF TypeOK, RpcKinds
    <2>2. pbs \subseteq Path
      BY <1>2, PathsAre, KindsAre
    <2> QED BY <1>1, <2>1, <2>2 DEF TypeOK
  <1>5. OneMigrationPerTable' /\ MigrationsHaveSchemas'
    <2>1. \A f \in pbs : f[1] \notin {"schema", "migration"}
      OBVIOUS
    <2> HIDE DEF pbs
    <2> QED BY <1>1, <2>1, GenerateKeepsMigrations
  <1>6. GenIsCurrent'
    <2>1. SUFFICES ASSUME NEW n \in inputs, <<"proto", n>> \in tree' \ broken',
                          rpcs'[<<"proto", n>>] # {}
                   PROVE  <<"pb", n>> \in tree' /\ rpcs'[<<"pb", n>>] = rpcs'[<<"proto", n>>]
      BY <1>1 DEF GenIsCurrent
    <2>2. n \in protos /\ n \in Names
      <3>1. <<"proto", n>> \notin pbs
        OBVIOUS
      <3>2. n \in Names
        BY DEF TypeOK
      <3> QED BY <1>1, <1>3, <2>1, <3>1, <3>2
    <2> QED BY <1>1, <1>3, <2>2
  <1>7. GlueIsRebuilt'
    <2>1. CASE ~fresh
      BY <1>1, <2>1 DEF GlueIsRebuilt
    <2>2. CASE fresh
      <3>1. tree' = tree
        BY <1>1, <1>2, <2>2 DEF GenIsCurrent
      <3>2. \A n \in Names : rpcs'[<<"pb", n>>] = rpcs[<<"pb", n>>]
        BY <1>1, <1>2, <1>3, <2>2 DEF GenIsCurrent
      <3>3. Found' = Found
        BY <3>1 DEF Found
      <3>4. \A n \in Found : n \in Names
        BY DEF Found
      <3>5. \A n \in Found :
                rpcs'[<<"service", n>>] = rpcs'[<<"pb", n>>]
        BY <1>3, <2>2, <3>2, <3>4 DEF GlueIsRebuilt
      <3> QED BY <1>1, <2>2, <3>1, <3>3, <3>5 DEF GlueIsRebuilt
    <2> QED BY <2>1, <2>2
  <1>8. IdleTools' /\ AddsNewFiles' /\ CodegenGlues'
    BY <1>1 DEF IdleTools, AddsNewFiles, CodegenGlues
  <1> QED BY <1>4, <1>5, <1>6, <1>7, <1>8

LEMMA ScanKeeps ==
    ASSUME WorkspaceInv, Scan
    PROVE  WorkspaceInv'
  <1> USE DEF WorkspaceInv
  <1>1. /\ job = "proto" /\ job' = "code" /\ name = <<>> /\ todo = <<>>
        /\ services' = {n \in Names : <<"pb", n>> \in tree} /\ queue' = services'
        /\ UNCHANGED <<tree, edited, broken, rpcs, binding, registry, inputs, added, fresh,
                       name, todo, clock, edits, fails>>
    BY DEF Scan, content, output, bounds, IdleTools
  <1>2. TypeOK'
    BY <1>1 DEF TypeOK
  <1>3. OneMigrationPerTable' /\ MigrationsHaveSchemas'
    BY <1>1, MigrationsKept DEF Migrations
  <1>4. GlueIsRebuilt' /\ IdleTools' /\ AddsNewFiles' /\ GenIsCurrent'
    <2>1. Found' = Found
      BY <1>1 DEF Found
    <2> QED BY <1>1, <2>1 DEF GlueIsRebuilt, IdleTools, AddsNewFiles, GenIsCurrent
  <1>5. CodegenGlues'
    BY <1>1 DEF CodegenGlues, IdleTools
  <1> QED BY <1>2, <1>3, <1>4, <1>5

LEMMA NextServiceKeeps ==
    ASSUME WorkspaceInv, NEW n \in Names, NextService(n)
    PROVE  WorkspaceInv'
  <1> USE DEF WorkspaceInv
  <1>1. /\ job = "code" /\ job' = "code" /\ todo = <<>> /\ n \in queue /\ name' = n
        /\ queue' = queue \ {n}
        /\ todo' = [i \in 1..4 |-> <<Generated[i], n>>]
        /\ UNCHANGED <<tree, edited, broken, rpcs, binding, registry, inputs, added, fresh,
                       services, clock, edits, fails>>
    BY GeneratedAre DEF NextService, content, output, bounds
  <1>2. TypeOK'
    <2>1. \A i \in 1..4 : <<Generated[i], n>> \in Path
      <3>1. SUFFICES ASSUME NEW i \in 1..4 PROVE Generated[i] \in FeatureKinds
        BY PathsAre
      <3>2. i \in {1, 2, 3, 4}
        OBVIOUS
      <3> QED BY <3>2, GeneratedAre, KindsAre
    <2>2. todo' \in Seq(Path)
      BY <1>1, <2>1
    <2> QED BY <1>1, <2>2 DEF TypeOK
  <1>3. OneMigrationPerTable' /\ MigrationsHaveSchemas'
    BY <1>1, MigrationsKept DEF Migrations
  <1>4. GlueIsRebuilt' /\ IdleTools' /\ AddsNewFiles' /\ GenIsCurrent'
    <2>1. Found' = Found
      BY <1>1 DEF Found
    <2> QED BY <1>1, <2>1 DEF GlueIsRebuilt, IdleTools, AddsNewFiles, GenIsCurrent
  <1>5. CodegenGlues'
    <2>1. \A m \in services : m \notin queue => Glued(m, 4)
      <3>1. SUFFICES ASSUME name # <<>>, name \in services, name \notin queue
                     PROVE  Glued(name, 4)
        <4>1. \A m \in services : m # <<>>
          BY <1>1, WorkspaceAssumption DEF CodegenGlues
        <4>2. \A m \in services : m \notin queue /\ m # name => Glued(m, 4)
          BY <1>1 DEF CodegenGlues
        <4> QED BY <4>1, <4>2
      <3>2. PICK k \in 0..4 : Rest(todo, [i \in 1..4 |-> <<Generated[i], name>>], 4, k)
                              /\ Glued(name, k)
        BY <1>1, <3>1 DEF CodegenGlues
      <3>3. k = 4
        BY <1>1, <3>2 DEF Rest
      <3> QED BY <3>2, <3>3
    <2>2. \A m, k : Glued(m, k)' <=> Glued(m, k)
      BY <1>1 DEF Glued
    <2>3. n # <<>> /\ n \in services /\ n \notin queue'
      BY <1>1, WorkspaceAssumption DEF CodegenGlues
    <2>4. Rest(todo, [i \in 1..4 |-> <<Generated[i], name>>], 4, 0)'
      BY <1>1 DEF Rest
    <2>5. Glued(name, 0)'
      BY DEF Glued
    <2> QED BY <1>1, <2>1, <2>2, <2>3, <2>4, <2>5 DEF CodegenGlues
  <1> QED BY <1>2, <1>3, <1>4, <1>5

LEMMA RegisterServicesKeeps ==
    ASSUME WorkspaceInv, RegisterServices
    PROVE  WorkspaceInv'
  <1> USE DEF WorkspaceInv
  <1>1. /\ job = "code" /\ todo = <<>> /\ queue = {}
        /\ fresh' = TRUE /\ job' = "none" /\ name' = <<>> /\ services' = {}
        /\ IF services # {}
             THEN /\ tree' = tree \cup {FeaturesGen} /\ edited' = edited \ {FeaturesGen}
                  /\ broken' = broken \ {FeaturesGen} /\ registry' = services
             ELSE UNCHANGED <<tree, edited, broken, registry>>
        /\ UNCHANGED <<rpcs, binding, inputs, added, todo, queue, clock, edits, fails>>
    BY DEF RegisterServices, Write, bounds
  <1>2. \A k, n : k # "features_gen" =>
            /\ <<k, n>> \in tree' <=> <<k, n>> \in tree
            /\ <<k, n>> \in broken' <=> <<k, n>> \in broken
    BY <1>1 DEF FeaturesGen
  <1>3. TypeOK'
    BY <1>1, PathsAre DEF TypeOK
  <1>4. OneMigrationPerTable' /\ MigrationsHaveSchemas'
    <2> DEFINE fs == tree' \ tree
    <2>1. tree' = tree \cup {FeaturesGen} \/ tree' = tree
      BY <1>1
    <2>2. FeaturesGen[1] = "features_gen"
      BY DEF FeaturesGen
    <2>3. Migrations' = Migrations
      BY <2>1, <2>2 DEF Migrations
    <2> QED BY <1>2, <2>3, MigrationsKept
  <1>5. GenIsCurrent'
    BY <1>1, <1>2 DEF GenIsCurrent
  <1>6. GlueIsRebuilt'
    <2>1. Found' = services
      BY <1>1, <1>2 DEF CodegenGlues, Found
    <2>2. Found' # {} => registry' = Found' /\ FeaturesGen \in tree' \ broken'
      BY <1>1, <2>1
    <2>3. SUFFICES ASSUME NEW n \in services
                   PROVE  /\ \A i \in 1..Len(Generated) : <<Generated[i], n>> \in tree'
                          /\ {<<"service", n>>, <<"wire", n>>} \cap broken' = {}
                          /\ rpcs'[<<"service", n>>] = rpcs'[<<"pb", n>>]
                          /\ n \in binding' <=> <<"facade", n>> \in tree'
      BY <2>1, <2>2 DEF GlueIsRebuilt
    <2>4. Glued(n, 4)
      <3>1. CASE n # name
        BY <1>1, <3>1 DEF CodegenGlues
      <3>2. CASE n = name
        <4>1. PICK k \in 0..4 : Rest(todo, [i \in 1..4 |-> <<Generated[i], name>>], 4, k)
                                /\ Glued(name, k)
          BY <1>1, <3>2, WorkspaceAssumption DEF CodegenGlues, TypeOK
        <4>2. k = 4
          BY <1>1, <4>1 DEF Rest
        <4> QED BY <3>2, <4>1, <4>2
      <3> QED BY <3>1, <3>2
    <2>5. \A i \in 1..4 : <<Generated[i], n>> \in tree
      BY <2>4 DEF Glued
    <2>6. /\ <<"service", n>> \notin broken /\ <<"wire", n>> \notin broken
          /\ rpcs[<<"service", n>>] = rpcs[<<"pb", n>>]
          /\ n \in binding <=> <<"facade", n>> \in tree
      BY <2>4 DEF Glued
    <2>7. tree \subseteq tree'
      BY <1>1
    <2> QED BY <1>1, <1>2, <2>5, <2>6, <2>7, GeneratedAre
  <1>7. IdleTools' /\ AddsNewFiles' /\ CodegenGlues'
    BY <1>1 DEF IdleTools, AddsNewFiles, CodegenGlues
  <1> QED BY <1>3, <1>4, <1>5, <1>6, <1>7

\* The next file of codegen, and for whom.
LEMMA NextGenerated ==
    ASSUME WorkspaceInv, job = "code", todo # <<>>
    PROVE  /\ name \in Names /\ name # <<>> /\ name \in services
           /\ \E k \in 0..3 :
                /\ Head(todo) = <<Generated[k + 1], name>>
                /\ Rest(Tail(todo), [i \in 1..4 |-> <<Generated[i], name>>], 4, k + 1)
                /\ Glued(name, k)
  <1> DEFINE list == [i \in 1..4 |-> <<Generated[i], name>>]
  <1>1. /\ name # <<>> /\ name \in services /\ name \in Names
        /\ \E k \in 0..4 : Rest(todo, list, 4, k) /\ Glued(name, k)
    BY DEF WorkspaceInv, TypeOK, CodegenGlues
  <1>2. PICK k \in 0..4 : Rest(todo, list, 4, k) /\ Glued(name, k)
    BY <1>1
  <1>3. todo \in Seq(Path) /\ 4 \in Nat
    BY DEF WorkspaceInv, TypeOK
  <1>4. k + 1 \in 1..4 /\ Head(todo) = list[k + 1] /\ Rest(Tail(todo), list, 4, k + 1)
    <2> HIDE DEF list
    <2> QED BY <1>2, <1>3, NextItem
  <1>5. k \in 0..3 /\ Head(todo) = <<Generated[k + 1], name>>
    BY <1>4
  <1> QED BY <1>1, <1>2, <1>4, <1>5

LEMMA GenerateFileKeeps ==
    ASSUME WorkspaceInv, GenerateFile
    PROVE  WorkspaceInv'
  <1> DEFINE f == Head(todo)
             list == [i \in 1..4 |-> <<Generated[i], name>>]
  <1>1. /\ job = "code" /\ todo # <<>> /\ todo' = Tail(todo)
        /\ UNCHANGED <<registry, inputs, added, fresh, job, name, queue, services, clock,
                       edits, fails>>
    BY DEF GenerateFile, bounds
  <1>2. name \in Names /\ name # <<>> /\ name \in services
    BY <1>1, NextGenerated
  <1>3. PICK k \in 0..3 : f = <<Generated[k + 1], name>> /\ Rest(todo', list, 4, k + 1)
                          /\ Glued(name, k)
    BY <1>1, NextGenerated
  <1>4. /\ k = 0 <=> f[1] = "service"
        /\ k = 3 <=> f[1] = "wire"
        /\ f[1] \in {"service", "usecase", "repo", "wire"}
        /\ f[2] = name /\ f \in Path
    <2>1. k \in {0, 1, 2, 3}
      OBVIOUS
    <2> QED BY <1>2, <1>3, <2>1, GeneratedAre, PathsAre, KindsAre
  <1>5. /\ tree' = tree \cup {f}
        /\ edited' \subseteq edited
        /\ broken' \subseteq broken /\ broken' \ {f} = broken \ {f}
        /\ f[1] \in Rewritten => f \notin broken'
    BY <1>1 DEF GenerateFile, content, Write, Skips
  <1>6. /\ rpcs' \in [RpcKinds \X Names -> SUBSET Rpcs]
        /\ \A p \in RpcKinds \X Names : p # f => rpcs'[p] = rpcs[p]
        /\ k = 0 => rpcs'[f] = rpcs[<<"pb", name>>]
    <2>1. rpcs \in [RpcKinds \X Names -> SUBSET Rpcs]
      BY DEF WorkspaceInv, TypeOK
    <2>2. rpcs' = rpcs \/ (f \in RpcKinds \X Names
                           /\ rpcs' = [rpcs EXCEPT ![f] = rpcs[<<"pb", name>>]])
      BY <1>1, <1>2, <1>3, <1>4 DEF GenerateFile, content, Declare
    <2>3. <<"pb", name>> \in RpcKinds \X Names
      BY <1>2 DEF RpcKinds
    <2>4. k = 0 => f \in RpcKinds \X Names /\ rpcs' = [rpcs EXCEPT ![f] = rpcs[<<"pb", name>>]]
      BY <1>1, <1>2, <1>3, <1>4 DEF GenerateFile, Skips, Rewritten, RpcKinds, Declare
    <2>5. rpcs' \in [RpcKinds \X Names -> SUBSET Rpcs]
      BY <2>1, <2>2, <2>3
    <2>6. \A p \in RpcKinds \X Names : p # f => rpcs'[p] = rpcs[p]
      BY <2>1, <2>2
    <2>7. k = 0 => rpcs'[f] = rpcs[<<"pb", name>>]
      BY <2>1, <2>4
    <2> QED BY <2>5, <2>6, <2>7
  <1>7. /\ binding' \subseteq Names
        /\ \A m : m # name => (m \in binding' <=> m \in binding)
        /\ k # 3 => binding' = binding
        /\ k = 3 => (name \in binding' <=> <<"facade", name>> \in tree)
    BY <1>1, <1>2, <1>4 DEF GenerateFile, Skips, Rewritten, WorkspaceInv, TypeOK
  <1> HIDE DEF f, list
  <1>8. \A m, j : j \notin {"service", "usecase", "repo", "wire"} =>
            /\ <<j, m>> # f
            /\ <<j, m>> \in tree' <=> <<j, m>> \in tree
            /\ <<j, m>> \in broken' <=> <<j, m>> \in broken
            /\ <<j, m>> \in RpcKinds \X Names => rpcs'[<<j, m>>] = rpcs[<<j, m>>]
    <2>1. SUFFICES ASSUME NEW m, NEW j, j \notin {"service", "usecase", "repo", "wire"}
                   PROVE  <<j, m>> # f
      BY <1>5, <1>6
    <2> QED BY <1>4, <2>1
  <1>9. \A m, j : m # name =>
            /\ <<j, m>> \in tree => <<j, m>> \in tree'
            /\ <<j, m>> \in broken' => <<j, m>> \in broken
            /\ <<j, m>> \in RpcKinds \X Names => rpcs'[<<j, m>>] = rpcs[<<j, m>>]
    <2>1. SUFFICES ASSUME NEW m, NEW j, m # name PROVE <<j, m>> # f
      BY <1>5, <1>6
    <2> QED BY <1>4, <2>1
  <1>10. \A m \in Names : /\ <<"pb", m>> \in RpcKinds \X Names
                          /\ <<"proto", m>> \in RpcKinds \X Names
                          /\ <<"service", m>> \in RpcKinds \X Names
    BY DEF RpcKinds
  <1>11. TypeOK'
    <2>1. todo' \in Seq(Path)
      BY <1>1 DEF WorkspaceInv, TypeOK
    <2> QED BY <1>1, <1>4, <1>5, <1>6, <1>7, <2>1 DEF WorkspaceInv, TypeOK
  <1>12. OneMigrationPerTable' /\ MigrationsHaveSchemas'
    <2>1. \A p \in {f} : p[1] \notin {"schema", "migration"}
      BY <1>4
    <2> QED BY <1>5, <2>1, GenerateKeepsMigrations
  <1>13. GenIsCurrent'
    BY <1>1, <1>8, <1>10 DEF WorkspaceInv, TypeOK, GenIsCurrent
  <1>14. \A m \in Names : Glued(m, 4) /\ m # name => Glued(m, 4)'
    BY <1>7, <1>8, <1>9, <1>10 DEF Glued
  <1>15. Glued(name, k + 1)'
    <2>1. \A i \in 1..4 : i <= k + 1 => <<Generated[i], name>> \in tree'
      BY <1>3, <1>5 DEF Glued
    <2>2. /\ <<"service", name>> \notin broken'
          /\ rpcs'[<<"service", name>>] = rpcs'[<<"pb", name>>]
      <3>1. CASE k = 0
        BY <1>2, <1>3, <1>4, <1>5, <1>6, <1>8, <1>10, <3>1, GeneratedAre DEF Rewritten
      <3>2. CASE k # 0
        <4>1. f # <<"service", name>> /\ k >= 1
          BY <1>4, <3>2
        <4> QED BY <1>2, <1>3, <1>5, <1>6, <1>8, <1>10, <4>1 DEF Glued
      <3> QED BY <3>1, <3>2
    <2>3. k + 1 >= 4 => /\ <<"wire", name>> \notin broken'
                        /\ name \in binding' <=> <<"facade", name>> \in tree'
      BY <1>3, <1>4, <1>5, <1>7, <1>8, GeneratedAre DEF Rewritten
    <2> QED BY <1>1, <2>1, <2>2, <2>3 DEF Glued
  <1>16. CodegenGlues'
    <2>1. Rest(todo, list, 4, k + 1)'
      BY <1>1, <1>3 DEF list, Rest
    <2>2. \A m \in services' : m \notin queue' /\ m # name' => Glued(m, 4)'
      BY <1>1, <1>14 DEF WorkspaceInv, TypeOK, CodegenGlues
    <2>3. services' = {m \in Names : <<"pb", m>> \in tree'} /\ queue' \subseteq services'
      BY <1>1, <1>8 DEF WorkspaceInv, CodegenGlues
    <2>4. k + 1 \in 0..4
      OBVIOUS
    <2>5. \E j \in 0..4 : Rest(todo, list, 4, j)' /\ Glued(name, j)'
      BY <1>15, <2>1, <2>4
    <2> QED BY <1>1, <1>2, <2>2, <2>3, <2>5 DEF CodegenGlues, list
  <1>17. GlueIsRebuilt'
    <2>1. /\ Found' = Found
          /\ FeaturesGen \in tree \ broken => FeaturesGen \in tree' \ broken'
      <3>1. FeaturesGen \in tree \ broken => FeaturesGen \in tree' \ broken'
        BY <1>5
      <3> QED BY <1>8, <3>1 DEF Found
    <2>2. SUFFICES ASSUME fresh, NEW n \in Found
                   PROVE  /\ \A i \in 1..Len(Generated) : <<Generated[i], n>> \in tree'
                          /\ {<<"service", n>>, <<"wire", n>>} \cap broken' = {}
                          /\ rpcs'[<<"service", n>>] = rpcs'[<<"pb", n>>]
                          /\ n \in binding' <=> <<"facade", n>> \in tree'
      BY <1>1, <2>1 DEF GlueIsRebuilt, WorkspaceInv
    <2>3. /\ n \in Names
          /\ \A i \in 1..Len(Generated) : <<Generated[i], n>> \in tree
          /\ {<<"service", n>>, <<"wire", n>>} \cap broken = {}
          /\ rpcs[<<"service", n>>] = rpcs[<<"pb", n>>]
          /\ n \in binding <=> <<"facade", n>> \in tree
      BY <2>2 DEF WorkspaceInv, GlueIsRebuilt, Found
    <2>4. rpcs'[<<"service", n>>] = rpcs'[<<"pb", n>>]
      <3>1. CASE f = <<"service", n>>
        BY <1>4, <1>6, <1>8, <1>10, <2>3, <3>1
      <3>2. CASE f # <<"service", n>>
        BY <1>6, <1>8, <1>10, <2>3, <3>2
      <3> QED BY <3>1, <3>2
    <2>5. n \in binding' <=> <<"facade", n>> \in tree'
      BY <1>7, <1>8, <2>3
    <2> QED BY <1>1, <1>5, <2>3, <2>4, <2>5
  <1>18. IdleTools' /\ AddsNewFiles'
    BY <1>1 DEF IdleTools, AddsNewFiles
  <1> QED BY <1>11, <1>12, <1>13, <1>16, <1>17, <1>18 DEF WorkspaceInv

-----------------------------------------------------------------------------
(* Failures.                                                               *)

LEMMA FailKeeps ==
    ASSUME WorkspaceInv, Fail
    PROVE  WorkspaceInv'
  <1> USE DEF WorkspaceInv
  <1>1. /\ job' = "none" /\ name' = <<>> /\ todo' = <<>> /\ queue' = {} /\ services' = {}
        /\ fresh' = FALSE /\ fails' \in 0..MaxFails
        /\ UNCHANGED <<tree, edited, broken, rpcs, binding, registry, inputs, added, clock,
                       edits>>
    BY WorkspaceAssumption DEF Fail, Stop, content, output, TypeOK
  <1>2. TypeOK'
    <2>1. <<>> \in Seq(Path)
      OBVIOUS
    <2> QED BY <1>1, <2>1 DEF TypeOK
  <1>3. OneMigrationPerTable' /\ MigrationsHaveSchemas'
    BY <1>1, MigrationsKept DEF Migrations
  <1> QED BY <1>1, <1>2, <1>3, NothingRuns

\* What a tool may be writing: add-feature a file that was not there, or
\* buf.gen.yaml; codegen one that is generated, or is not there either.
LEMMA TargetsAre ==
    ASSUME WorkspaceInv, NEW f \in Targets
    PROVE  \/ /\ job = "add" /\ todo # <<>> /\ f = Head(todo)
              /\ f \in Path /\ f \notin tree
              /\ \E k \in 0..7 : Written(k)
           \/ /\ job = "code" /\ f \in Path
              /\ f[1] \in {"service", "usecase", "repo", "wire"}
              /\ f \notin tree \/ f[1] \in Rewritten
           \/ f = BufGen
           \/ f = FeaturesGen
  <1>1. CASE job = "add"
    <2>1. CASE todo # <<>>
      <3>1. PICK k \in 0..7 : Written(k)
        BY <1>1 DEF WorkspaceInv, AddsNewFiles
      <3>2. Head(todo) \in Path /\ Head(todo) \notin tree
        BY <1>1, <2>1, <3>1, NextNewFile
      <3> QED BY <1>1, <2>1, <3>1, <3>2 DEF Targets
    <2>2. CASE todo = <<>>
      BY <1>1, <2>2 DEF Targets
    <2> QED BY <2>1, <2>2
  <1>2. CASE job = "code"
    <2>1. CASE todo # <<>>
      <3>1. PICK k \in 0..3 : Head(todo) = <<Generated[k + 1], name>>
        BY <1>2, <2>1, NextGenerated
      <3>2. k \in {0, 1, 2, 3} /\ name \in Names
        BY <1>2, <2>1, NextGenerated
      <3>3. Head(todo) \in Path /\ Head(todo)[1] \in {"service", "usecase", "repo", "wire"}
        <4>1. Generated[k + 1] \in {"service", "usecase", "repo", "wire"}
          BY <3>2, GeneratedAre
        <4>2. Generated[k + 1] \in FeatureKinds
          BY <4>1, KindsAre
        <4>3. Head(todo) \in Path
          BY <3>1, <3>2, <4>2, PathsAre
        <4>4. Head(todo)[1] = Generated[k + 1]
          BY <3>1
        <4> QED BY <4>1, <4>3, <4>4
      <3> QED BY <1>2, <2>1, <3>3 DEF Targets, Skips
    <2>2. CASE todo = <<>>
      BY <1>2, <2>2 DEF Targets
    <2> QED BY <2>1, <2>2
  <1>3. CASE job \notin {"add", "code"}
    BY <1>3 DEF Targets, WorkspaceInv, TypeOK, IdleTools
  <1> QED BY <1>1, <1>2, <1>3

LEMMA FailWritingKeeps ==
    ASSUME WorkspaceInv, FailWriting
    PROVE  WorkspaceInv'
  <1>1. PICK f \in Targets :
            /\ tree' = tree \cup {f}
            /\ edited' = edited \ {f}
            /\ broken' = broken \cup {f}
            /\ IF f \in DOMAIN rpcs THEN Declare(f, {}) ELSE UNCHANGED rpcs
            /\ Stop
    BY DEF FailWriting
  <1>2. /\ job' = "none" /\ name' = <<>> /\ todo' = <<>> /\ queue' = {} /\ services' = {}
        /\ fresh' = FALSE /\ fails' \in 0..MaxFails
        /\ UNCHANGED <<binding, registry, inputs, added, clock, edits>>
    BY <1>1, WorkspaceAssumption DEF Stop, output, WorkspaceInv, TypeOK
  <1>3. f \in Path
    BY TargetsAre, PathsAre
  <1>4. TypeOK'
    <2>1. rpcs' \in [RpcKinds \X Names -> SUBSET Rpcs]
      BY <1>1 DEF Declare, WorkspaceInv, TypeOK
    <2>2. <<>> \in Seq(Path)
      OBVIOUS
    <2> QED BY <1>1, <1>2, <1>3, <2>1, <2>2 DEF WorkspaceInv, TypeOK
  <1>5. OneMigrationPerTable' /\ MigrationsHaveSchemas'
    <2>1. CASE job = "add" /\ todo # <<>> /\ f = Head(todo)
      <3>1. PICK k \in 0..7 : Written(k)
        BY <2>1 DEF WorkspaceInv, AddsNewFiles
      <3> QED BY <1>1, <2>1, <3>1, NewFileKeepsMigrations
    <2>2. CASE f[1] \notin {"schema", "migration"}
      <3>1. broken' \ {f} = broken \ {f} /\ \A p \in {f} : p[1] \notin {"schema", "migration"}
        BY <1>1, <2>2
      <3> QED BY <1>1, <3>1, GenerateKeepsMigrations
    <2>3. BufGen[1] = "buf.gen" /\ FeaturesGen[1] = "features_gen"
      BY DEF BufGen, FeaturesGen
    <2> QED BY <2>1, <2>2, <2>3, TargetsAre
  <1> QED BY <1>2, <1>4, <1>5, NothingRuns DEF WorkspaceInv

-----------------------------------------------------------------------------
(* The developer.                                                          *)

\* What she does keeps the invariant if it keeps the files well-formed, takes
\* no schema away without its migrations and adds no migration.
LEMMA DevelopKeeps ==
    ASSUME WorkspaceInv, Develop, added' \subseteq Names,
           tree' \subseteq tree, edited' \subseteq tree', broken' \subseteq broken \cap tree',
           rpcs' \in [RpcKinds \X Names -> SUBSET Rpcs],
           \A f \in Migrations' : <<"schema", f[2][1]>> \in tree \ broken
               => <<"schema", f[2][1]>> \in tree'
    PROVE  WorkspaceInv'
  <1>1. /\ job' = "none" /\ name' = <<>> /\ todo' = <<>> /\ fresh' = FALSE
        /\ edits' \in 0..MaxEdits
        /\ UNCHANGED <<binding, registry, inputs, queue, services, clock, fails>>
    BY WorkspaceAssumption DEF Develop, output, run, WorkspaceInv, TypeOK, IdleTools
  <1>2. TypeOK'
    BY <1>1 DEF Develop, run, WorkspaceInv, TypeOK
  <1>3. OneMigrationPerTable' /\ MigrationsHaveSchemas'
    <2>1. Migrations' \subseteq Migrations
      BY DEF Migrations
    <2> QED BY <2>1, MigrationsKept DEF WorkspaceInv
  <1> QED BY <1>1, <1>2, <1>3, NothingRuns DEF WorkspaceInv

LEMMA EditKeeps ==
    ASSUME WorkspaceInv, NEW f \in tree, Edit(f)
    PROVE  WorkspaceInv'
  <1>1. /\ tree' = tree /\ broken' = broken /\ edited' = edited \cup {f} /\ Develop
        /\ UNCHANGED <<rpcs, added>>
    BY DEF Edit
  <1> QED BY <1>1, DevelopKeeps DEF WorkspaceInv, TypeOK

LEMMA ChangeMethodsKeeps ==
    ASSUME WorkspaceInv, NEW f \in tree, NEW methods \in SUBSET Rpcs, ChangeMethods(f, methods)
    PROVE  WorkspaceInv'
  <1>1. /\ tree' = tree /\ broken' = broken /\ edited' = edited \cup {f} /\ Develop
        /\ rpcs' = [rpcs EXCEPT ![f] = methods] /\ UNCHANGED added
    BY DEF ChangeMethods, Declare
  <1>2. rpcs' \in [RpcKinds \X Names -> SUBSET Rpcs]
    BY <1>1 DEF WorkspaceInv, TypeOK
  <1> QED BY <1>1, <1>2, DevelopKeeps DEF WorkspaceInv, TypeOK

LEMMA RemoveIsSubset ==
    ASSUME WorkspaceInv, NEW files, Remove(files)
    PROVE  /\ tree' = tree \ files
           /\ edited' \subseteq tree' /\ broken' \subseteq broken \cap tree'
           /\ rpcs' \in [RpcKinds \X Names -> SUBSET Rpcs]
  BY DEF Remove, WorkspaceInv, TypeOK

LEMMA RepairKeeps ==
    ASSUME WorkspaceInv, NEW f \in tree, Repair(f)
    PROVE  WorkspaceInv'
  <1>1. f \in broken /\ Develop /\ UNCHANGED added
    BY DEF Repair
  <1>2. CASE f = BufGen
    <2>1. broken' = broken \ {f} /\ UNCHANGED <<tree, edited, rpcs>>
      BY <1>2 DEF Repair
    <2> QED BY <1>1, <2>1, DevelopKeeps DEF WorkspaceInv, TypeOK
  <1>3. CASE f # BufGen
    <2>1. /\ tree' = tree \ {f} /\ edited' \subseteq tree'
          /\ broken' \subseteq broken \cap tree'
          /\ rpcs' \in [RpcKinds \X Names -> SUBSET Rpcs]
      BY <1>3, RemoveIsSubset DEF Repair
    <2> QED BY <1>1, <2>1, DevelopKeeps DEF WorkspaceInv, TypeOK
  <1> QED BY <1>2, <1>3

\* Files that are no schemas can go.
LEMMA RemoveKeeps ==
    ASSUME WorkspaceInv, NEW files, Remove(files), Develop, UNCHANGED added,
           \A f \in files : f[1] # "schema"
    PROVE  WorkspaceInv'
  <1>1. /\ tree' = tree \ files /\ edited' \subseteq tree'
        /\ broken' \subseteq broken \cap tree'
        /\ rpcs' \in [RpcKinds \X Names -> SUBSET Rpcs]
    BY RemoveIsSubset
  <1>2. \A t : <<"schema", t>> \notin files
    <2>1. \A t : <<"schema", t>>[1] = "schema"
      OBVIOUS
    <2> QED BY <2>1
  <1> QED BY <1>1, <1>2, DevelopKeeps DEF WorkspaceInv, TypeOK

LEMMA DropFacadeKeeps ==
    ASSUME WorkspaceInv, NEW n \in Names, DropFacade(n)
    PROVE  WorkspaceInv'
  <1> DEFINE files == {<<"facade", n>>, <<"wire_bind", n>>, <<"ports", n>>}
  <1>1. \A f \in files : f[1] # "schema"
    OBVIOUS
  <1> QED BY <1>1, RemoveKeeps DEF DropFacade

LEMMA CleanKeeps ==
    ASSUME WorkspaceInv, Clean
    PROVE  WorkspaceInv'
  <1> DEFINE files == {"pb"} \X Names
  <1>1. \A f \in files : f[1] # "schema"
    OBVIOUS
  <1> QED BY <1>1, RemoveKeeps DEF Clean

LEMMA DiscardKeeps ==
    ASSUME WorkspaceInv, NEW n \in Names, Discard(n)
    PROVE  WorkspaceInv'
  <1> DEFINE files == (FilesOf(n) \ {<<"pb", n>>}) \cup {<<"schema", Table(n)>>}
                          \cup {f \in Migrations : f[2][1] = Table(n)}
  <1>1. Remove(files) /\ Develop /\ added' = added \ {n}
    BY DEF Discard
  <1>2. /\ tree' = tree \ files /\ edited' \subseteq tree'
        /\ broken' \subseteq broken \cap tree'
        /\ rpcs' \in [RpcKinds \X Names -> SUBSET Rpcs]
    BY <1>1, RemoveIsSubset
  <1>3. \A f \in Migrations' : <<"schema", f[2][1]>> \in tree
            => <<"schema", f[2][1]>> \in tree'
    <2>1. SUFFICES ASSUME NEW f \in Migrations', <<"schema", f[2][1]>> \in tree
                   PROVE  <<"schema", f[2][1]>> \notin files
      BY <1>2
    <2>2. f[2][1] # Table(n)
      BY <1>2 DEF Migrations
    <2>3. \A t : <<"schema", t>> \notin FilesOf(n) /\ <<"schema", t>> \notin Migrations
      BY KindsAre DEF FilesOf, Migrations
    <2> QED BY <2>2, <2>3
  <1>4. added' \subseteq Names
    BY <1>1 DEF WorkspaceInv, TypeOK
  <1> HIDE DEF files
  <1> QED BY <1>1, <1>2, <1>3, <1>4, DevelopKeeps

-----------------------------------------------------------------------------
(* Theorems.                                                               *)

LEMMA Initially == Init => WorkspaceInv
  <1> SUFFICES ASSUME Init PROVE WorkspaceInv
    OBVIOUS
  <1> USE DEF Init
  <1>1. TypeOK
    <2>1. <<>> \in Seq(Path)
      OBVIOUS
    <2>2. rpcs \in [RpcKinds \X Names -> SUBSET Rpcs]
      OBVIOUS
    <2>3. 0 \in 0..LastSecond /\ 0 \in 0..MaxEdits /\ 0 \in 0..MaxFails
      BY WorkspaceAssumption
    <2>4. tree \subseteq Path /\ inputs \subseteq Names
      BY WorkspaceAssumption, PathsAre
    <2> QED BY <2>1, <2>2, <2>3, <2>4 DEF TypeOK
  <1>2. Migrations = {}
    <2>1. BufGen[1] = "buf.gen"
      BY DEF BufGen
    <2> QED BY <2>1 DEF Migrations
  <1> QED BY <1>1, <1>2 DEF WorkspaceInv, OneMigrationPerTable, MigrationsHaveSchemas,
             GlueIsRebuilt, IdleTools, AddsNewFiles, GenIsCurrent, CodegenGlues

LEMMA Stutters ==
    ASSUME WorkspaceInv, UNCHANGED vars
    PROVE  WorkspaceInv'
  <1> USE DEF WorkspaceInv, vars, content, output, run, bounds
  <1>1. TypeOK'
    BY DEF TypeOK
  <1>2. OneMigrationPerTable' /\ MigrationsHaveSchemas'
    BY MigrationsKept DEF Migrations
  <1>3. GlueIsRebuilt' /\ IdleTools' /\ GenIsCurrent'
    BY DEF GlueIsRebuilt, Found, IdleTools, GenIsCurrent
  <1>4. AddsNewFiles'
    BY DEF AddsNewFiles, Written, Migrations
  <1>5. CodegenGlues'
    BY DEF CodegenGlues, Glued
  <1> QED BY <1>1, <1>2, <1>3, <1>4, <1>5

\* The inductive invariant of the tools: what add-feature and codegen have
\* written so far, what they have not found, and that a migration is never
\* there without its schema.
THEOREM Invariance == Spec => []WorkspaceInv
  <1>1. ASSUME WorkspaceInv, [Next]_vars PROVE WorkspaceInv'
    <2>1. CASE \E n \in Names : StartAdd(n)
      BY <1>1, <2>1, StartAddKeeps
    <2>2. CASE WriteNewFile
      BY <1>1, <2>2, WriteNewFileKeeps
    <2>3. CASE FinishAdd
      BY <1>1, <2>3, FinishAddKeeps
    <2>4. CASE GenProto
      BY <1>1, <2>4, GenProtoKeeps
    <2>5. CASE Scan
      BY <1>1, <2>5, ScanKeeps
    <2>6. CASE \E n \in Names : NextService(n)
      BY <1>1, <2>6, NextServiceKeeps
    <2>7. CASE GenerateFile
      BY <1>1, <2>7, GenerateFileKeeps
    <2>8. CASE RegisterServices
      BY <1>1, <2>8, RegisterServicesKeeps
    <2>9. CASE Fail \/ FailWriting
      BY <1>1, <2>9, FailKeeps, FailWritingKeeps
    <2>10. CASE \E f \in tree : Edit(f) \/ Repair(f)
      BY <1>1, <2>10, EditKeeps, RepairKeeps
    <2>11. CASE \E f \in tree, methods \in SUBSET Rpcs : ChangeMethods(f, methods)
      BY <1>1, <2>11, ChangeMethodsKeeps
    <2>12. CASE \E n \in Names : DropFacade(n) \/ Discard(n)
      BY <1>1, <2>12, DropFacadeKeeps, DiscardKeeps
    <2>13. CASE Clean
      BY <1>1, <2>13, CleanKeeps
    <2>14. CASE UNCHANGED vars
      BY <1>1, <2>14, Stutters
    <2> QED BY <1>1, <2>1, <2>2, <2>3, <2>4, <2>5, <2>6, <2>7, <2>8, <2>9, <2>10, <2>11,
               <2>12, <2>13, <2>14 DEF Next, Tool, Developer
  <1> QED BY <1>1, Initially, PTL DEF Spec

\* The variables keep their types, for any names and methods.
THEOREM TypeCorrect == Spec => []TypeOK
  <1>1. WorkspaceInv => TypeOK
    BY DEF WorkspaceInv
  <1> QED BY <1>1, Invariance, PTL

\* No table is ever created by two migrations, whatever names are chosen, and
\* wherever an earlier add-feature was stopped.
THEOREM MigrationsAreUnique == Spec => []OneMigrationPerTable
  <1>1. WorkspaceInv => OneMigrationPerTable
    BY DEF WorkspaceInv
  <1> QED BY <1>1, Invariance, PTL

\* A make generate that succeeds leaves the glue code of every feature in gen/ up
\* to date, and features_gen.go too unless gen/ is empty, whatever state the
\* project was in before.
THEOREM GlueIsCurrent == Spec => []GlueIsRebuilt
  <1>1. WorkspaceInv => GlueIsRebuilt
    BY DEF WorkspaceInv
  <1> QED BY <1>1, Invariance, PTL

\* No tool replaces the developer's work.
THEOREM HandWorkIsKept == Spec => HandWorkKept
  <1> DEFINE Kept == edits' = edits =>
                 \A f \in edited : f[1] \in FeatureKinds \ Rewritten => f \in edited'
  <1>1. ASSUME WorkspaceInv, [Next]_vars PROVE Kept
    <2>1. CASE Developer
      <3>1. edits' = edits + 1
        BY <2>1 DEF Developer, Edit, Repair, ChangeMethods, DropFacade, Discard, Clean, Develop
      <3>2. edits \in Nat
        BY <1>1, WorkspaceAssumption DEF WorkspaceInv, TypeOK
      <3> QED BY <3>1, <3>2
    <2>2. CASE WriteNewFile
      <3>1. job = "add" /\ todo # <<>> /\ edited' = edited \ {Head(todo)}
        BY <2>2 DEF WriteNewFile, Write
      <3>2. PICK k \in 0..7 : Written(k)
        BY <1>1, <3>1 DEF WorkspaceInv, AddsNewFiles
      <3>3. Head(todo) \notin edited
        BY <1>1, <3>1, <3>2, NextNewFile DEF WorkspaceInv, TypeOK
      <3> QED BY <3>1, <3>3
    <2>3. CASE GenerateFile
      <3>1. edited' = edited \/ (~Skips(Head(todo)) /\ edited' = edited \ {Head(todo)})
        BY <2>3 DEF GenerateFile, content, Write
      <3> QED BY <1>1, <3>1 DEF Skips, WorkspaceInv, TypeOK
    <2>4. CASE RegisterServices
      <3>1. edited \ {FeaturesGen} \subseteq edited'
        BY <2>4 DEF RegisterServices, Write
      <3>2. FeaturesGen[1] \notin FeatureKinds
        BY KindsAre DEF FeaturesGen
      <3> QED BY <3>1, <3>2
    <2>5. CASE FailWriting
      <3>1. PICK f \in Targets : edited' = edited \ {f}
        BY <2>5 DEF FailWriting
      <3>2. f \notin tree \/ f[1] \notin FeatureKinds \ Rewritten
        <4>1. BufGen[1] \notin FeatureKinds /\ FeaturesGen[1] \notin FeatureKinds
          BY KindsAre DEF BufGen, FeaturesGen
        <4> QED BY <1>1, <4>1, TargetsAre
      <3> QED BY <1>1, <3>1, <3>2 DEF WorkspaceInv, TypeOK
    <2>6. CASE (\E n \in Names : StartAdd(n) \/ NextService(n)) \/ GenProto \/ Scan
               \/ Fail \/ UNCHANGED vars
      <3>1. edited' = edited
        BY <2>6 DEF StartAdd, NextService, GenProto, Scan, Fail, vars, content
      <3> QED BY <3>1
    <2>7. CASE FinishAdd
      <3>1. edited' = edited \ {BufGen} /\ BufGen[1] \notin FeatureKinds
        BY <2>7, KindsAre DEF FinishAdd, BufGen
      <3> QED BY <3>1
    <2> QED BY <1>1, <2>1, <2>2, <2>3, <2>4, <2>5, <2>6, <2>7 DEF Next, Tool
  <1>2. WorkspaceInv /\ [Next]_vars => [Kept]_vars
    BY <1>1
  <1> QED BY <1>2, Invariance, PTL DEF Spec, HandWorkKept

=============================================================================
