-------------------------- MODULE ConfigLoadProofs --------------------------
(***************************************************************************)
(* Proofs about ConfigLoad, for any environments, levels, lifetimes and    *)
(* DSNs, and any contents of files and variables.                          *)
(***************************************************************************)
EXTENDS ConfigLoad, TLAPS

-----------------------------------------------------------------------------
(* Layers.                                                                 *)

\* Bootstraps are the functions on Keys with values of the right kind.
LEMMA BootstrapIsFunction ==
    ASSUME NEW f, f = [k \in Keys |-> f[k]],
           f["env"] \in Envs \cup {Blank}, f["level"] \in Levels \cup {Blank},
           f["ttl"] \in Ttls \cup {Blank}, f["dsn"] \in Dsns \cup {Blank}
    PROVE  f \in Bootstrap
  BY DEF Bootstrap, Keys

LEMMA DefaultIsBootstrap == defaultBootstrap \in Bootstrap
  BY ConfigAssumption DEF defaultBootstrap, Bootstrap

LEMMA EmptyIsFile == Empty \in File
  BY DEF Empty, File, Keys

\* A file replaces the keys it has, and leaves a configuration a configuration.
LEMMA MergeIsOver ==
    ASSUME cfg \in Bootstrap, NEW file \in File, Merge(file)
    PROVE  cfg' \in Bootstrap /\ \A k \in Keys : cfg'[k] = Over(file, k, cfg[k])
  <1>1. cfg' = [k \in Keys |-> Over(file, k, cfg[k])]
    BY DEF Merge, Over
  <1>2. \A k \in Keys : cfg'[k] = Over(file, k, cfg[k])
    BY <1>1
  <1>3. /\ cfg'["env"] \in Envs \cup {Blank} /\ cfg'["level"] \in Levels \cup {Blank}
        /\ cfg'["ttl"] \in Ttls \cup {Blank} /\ cfg'["dsn"] \in Dsns \cup {Blank}
    BY <1>2 DEF Bootstrap, File, Over, Keys
  <1>4. cfg' = [k \in Keys |-> cfg'[k]]
    BY <1>1
  <1> QED BY <1>2, <1>3, <1>4, BootstrapIsFunction

-----------------------------------------------------------------------------
(* The inductive invariant: what has gone into cfg when.                   *)

\* The base file over the defaults, and the override file over both.
FromBase(k) == Over(base, k, defaultBootstrap[k])
FromFiles(k) == Over(OverrideOfChosen, k, FromBase(k))

\* Nothing of an override file is in use before it is merged.
BeforeOverride ==
    /\ pc = "base" => base = Empty /\ cfg = defaultBootstrap
    /\ pc \in {"base", "choose", "stat", "merge"} => overrides = [e \in Envs |-> Empty]
    /\ pc \in {"choose", "stat", "merge"} => \A k \in Keys : cfg[k] = FromBase(k)
    /\ pc \in {"stat", "merge", "setenv"} => env = Chosen /\ env # Blank

\* app.env is overwritten with the chosen environment, the other settings not.
AfterOverride ==
    /\ pc \in {"setenv", "environ"} => \A k \in Settings : cfg[k] = FromFiles(k)
    /\ pc \in {"validate", "refused", "logger", "run"} =>
           \A k \in Settings : cfg[k] = Documented(k)

\* Validate has judged what is in cfg.
Sound == \A k \in Settings : Usable(k, cfg[k])
Judged ==
    /\ pc \in {"logger", "run"} => Sound
    /\ pc = "refused" => ~Sound

LoadInv == TypeOK /\ BeforeOverride /\ AfterOverride /\ Judged

\* What the sources say depends on the sources only.
LEMMA SourcesStay ==
    ASSUME UNCHANGED <<flag, environ, base, overrides>>
    PROVE  /\ Chosen' = Chosen
           /\ \A k : FromBase(k)' = FromBase(k)
           /\ \A k : FromFiles(k)' = FromFiles(k)
           /\ \A k : Documented(k)' = Documented(k)
  BY DEF Chosen, FromBase, FromFiles, OverrideOfChosen, Documented, Over, FirstNonEmpty

\* As long as no override file is read, the files say what the base file says.
LEMMA NoOverrideYet ==
    ASSUME TypeOK, overrides = [e \in Envs |-> Empty]
    PROVE  \A k \in Keys : FromFiles(k) = FromBase(k)
  <1>1. Chosen \in Envs \cup {Blank}
    BY ConfigAssumption DEF TypeOK, Chosen, FirstNonEmpty, Over, Bootstrap, File
  <1>2. OverrideOfChosen = Empty
    BY <1>1 DEF OverrideOfChosen
  <1> QED BY <1>2 DEF FromFiles, Over, Empty

LEMMA InitEstablishes == Init => LoadInv
  <1> SUFFICES ASSUME Init PROVE LoadInv
    OBVIOUS
  <1>1. /\ cfg = defaultBootstrap /\ base = Empty /\ pc = "base"
        /\ overrides = [e \in Envs |-> Empty]
    BY DEF Init
  <1>2. TypeOK
    BY <1>1, DefaultIsBootstrap, EmptyIsFile, ConfigAssumption DEF Init, TypeOK
  <1> QED BY <1>1, <1>2 DEF LoadInv, BeforeOverride, AfterOverride, Judged

LEMMA ReadBaseKeeps == LoadInv /\ ReadBase => LoadInv'
  <1> SUFFICES ASSUME LoadInv, ReadBase PROVE LoadInv'
    OBVIOUS
  <1>1. /\ pc = "base" /\ cfg = defaultBootstrap /\ cfg \in Bootstrap
        /\ overrides = [e \in Envs |-> Empty]
        /\ UNCHANGED <<flag, environ, overrides, env, logger>>
    BY DEF ReadBase, LoadInv, BeforeOverride, TypeOK
  <1>2. ASSUME NEW file \in Files, base' = file, Merge(file), pc' = "choose"
        PROVE  LoadInv'
    <2>1. file \in File
      BY ConfigAssumption
    <2>2. cfg' \in Bootstrap /\ \A k \in Keys : cfg'[k] = FromBase(k)'
      BY <1>1, <1>2, <2>1, MergeIsOver DEF FromBase, Over
    <2>3. TypeOK'
      BY <1>1, <1>2, <2>1, <2>2 DEF LoadInv, TypeOK
    <2> QED BY <1>1, <1>2, <2>2, <2>3 DEF LoadInv, BeforeOverride, AfterOverride, Judged
  <1>3. CASE CannotRead /\ UNCHANGED base
    BY <1>1, <1>3 DEF CannotRead, LoadInv, TypeOK, BeforeOverride, AfterOverride, Judged
  <1> QED BY <1>2, <1>3 DEF ReadBase

\* The three sources of the environment, as Load asks them.
LEMMA ChooseEnvKeeps == LoadInv /\ ChooseEnv => LoadInv'
  <1> SUFFICES ASSUME LoadInv, ChooseEnv PROVE LoadInv'
    OBVIOUS
  <1>1. /\ pc = "choose" /\ overrides = [e \in Envs |-> Empty] /\ TypeOK
        /\ \A k \in Keys : cfg[k] = FromBase(k)
        /\ UNCHANGED <<flag, environ, base, overrides, cfg, logger>>
    BY DEF ChooseEnv, LoadInv, BeforeOverride
  <1>2. cfg.env = Over(base, "env", "local")
    BY <1>1 DEF FromBase, defaultBootstrap, Keys
  <1>3. env' = Chosen /\ pc' = IF env' = Blank THEN "environ" ELSE "stat"
    BY <1>2 DEF ChooseEnv, Chosen
  <1>4. TypeOK'
    BY <1>1, <1>3, ConfigAssumption
       DEF TypeOK, Chosen, FirstNonEmpty, Over, Bootstrap, File
  <1>5. \A k \in Keys : FromFiles(k) = FromBase(k)
    BY <1>1, NoOverrideYet
  <1>6. BeforeOverride'
    BY <1>1, <1>3, SourcesStay DEF BeforeOverride
  <1>7. AfterOverride'
    BY <1>1, <1>3, <1>5, SourcesStay DEF AfterOverride, Keys, Settings
  <1> QED BY <1>3, <1>4, <1>6, <1>7 DEF LoadInv, Judged

LEMMA StatOverrideKeeps == LoadInv /\ StatOverride => LoadInv'
  <1> SUFFICES ASSUME LoadInv, StatOverride PROVE LoadInv'
    OBVIOUS
  <1>1. /\ pc = "stat" /\ pc' \in {"merge", "setenv"} /\ TypeOK /\ env = Chosen /\ env # Blank
        /\ overrides = [e \in Envs |-> Empty]
        /\ \A k \in Keys : cfg[k] = FromBase(k)
        /\ UNCHANGED <<flag, environ, base, overrides, env, cfg, logger>>
    BY DEF StatOverride, LoadInv, BeforeOverride
  <1>2. \A k \in Keys : FromFiles(k) = FromBase(k)
    BY <1>1, NoOverrideYet
  <1>3. TypeOK'
    BY <1>1 DEF TypeOK
  <1>4. BeforeOverride' /\ AfterOverride' /\ Judged'
    BY <1>1, <1>2, SourcesStay DEF BeforeOverride, AfterOverride, Judged, Keys, Settings
  <1> QED BY <1>3, <1>4 DEF LoadInv

\* The file that is merged is the one of the chosen environment.
LEMMA MergeOverrideKeeps == LoadInv /\ MergeOverride => LoadInv'
  <1> SUFFICES ASSUME LoadInv, MergeOverride PROVE LoadInv'
    OBVIOUS
  <1>1. /\ pc = "merge" /\ TypeOK /\ env = Chosen /\ env # Blank /\ env \in Envs
        /\ \A k \in Keys : cfg[k] = FromBase(k)
        /\ UNCHANGED <<flag, environ, base, env, logger>>
    BY DEF MergeOverride, LoadInv, BeforeOverride, TypeOK
  <1>2. Chosen' = Chosen /\ \A k : FromBase(k)' = FromBase(k)
    BY <1>1 DEF Chosen, FromBase, Over, FirstNonEmpty
  <1>3. ASSUME NEW file \in Files, overrides' = [overrides EXCEPT ![env] = file], Merge(file),
               pc' = "setenv"
        PROVE  LoadInv'
    <2>1. file \in File
      BY ConfigAssumption
    <2>2. overrides' \in [Envs -> File] /\ overrides'[env] = file
      BY <1>1, <1>3, <2>1 DEF TypeOK
    <2>3. OverrideOfChosen' = file
      BY <1>1, <1>2, <2>2 DEF OverrideOfChosen
    <2>4. cfg' \in Bootstrap /\ \A k \in Keys : cfg'[k] = Over(file, k, cfg[k])
      BY <1>1, <1>3, <2>1, MergeIsOver DEF TypeOK
    <2>5. \A k \in Keys : cfg'[k] = FromFiles(k)'
      BY <1>1, <1>2, <2>3, <2>4 DEF FromFiles, Over
    <2>6. TypeOK'
      BY <1>1, <1>3, <2>2, <2>4 DEF TypeOK
    <2> QED BY <1>1, <1>2, <1>3, <2>5, <2>6
         DEF LoadInv, BeforeOverride, AfterOverride, Judged, Keys, Settings
  <1>4. CASE CannotRead /\ UNCHANGED overrides
    BY <1>1, <1>4 DEF CannotRead, LoadInv, TypeOK, BeforeOverride, AfterOverride, Judged
  <1> QED BY <1>3, <1>4 DEF MergeOverride

LEMMA SetEnvKeeps == LoadInv /\ SetEnv => LoadInv'
  <1> SUFFICES ASSUME LoadInv, SetEnv PROVE LoadInv'
    OBVIOUS
  <1>1. /\ pc = "setenv" /\ pc' = "environ" /\ cfg' = [cfg EXCEPT !.env = env]
        /\ UNCHANGED <<flag, environ, base, overrides, env, logger>>
        /\ cfg \in Bootstrap /\ env \in Envs \cup {Blank}
    BY DEF SetEnv, LoadInv, TypeOK
  <1>2. cfg' \in Bootstrap /\ \A k \in Settings : cfg'[k] = cfg[k]
    BY <1>1 DEF Bootstrap, Settings
  <1>3. TypeOK'
    BY <1>1, <1>2 DEF LoadInv, TypeOK
  <1> QED BY <1>1, <1>2, <1>3, SourcesStay DEF LoadInv, BeforeOverride, AfterOverride, Judged

LEMMA ApplyEnvOverridesKeeps == LoadInv /\ ApplyEnvOverrides => LoadInv'
  <1> SUFFICES ASSUME LoadInv, ApplyEnvOverrides PROVE LoadInv'
    OBVIOUS
  <1>1. /\ pc = "environ" /\ pc' = "validate"
        /\ cfg' = [k \in Keys |-> FirstNonEmpty(environ[k], cfg[k])]
        /\ UNCHANGED <<flag, environ, base, overrides, env, logger>>
        /\ cfg \in Bootstrap /\ environ \in Bootstrap
        /\ \A k \in Settings : cfg[k] = FromFiles(k)
    BY DEF ApplyEnvOverrides, LoadInv, TypeOK, AfterOverride
  <1>2. \A k \in Keys : cfg'[k] = FirstNonEmpty(environ[k], cfg[k])
    BY <1>1
  <1>3. cfg' \in Bootstrap
    <2>1. /\ cfg'["env"] \in Envs \cup {Blank} /\ cfg'["level"] \in Levels \cup {Blank}
          /\ cfg'["ttl"] \in Ttls \cup {Blank} /\ cfg'["dsn"] \in Dsns \cup {Blank}
      BY <1>1, <1>2 DEF Bootstrap, FirstNonEmpty, Keys
    <2>2. cfg' = [k \in Keys |-> cfg'[k]]
      BY <1>1
    <2> QED BY <2>1, <2>2, BootstrapIsFunction
  <1>4. TypeOK'
    BY <1>1, <1>3 DEF LoadInv, TypeOK
  <1>5. \A k \in Settings : cfg'[k] = Documented(k)
    BY <1>1, <1>2 DEF Documented, FromFiles, FromBase, Keys, Settings
  <1> QED BY <1>1, <1>4, <1>5, SourcesStay DEF LoadInv, BeforeOverride, AfterOverride, Judged

\* What Validate asks is that every setting is usable.
LEMMA ValidateKeeps == LoadInv /\ Validate => LoadInv'
  <1> SUFFICES ASSUME LoadInv, Validate PROVE LoadInv'
    OBVIOUS
  <1>1. /\ pc = "validate" /\ pc' \in {"logger", "refused"}
        /\ UNCHANGED <<flag, environ, base, overrides, env, cfg, logger>>
    BY DEF Validate, Judge
  <1>2. Sound <=> /\ cfg.dsn # Blank /\ cfg.ttl \in Parsable
                  /\ cfg.level = Blank \/ Normal[cfg.level] \in Recognised
    BY DEF Sound, Usable, Settings
  <1>3. pc' = "logger" <=> Sound
    BY <1>2, ConfigAssumption DEF Validate, Judge
  <1>4. Sound' = Sound
    BY <1>1 DEF Sound, Usable
  <1>5. TypeOK'
    BY <1>1 DEF LoadInv, TypeOK
  <1> QED BY <1>1, <1>3, <1>4, <1>5, SourcesStay DEF LoadInv, BeforeOverride, AfterOverride, Judged

LEMMA NewLoggerKeeps == LoadInv /\ NewLogger => LoadInv'
  <1> SUFFICES ASSUME LoadInv, NewLogger PROVE LoadInv'
    OBVIOUS
  <1>1. /\ pc = "logger" /\ pc' = "run" /\ logger' \in Recognised
        /\ UNCHANGED <<flag, environ, base, overrides, env, cfg>>
    BY DEF NewLogger, Recognised
  <1>2. Sound' = Sound
    BY <1>1 DEF Sound, Usable
  <1>3. TypeOK'
    BY <1>1 DEF LoadInv, TypeOK
  <1> QED BY <1>1, <1>2, <1>3, SourcesStay DEF LoadInv, BeforeOverride, AfterOverride, Judged

LEMMA NextKeeps == LoadInv /\ [Next]_vars => LoadInv'
  <1> SUFFICES ASSUME LoadInv, [Next]_vars PROVE LoadInv'
    OBVIOUS
  <1>1. CASE UNCHANGED vars
    <2>1. Sound' = Sound /\ UNCHANGED <<flag, environ, base, overrides>>
      BY <1>1 DEF vars, Sound, Usable
    <2> QED BY <1>1, <2>1, SourcesStay
         DEF vars, LoadInv, TypeOK, BeforeOverride, AfterOverride, Judged
  <1>2. CASE Next
    BY <1>2, ReadBaseKeeps, ChooseEnvKeeps, StatOverrideKeeps, MergeOverrideKeeps, SetEnvKeeps,
       ApplyEnvOverridesKeeps, ValidateKeeps, NewLoggerKeeps DEF Next
  <1> QED BY <1>1, <1>2

-----------------------------------------------------------------------------
(* The theorems.                                                           *)

\* At every step of Load, cfg is what the sources read so far make of it.
THEOREM Invariance == Spec => []LoadInv
  <1> QED BY InitEstablishes, NextKeeps, PTL DEF Spec

\* The variables keep their types.
THEOREM TypeCorrect == Spec => []TypeOK
  <1>1. LoadInv => TypeOK
    BY DEF LoadInv
  <1> QED BY <1>1, Invariance, PTL

\* A service that starts has the settings of the documented order of sources,
\* the file of the chosen environment among them.
THEOREM Precedence == Spec => []SourcesInOrder
  <1>1. LoadInv => SourcesInOrder
    BY DEF LoadInv, AfterOverride, SourcesInOrder
  <1> QED BY <1>1, Invariance, PTL

\* Whether Load refuses is settled by what the sources together say, whatever
\* one of them says alone.
THEOREM Judgement == Spec => []JudgedAsAWhole
  <1>1. LoadInv => JudgedAsAWhole
    BY DEF LoadInv, AfterOverride, Judged, Sound, JudgedAsAWhole
  <1> QED BY <1>1, Invariance, PTL

=============================================================================
