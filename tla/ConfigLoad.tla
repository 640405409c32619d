----------------------------- MODULE ConfigLoad -----------------------------
(***************************************************************************)
(* conf.Load and the logger built from what it loads: defaults, the base   *)
(* file, the file of the chosen environment, environment variables and     *)
(* validation, one layer per step.  Of the settings four stand for all:    *)
(* app.env, which also chooses a file; log.level, which has a default and  *)
(* is checked, but may be blank; auth.jwt.access_token_ttl, which has a    *)
(* default, is checked and may not be blank (app.name, the issuer and the  *)
(* signing key are like it, without the check); and data.database.dsn,     *)
(* which has no default and may not be blank (like the server addresses).  *)
(*                                                                         *)
(* Files and variables are read once, so their contents are chosen at the  *)
(* step that reads them; a file may be unreadable or not parse, and one    *)
(* that was there for os.Stat may be gone for os.ReadFile.                 *)
(***************************************************************************)
EXTENDS Naturals

CONSTANTS
    Envs,     \* names of environments, the default one "local" among them
    Levels,   \* what someone may write for log.level
    Normal,   \* the level each of them is, trimmed and in lower case, or "none"
    Ttls,     \* what someone may write for auth.jwt.access_token_ttl
    Parsable, \* those of them that time.ParseDuration takes
    Dsns,     \* what someone may write for data.database.dsn
    Blank,    \* an empty string, or one of white space
    Absent,   \* a key a file does not have
    Files,    \* bound: what files may say
    Environs  \* bound: what the variables may say

Recognised == {"debug", "info", "warn", "error"}

Bootstrap == [env : Envs \cup {Blank}, level : Levels \cup {Blank},
              ttl : Ttls \cup {Blank}, dsn : Dsns \cup {Blank}]
File == [env : Envs \cup {Blank, Absent}, level : Levels \cup {Blank, Absent},
         ttl : Ttls \cup {Blank, Absent}, dsn : Dsns \cup {Blank, Absent}]

ASSUME ConfigAssumption ==
    /\ "local" \in Envs
    /\ "info" \in Levels
    /\ "2h" \in Parsable /\ Parsable \subseteq Ttls
    /\ Normal \in [Levels -> Recognised \cup {"none"}]
    /\ \A level \in Levels \cap Recognised : Normal[level] = level
    /\ Blank \notin Envs \cup Levels \cup Ttls \cup Dsns \cup {Absent}
    /\ Absent \notin Envs \cup Levels \cup Ttls \cup Dsns
    /\ Files \subseteq File
    /\ Environs \subseteq Bootstrap

VARIABLES
    flag,      \* -env
    environ,   \* APP_ENV, APP_LOG_LEVEL, APP_AUTH_JWT_ACCESS_TOKEN_TTL,
               \* APP_DATABASE_DSN; unset is Blank
    base,      \* what config.yaml says
    overrides, \* what config.{env}.yaml says, of the files Load has read
    env,       \* the environment Load works with
    cfg,       \* the Bootstrap being filled
    pc,
    logger     \* the level newLogger sets

vars == <<flag, environ, base, overrides, env, cfg, pc, logger>>

Keys == {"env", "level", "ttl", "dsn"}
Settings == {"level", "ttl", "dsn"}
Empty == [k \in Keys |-> Absent]

defaultBootstrap == [env |-> "local", level |-> "info", ttl |-> "2h", dsn |-> Blank]

\* firstNonEmpty: the first of two that is not blank, if one is.
FirstNonEmpty(a, b) == IF a # Blank THEN a ELSE b

TypeOK ==
    /\ flag \in Envs \cup {Blank}
    /\ environ \in Bootstrap
    /\ base \in File
    /\ overrides \in [Envs -> File]
    /\ env \in Envs \cup {Blank}
    /\ cfg \in Bootstrap
    /\ pc \in {"base", "choose", "stat", "merge", "setenv", "environ", "validate",
              "refused", "logger", "run", "unreadable"}
    /\ logger \in Recognised \cup {"none"}

Init ==
    /\ flag \in Envs \cup {Blank}
    /\ environ \in Environs
    /\ base = Empty
    /\ overrides = [e \in Envs |-> Empty]
    /\ env = Blank
    /\ cfg = defaultBootstrap
    /\ pc = "base"
    /\ logger = "none"

-----------------------------------------------------------------------------

CannotRead == pc' = "unreadable" /\ UNCHANGED cfg

\* (Faulty: a file replaces the settings it does not mention, too.)
Replace(file) == cfg' = file

\* mergeYAML: the keys a file has replace those of cfg, blank ones included.
Merge(file) == cfg' = [k \in Keys |-> IF file[k] = Absent THEN cfg[k] ELSE file[k]]

ReadBase ==
    /\ pc = "base"
    /\ \/ \E file \in Files : base' = file /\ Merge(file) /\ pc' = "choose"
       \/ CannotRead /\ UNCHANGED base
    /\ UNCHANGED <<flag, environ, overrides, env, logger>>

\* (Faulty: APP_ENV before -env, in the choice of the file as well.)
ChooseVariable ==
    /\ pc = "choose"
    /\ env' = FirstNonEmpty(environ.env, FirstNonEmpty(flag, cfg.env))
    /\ pc' = IF env' = Blank THEN "environ" ELSE "stat"
    /\ UNCHANGED <<flag, environ, base, overrides, cfg, logger>>

\* -env, or APP_ENV, or app.env; with none of them there is no override file.
ChooseEnv ==
    /\ pc = "choose"
    /\ env' = IF flag # Blank THEN flag ELSE FirstNonEmpty(environ.env, cfg.env)
    /\ pc' = IF env' = Blank THEN "environ" ELSE "stat"
    /\ UNCHANGED <<flag, environ, base, overrides, cfg, logger>>

\* exists(overridePath); an error of os.Stat counts as no.
StatOverride ==
    /\ pc = "stat"
    /\ pc' \in {"merge", "setenv"}
    /\ UNCHANGED <<flag, environ, base, overrides, env, cfg, logger>>

MergeOverride ==
    /\ pc = "merge"
    /\ \/ \E file \in Files :
             overrides' = [overrides EXCEPT ![env] = file] /\ Merge(file) /\ pc' = "setenv"
       \/ CannotRead /\ UNCHANGED overrides
    /\ UNCHANGED <<flag, environ, base, env, logger>>

\* cfg.App.Env = env
SetEnv ==
    /\ pc = "setenv"
    /\ cfg' = [cfg EXCEPT !.env = env]
    /\ pc' = "environ"
    /\ UNCHANGED <<flag, environ, base, overrides, env, logger>>

\* The variables replace what the files say, if they are not blank.
ApplyEnvOverrides ==
    /\ pc = "environ"
    /\ cfg' = [k \in Keys |-> FirstNonEmpty(environ[k], cfg[k])]
    /\ pc' = "validate"
    /\ UNCHANGED <<flag, environ, base, overrides, env, logger>>

Judge(sound) ==
    /\ pc = "validate"
    /\ pc' = IF sound THEN "logger" ELSE "refused"
    /\ UNCHANGED <<flag, environ, base, overrides, env, cfg, logger>>

\* (Faulty: the lifetime need not be a duration.)
ValidateUnparsed ==
    Judge(/\ cfg.dsn # Blank /\ cfg.ttl # Blank
          /\ cfg.level = Blank \/ Normal[cfg.level] \in Recognised)

\* Required settings are there, the lifetime is a duration as it is written, and
\* the level is one of four however it is written.
Validate ==
    Judge(/\ cfg.dsn # Blank /\ cfg.ttl # Blank
          /\ cfg.ttl \in Parsable
          /\ cfg.level = Blank \/ Normal[cfg.level] \in Recognised)

\* newLogger compares the level as it was written.
NewLogger ==
    /\ pc = "logger"
    /\ logger' = IF cfg.level \in {"debug", "warn", "error"} THEN cfg.level ELSE "info"
    /\ pc' = "run"
    /\ UNCHANGED <<flag, environ, base, overrides, env, cfg>>

Next ==
    \/ ReadBase \/ ChooseEnv \/ StatOverride \/ MergeOverride \/ SetEnv
    \/ ApplyEnvOverrides \/ Validate \/ NewLogger

Spec == Init /\ [][Next]_vars

-----------------------------------------------------------------------------
(* Properties.                                                             *)

\* What a key of a file leaves of the layers below it.
Over(file, k, below) == IF file[k] = Absent THEN below ELSE file[k]

\* The environment that -env, APP_ENV and app.env choose, in this order, and
\* what its file says; Load has read no other.
Chosen ==
    IF flag # Blank THEN flag ELSE FirstNonEmpty(environ.env, Over(base, "env", "local"))
OverrideOfChosen == IF Chosen = Blank THEN Empty ELSE overrides[Chosen]

\* The settings by the documented order of their sources.
Documented(k) ==
    FirstNonEmpty(environ[k], Over(OverrideOfChosen, k, Over(base, k, defaultBootstrap[k])))

\* A service that starts has for each setting the value of the first source in
\* the documented order that has one: no other layer shines through, and no
\* file of another environment than the one the flag, the variable and the base
\* file choose, whatever the file of that one says of app.env.
SourcesInOrder ==
    pc = "run" => \A k \in Settings : cfg[k] = Documented(k)

\* A value of a setting the service can start with.
Usable(k, value) ==
    CASE k = "level" -> value = Blank \/ Normal[value] \in Recognised
      [] k = "ttl" -> value \in Parsable
      [] k = "dsn" -> value # Blank

\* Load judges what the sources say together, not one layer of them: a later
\* source can spoil what an earlier one has right, by a blank as well, and put
\* right what an earlier one has wrong.
JudgedAsAWhole ==
    /\ pc = "run" => \A k \in Settings : Usable(k, Documented(k))
    /\ pc = "refused" => \E k \in Settings : ~Usable(k, Documented(k))

\* The documentation says that -env takes precedence over APP_ENV.
FlagWins == pc = "run" /\ flag # Blank => cfg.env = flag

\* The level Validate accepts is the level the logger has.
LevelIsHonoured == pc = "run" /\ cfg.level # Blank => logger = Normal[cfg.level]

=============================================================================
