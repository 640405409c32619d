---------------------------- MODULE MCConfigLoad ----------------------------
(* Two environments, three spellings of a level, two of a lifetime and one  *)
(* DSN for ConfigLoad; each file and the variables have up to two settings. *)
EXTENDS ConfigLoad, FiniteSets

MCEnvs == {"local", "test"}
MCLevels == {"info", "WARN", "loud"}
MCNormal == [l \in MCLevels |-> CASE l = "WARN" -> "warn" [] l = "loud" -> "none" [] OTHER -> l]
MCTtls == {"2h", "soon"}
MCParsable == {"2h"}
MCDsns == {"postgres"}
MCFiles == {f \in File : Cardinality({k \in Keys : f[k] # Absent}) <= 2}
MCEnvirons == {e \in Bootstrap : Cardinality({k \in Keys : e[k] # Blank}) <= 2}

=============================================================================
