------------------------------ MODULE MCDoctor ------------------------------
(* Checks for the constants of Doctor: a required file and an optional one,   *)
(* three required tools and an optional one.                                  *)
EXTENDS Doctor

MCStatic == <<Check("go.mod", TRUE, ""), Check("configs/config.local.yaml", FALSE, "")>>
MCToolChecks == <<Check("go", TRUE, ""), Check("buf", TRUE, ""), Check("wire", TRUE, ""),
                  Check("docker", FALSE, "")>>
MCInstalled == {"buf", "wire"}

=============================================================================
