------------------------------ MODULE MCStorage ------------------------------
(***************************************************************************)
(* Storage with two paths that share the name of their backups.            *)
(***************************************************************************)
EXTENDS Storage

MCFiles == {"src/main.py", "src_main.py"}

MCBackupName == [f \in MCFiles |-> "src_main.py"]
=============================================================================
