--------------------------- MODULE MCBackupRestore ---------------------------
(* BackupRestore for TLC: its instances are given by the configurations      *)
(* alone.                                                                    *)
EXTENDS BackupRestore
=============================================================================
