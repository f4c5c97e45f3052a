----------------------- MODULE MCRepositoryLifecycle -----------------------
(* Small instances of RepositoryLifecycle for TLC.                           *)
EXTENDS RepositoryLifecycle
=============================================================================
