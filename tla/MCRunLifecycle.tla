--------------------------- MODULE MCRunLifecycle ---------------------------
(* Two runs, one of them left behind by an earlier process.                  *)
EXTENDS RunLifecycle
=============================================================================
