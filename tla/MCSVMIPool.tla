---------------------------- MODULE MCSVMIPool ----------------------------
(* Three scopes on three threads, and a context to spare.                  *)
EXTENDS SVMIPool

CONSTANTS s1, s2, s3, c1, c2, c3, c4
MCScopes   == {s1, s2, s3}
MCContexts == {c1, c2, c3, c4}
===========================================================================
