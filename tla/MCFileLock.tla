------------------------------ MODULE MCFileLock ------------------------------
(* Two processes that may be killed and one that may not, beside a garbage   *)
(* collector, over a few directories.                                       *)
EXTENDS FileLock

CONSTANTS a, b, g
===============================================================================
