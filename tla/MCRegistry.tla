------------------------------ MODULE MCRegistry ------------------------------
(* Instances of Registry: what the program registers at startup.           *)
EXTENDS Registry

At(url, path, mode) == [url |-> url, path |-> path, mode |-> mode]

\* One file that may be registered in any mode.
EveryMode == {At("/a", "a", m) : m \in Modes}
\* The mode whose answers depend on more than the file.
Revalidated == {At("/a", "a", "DYN_RESIDENT")}
Streamed == {At("/a", "a", "DYN_STREAMED")}
===============================================================================
