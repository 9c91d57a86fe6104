------------------------------- MODULE MCRouter -------------------------------
(* Instances of Router: all tables of up to n routes. *)
EXTENDS Router

TablesUpTo(n) == UNION {[0 .. (m - 1) -> Route] : m \in 0 .. n}

MCTables2 == TablesUpTo(2)
MCTables3 == TablesUpTo(3)
MCContents == SUBSET Paths
NoContents == {{}}
===============================================================================
