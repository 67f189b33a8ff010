----------------------------- MODULE MCJDKLayer -----------------------------
(***************************************************************************)
(* Model-checking instance of JDKLayer: Java 8, 9 and 11 JDKs on both     *)
(* sides of the layout boundary, and a JDK whose version string does not   *)
(* parse but whose archive has the pre-9 layout; two certificate files,    *)
(* one of which is an alias the archive already ships, so that identical,  *)
(* conflicting and new certificates all occur.                             *)
(***************************************************************************)
EXTENDS JDKLayer, TLC

CONSTANTS f1, f2, c1, c2

MCDeps == {[version |-> 8, legacy |-> TRUE],
           [version |-> 9, legacy |-> FALSE],
           [version |-> 11, legacy |-> FALSE],
           [version |-> Unparsable, legacy |-> TRUE]}

MCFiles == {f1, f2}

MCContents == {c1, c2}

MCBase == (f1 :> c1) @@ (f2 :> Absent)

=============================================================================
