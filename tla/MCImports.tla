----------------------------- MODULE MCImports -----------------------------
(* Two jobs of parts, of a file that updates a part and adds another one and *)
(* of a file with the code of a project, beside requests that write the same *)
(* parts.                                                                    *)
EXTENDS Imports, TLC

MCUsers == {"root", "ann"}

MCInitialUsers ==
  [u \in MCUsers |-> [active |-> TRUE, superuser |-> u = "root", roles |-> IF u = "ann" THEN {"clerks"} ELSE {}]]

MCTypeOf == [i \in {"p", "n", "m", "j"} |-> IF i = "j" THEN "project" ELSE "part"]

\* Clerks may create and edit parts, but give them no codes.
MCObjectGrants ==
  [g \in {"clerks"} \X {"part", "project"} |-> IF g[2] = "part" THEN {"create", "edit"} ELSE None]

MCRecordGrants == [g \in {"clerks"} \X {"p", "n", "m", "j"} |-> None]

Part(serial, note) == [serial |-> serial, note |-> note]

MCInitialRecords ==
  [i \in {"p", "n", "m", "j"} |->
     CASE i = "p" -> [code |-> "P-1", data |-> Part("none", "old")]
       [] i = "j" -> [code |-> "J-1", data |-> Part("none", "none")]
       [] OTHER -> None]

MCFiles ==
  {<<[code |-> "P-1", data |-> Part("s1", "absent")], [code |-> None, data |-> Part("s2", "new")]>>,
   <<[code |-> "P-2", data |-> Part("s1", "new")]>>,
   <<[code |-> "J-1", data |-> Part("none", "new")]>>,
   <<>>}

MCValidData == [{"serial", "note"} -> {"s1", "s2", "none", "old", "new"}]

MCRecordInputs == {Part("s1", "old")}

MCSymmetry == Permutations(Requests) \cup Permutations(Jobs)
=============================================================================
