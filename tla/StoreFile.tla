----------------------------- MODULE StoreFile -----------------------------
(***************************************************************************)
(* A file as the stores use it: Path.write_text opens it, which truncates  *)
(* it, and then writes the whole text; Path.read_text reads all there is.  *)
(* A process can crash, and another can act, between the two.  Text that   *)
(* was not written to its end does not load: no proper prefix of a JSON    *)
(* object is JSON, and no shorter hexadecimal key has a key's length.      *)
(***************************************************************************)
EXTENDS Integers

Absent == [is |-> "absent"]
Torn == [is |-> "torn"]
Whole(value) == [is |-> "whole", value |-> value]

Contents(Values) == {Absent, Torn} \cup {Whole(v) : v \in Values}

\* Seeded fault: what cannot be parsed counts as an empty store.
LoadsLeniently(file, empty) ==
    IF file.is = "whole" THEN {file.value} ELSE {empty}

\* load(): the store read, none when it raises ValueError.
Loads(file, empty) ==
    CASE file.is = "whole" -> {file.value}
      [] file.is = "absent" -> {empty}
      [] file.is = "torn" -> {}
=============================================================================
