---------------------------- MODULE MCRecordForm ----------------------------
(* RecordForm for TLC: two owners, and texts with blanks around them. *)
EXTENDS RecordForm

MCTexts == {"", " ", "a", "an", "an ", "ann", "andy"}
MCTrimmed == [t \in MCTexts |-> IF t = " " THEN "" ELSE IF t = "an " THEN "an" ELSE t]
MCLength == [t \in MCTexts |-> CASE t = "" -> 0 [] t \in {" ", "a"} -> 1
                                 [] t = "an" -> 2 [] t \in {"an ", "ann"} -> 3
                                 [] t = "andy" -> 4]
MCOwners == {"o1", "o2"}
MCLabel == [o \in MCOwners |-> IF o = "o1" THEN "ann" ELSE "andy"]
=============================================================================
