----------------------------- MODULE MCContentIds -----------------------------
(* Two resources and three contents.  Two contents share their id where the *)
(* id is of a part: the blob of a key without its comment, the name of a    *)
(* feed or token without the rest.  Of a section two choose a name each, and *)
(* the third leaves it to uapi.                                             *)
EXTENDS ContentIds

ChosenNames == [a1 |-> "n1", a2 |-> "n2", b |-> None]

SharedIds == [k \in Kinds |-> [c \in Contents |->
                CASE k = "section" -> ChosenNames[c]
                  [] k # "section" -> IF k # "cron" /\ c = "a2" THEN "a1" ELSE c]]
=============================================================================
