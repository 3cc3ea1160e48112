----------------------------- MODULE WireValues -----------------------------
(***************************************************************************)
(* The values of one attribute on both sides of helpers.go: JSON as uapi    *)
(* answers and takes it, and the value that Terraform holds.  A value is a  *)
(* JSON type and its text, a sequence of words: one for a scalar, one for   *)
(* each entry of a list.                                                    *)
(***************************************************************************)
EXTENDS Naturals, Sequences

CONSTANT Numerals  \* the texts that strconv.Atoi takes, in canonical form

Types == {"string", "integer", "boolean", "array"}

Value(json, words) == [json |-> json, words |-> words]

Null    == Value("null", <<>>)
Unknown == Value("unknown", <<>>)
Absent  == Value("absent", <<>>)   \* a key that a JSON object does not have
Empty   == Value("array", <<>>)    \* the list []

\* What %v makes of a list: a string too, "[a b]".
Bracketed(words) == Value("bracketed", words)
IsString(v) == v.json \in {"string", "bracketed"}
-----------------------------------------------------------------------------
(* From an answer to Terraform.  w is the value of a key, Absent when it is  *)
(* missing; m what the model held before.                                    *)

strValVerbatim(w) == IF w \in {Absent, Null} THEN Null ELSE w

strVal(w) == CASE w \in {Absent, Null} -> Null
               [] IsString(w) -> w
               [] w.json = "array" -> Bracketed(w.words)
               [] OTHER -> Value("string", w.words)

boolVal(w)  == IF w.json = "boolean" THEN w ELSE Null
int64Val(w) == IF w.json = "integer" THEN w ELSE Null
listVal(w)  == IF w.json = "array" THEN w ELSE Null

listValForgetsEmpty(w, m) == listVal(w)

listValKeepEmpty(w, m) == IF listVal(w) = Null /\ m = Empty THEN m ELSE listVal(w)

boolValDefault(w) == IF boolVal(w) = Null THEN Value("boolean", <<"false">>) ELSE boolVal(w)
-----------------------------------------------------------------------------
(* From Terraform to a request. *)

putStr(v)   == IF v \in {Null, Unknown} THEN Absent ELSE v
putBool(v)  == putStr(v)
putList(v)  == putStr(v)

putInt64AsText(v) == IF v \in {Null, Unknown} THEN Absent ELSE Value("string", v.words)

putInt64(v) == putStr(v)

putIntOrStr(v) == IF v \in {Null, Unknown} THEN Absent
                  ELSE IF v.words[1] \in Numerals THEN Value("integer", v.words) ELSE v

\* Of one key: left out when unchanged, null when the planned body lacks it.
mergeDelta(planned, prior) == IF planned = prior THEN Absent
                              ELSE IF planned = Absent THEN Null ELSE planned
-----------------------------------------------------------------------------
(* state_upgrades.go: from a saved value of either shape to the new shape.   *)

firstOfList(w) == IF w.json # "array" THEN w
                  ELSE IF w.words = <<>> THEN Absent
                  ELSE Value("string", <<w.words[1]>>)

\* Brackets stick to the first and the last word; here they are words.
Fields(w) == IF w.json = "bracketed" THEN <<"[">> \o w.words \o <<"]">> ELSE w.words

wordsOfStringLeftAlone(w) == w

wordsOfString(w) == IF ~ IsString(w) THEN w
                    ELSE IF Fields(w) = <<>> THEN Absent
                    ELSE Value("array", Fields(w))

trimBrackets(w) == IF w.json = "bracketed" THEN Value("string", w.words) ELSE w
=============================================================================
