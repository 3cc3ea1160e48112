--------------------------- MODULE MCResourceCalls ---------------------------
(* A sticky field that one proto does not take, over one call of each method and a  *)
(* second PUT.                                                                      *)
EXTENDS ResourceCalls

CallFields == {"field"}
CallProtos == {"static", "wireguard", "6in4"}
CallKnown == CallProtos \ {"6in4"}
CallSettings == [f \in CallFields |-> {"a"}]
CallExcluded == [p \in CallProtos |-> IF p = "static" THEN CallFields ELSE {}]
CallApplies == [f \in CallFields |-> CallProtos \ {"static"}]
CallDefault == [f \in CallFields |-> [p \in CallProtos |-> Null]]
CallHidden == {{}, {"proto"}}
CallProtoOf == [k \in {"interface", "singleton"} |->
                  IF k = "interface" THEN CallProtos ELSE {"static"}]
CallIds == {"post", "put", "put2", "patch", "delete"}
CallMethod == [c \in CallIds |->
                 CASE c = "post" -> "POST" [] c \in {"put", "put2"} -> "PUT"
                   [] c = "patch" -> "PATCH" [] c = "delete" -> "DELETE"]
=============================================================================
