--------------------------- MODULE MCAttribution ---------------------------
(* Attribution alone: one address, listed by an entry, and another that a     *)
(* factory may have created.                                                  *)
EXTENDS Attribution

MCFactSets == {{}, {"factory"}}
MCEntryOf ==
  [rule \in Rules |-> CASE rule = "factory" -> "pools" [] rule = "list" -> "vaults" [] OTHER -> "accounts"]
MCRegistries == {[rules |-> {"factory"}, listed |-> [a \in {1} |-> "vaults"]]}
=============================================================================
