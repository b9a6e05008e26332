----------------------------- MODULE MC_TaskFrom -----------------------------
EXTENDS TaskFrom

\* An invitation with its @id, and two from different inviters whose JSON
\* has none (the id parses as "").
MCInvitations == {[id |-> "inv-1", from |-> "alice"],
                  [id |-> "", from |-> "bob"],
                  [id |-> "", from |-> "carol"]}
\* The schema's type codes and one code outside it that names no typeID
\* key with any role.
MCTypes == 0..6
\* The same, and a code outside the schema whose key 10*role+12 aliases
\* entries of the table (12, 22, 32).
MCTypesAliasing == 0..6 \cup {12}
MCMaxCalls == 3
=============================================================================
