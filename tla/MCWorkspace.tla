----------------------------- MODULE MCWorkspace -----------------------------
\* Two users, two workspaces, the names "Acme", "A b" and "Ab" (whose prefixes are
\* acme, ab and ab), one Jasmin besides the demo, two passwords.
EXTENDS Workspace, TLC

MCSlugOf  == "Acme" :> "acme" @@ "A b" :> "a-b" @@ "Ab" :> "ab"
MCSlug    == {"acme", "a-b", "ab"}
MCSqueeze == [s \in MCSlug |-> IF s = "a-b" THEN "ab" ELSE s]
MCAccepts == [h \in Host |-> CHOOSE s \in Secret \ Ciphertext : TRUE]
=============================================================================
