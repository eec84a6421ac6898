----------------------------- MODULE MCManaged -----------------------------
EXTENDS ManagedStore

Scope(verifier, revision, mutation, spatial) ==
  [verifier |-> verifier, revision |-> revision, last |-> mutation, ccu |-> 1, rate |-> Unlimited,
   spatial |-> spatial, retired |-> FALSE]

\* An empty store, and the inventory of a migrated node: one closed scope with
\* a space, taken over at revision 1.
MCImports ==
  {[closed |-> 0, scopes |-> Nothing],
   [closed |-> 1,
    scopes |-> Assign(Nothing, <<1, 1>>,
                 Scope("v1", 1, MigrationBaseline, Assign(Nothing, 3, "cube")))]}

\* The operator configures <<1, 1>> in every way and reuses its credential for
\* <<1, 2>>, which straddles the closed history.
MCSent ==
  {q \in Requests :
     IF q.session = <<1, 1>>
     THEN CASE q.op = "put"   -> q.revision = 1 /\ q.verifier = "v1"
            [] q.op = "patch" -> q.revision > 1
            [] OTHER -> TRUE
     ELSE \/ q.op = "put" /\ q.revision = 1 /\ q.rate = Unlimited
          \/ q.op = "delete" /\ q.revision = 1}

MCSessions == {<<1, 1>>, <<1, 2>>}
=============================================================================
