------------------------------ MODULE MCCatalog ------------------------------
(* Clients of the catalog for TLC: the session of main.cpp, and others that *)
(* rename, drop and create what it creates.                                 *)
EXTENDS Catalog, TLC

CONSTANTS t1, t2, t3, a, b

NewDatabase(n)    == [op |-> "CreateDatabase", name |-> n]
NewNamespace(n)   == [op |-> "CreateNamespace", name |-> n]
NewTable(n, cols) == [op |-> "CreateTable", name |-> n, ns |-> 1, columns |-> cols]
NewIndex(n)       == [op |-> "CreateIndex", name |-> n, ns |-> 1, rel |-> 1,
                      columns |-> <<a>>]
NewConstraint(n)  == [op |-> "CreateConstraint", name |-> n, ns |-> 1, rel |-> 1,
                      ind |-> 2, for |-> 1]
RenameDatabase(n)  == [op |-> "UpdateDatabaseName", oid |-> 1, name |-> n]
RenameNamespace(n) == [op |-> "UpdateNamespaceName", oid |-> 1, name |-> n]
RenameTable(n)     == [op |-> "UpdateTableName", oid |-> 1, name |-> n, ns |-> 1]
DropDatabase       == [op |-> "DeleteDatabase", oid |-> 1]
DropNamespace      == [op |-> "DeleteNamespace", oid |-> 1]

\* One scenario: the calls of the three clients.
Clients(s, u, v) == t1 :> s @@ t2 :> u @@ t3 :> v

MCScenarios ==
  {Clients(<<NewNamespace(a), NewTable(a, <<a>>), NewIndex(b), NewConstraint(a)>>,
           <<RenameTable(b)>>, <<RenameNamespace(b)>>),
   Clients(<<NewNamespace(a), NewTable(b, <<a, a>>), DropNamespace,
             NewTable(a, <<>>)>>,
           <<NewNamespace(b), NewTable(b, <<>>)>>, <<RenameNamespace(a)>>),
   Clients(<<NewDatabase(a), RenameDatabase(b)>>,
           <<RenameDatabase(b)>>, <<NewDatabase(a)>>),
   Clients(<<NewDatabase(a)>>, <<DropDatabase, DropDatabase>>,
           <<RenameDatabase(b), NewDatabase(a)>>)}
=============================================================================
