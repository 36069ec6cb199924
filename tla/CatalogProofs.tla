---------------------------- MODULE CatalogProofs ----------------------------
(***************************************************************************)
(* Proofs about Catalog, for any transactions and any clients.             *)
(*                                                                         *)
(* The argument has three parts.  (1) The steps of a call, read from any   *)
(* point on, enter each tuple they insert in every index of its table, so  *)
(* a call that gets to its end has done so (IndexesComplete).  (2) Of two  *)
(* tuples in a unique index under one key the later one was entered when   *)
(* the deletion of the earlier one was in its transaction's snapshot, and  *)
(* visibility is closed under that relation (UniqueNames).  (3) Nothing    *)
(* rewrites write_lock_, so one transaction gets it for ever, and until it *)
(* has committed all namespaces and classes are its own; a rename, which   *)
(* takes no lock, finds its object only afterwards (ExistsMeansVisible).   *)
(***************************************************************************)
EXTENDS Catalog, TransactionsProofs, WellFoundedInduction

\* The tables whose rows are created under the DDL lock and looked up by
\* ExistsNamespace and ExistsTable.
Shared == {"namespace", "class"}

\* A tuple's record exists in the undo buffer of its transaction.
IsRecord(r) ==
  \E w \in Txns : \E i \in 1 .. records[w] : r = <<w, i>>

\* The variables are functions of the transactions and sequences.
ShapeOK ==
  /\ IsSequence(tuples)
  /\ script \in [Txns -> Seq(Calls)]
  /\ DOMAIN todo = Txns /\ DOMAIN made = Txns /\ DOMAIN found = Txns
  /\ DOMAIN result = Txns

TuplesOK ==
  \A k \in DOMAIN tuples :
    /\ DOMAIN tuples[k] = {"table", "row", "ins", "del"}
    /\ IsRecord(tuples[k].ins)
    /\ tuples[k].del = Absent \/ IsRecord(tuples[k].del)

EntriesOK ==
  \A e \in entries :
    \E x \in Indexes, k \in DOMAIN tuples :
      e = <<x, k>> /\ tuples[k].table = AttrsFor[x][1]

\* What a call has made is its transaction's, and a call runs only in an
\* active transaction.
LocalsOK ==
  \A t \in Txns :
    /\ todo[t] # <<>> => state[t] = "active"
    /\ IsSequence(todo[t]) /\ IsSequence(made[t])
    /\ \A i \in DOMAIN made[t] :
         made[t][i] \in DOMAIN tuples /\ tuples[made[t][i]].ins[1] = t
    /\ found[t] # 0 => found[t] \in DOMAIN tuples

\* The steps s put no new tuple before position k.
SameTuple(s, k) == \A m \in 1 .. k : s[m].do # "insert"

\* The steps s enter each tuple they insert in every index of its table.
PutsComplete(s) ==
  \A j \in DOMAIN s : s[j].do = "insert" =>
    \A x \in IndexesOn(s[j].table) :
      \E k \in DOMAIN s : /\ j < k /\ s[k] = Enter(x)
                          /\ \A m \in j + 1 .. k : s[m].do # "insert"

\* An entry is made for a tuple of the index's table: the last one that the
\* steps insert, or the one made before.
EntersMatch(s, done, table) ==
  \A j \in DOMAIN s : s[j].do = "enter" =>
    /\ s[j].index \in Indexes
    /\ \/ /\ done /\ SameTuple(s, j)
          /\ table = AttrsFor[s[j].index][1]
       \/ \E i \in DOMAIN s : /\ i < j /\ s[i].do = "insert"
                              /\ s[i].table = AttrsFor[s[j].index][1]
                              /\ \A m \in i + 1 .. j : s[m].do # "insert"

\* Objects are looked up by oid in a shared table, and the oid is known.
LookupsOK(s) ==
  \A j \in DOMAIN s :
    /\ s[j].do = "exists" => s[j].table \in Shared
    /\ s[j].do = "find" => s[j].table \in Shared \cup {"database"}

\* TidsOf(table, oid) # {}, when the system tables and the indexes hold tups
\* and ents.
KnownIn(tups, ents, table, oid) ==
  \E k \in DOMAIN tups : /\ <<OidIndex[table], k>> \in ents
                         /\ BuildKey(OidIndex[table], tups[k].row) = <<oid>>

FindsKnown(s, tups, ents) ==
  \A j \in DOMAIN s : s[j].do = "find" => KnownIn(tups, ents, s[j].table, s[j].oid)

PlansOK ==
  \A t \in Txns :
    /\ PutsComplete(todo[t])
    /\ EntersMatch(todo[t], made[t] # <<>>, tuples[Tup(t)].table)
    /\ LookupsOK(todo[t])
    /\ FindsKnown(todo[t], tuples, entries)

\* Every tuple of a call that has not failed is in all its indexes, but for
\* those that the next steps enter the last tuple in.
EnteredSoFar ==
  \A t \in Txns : result[t] \in {"none", "ok"} =>
    \A i \in DOMAIN made[t] : \A x \in IndexesOn(tuples[made[t][i]].table) :
      \/ <<x, made[t][i]>> \in entries
      \/ /\ i = Len(made[t]) /\ todo[t] # <<>>
         /\ \E k \in DOMAIN todo[t] : todo[t][k] = Enter(x) /\ SameTuple(todo[t], k)

\* A call that is still running has reported nothing.
ResultsOK == \A t \in Txns : todo[t] # <<>> => result[t] = "none"

-----------------------------------------------------------------------------
\* A transaction commits after it began.
StartsFirst ==
  \A t \in Txns : state[t] \in {"stamping", "committed"} => start[t] < commit[t]

\* Transaction w began after d had committed, or it is d.
Follows(w, d) == w = d \/ (state[d] = "committed" /\ commit[d] <= start[w])

\* Tuple n was entered when the deletion of k was in its snapshot.
Replaces(n, k) ==
  /\ tuples[k].del # Absent
  /\ Follows(tuples[n].ins[1], tuples[k].del[1])

\* Of two tuples in a unique index under one key one replaced the other.
KeysReplaced ==
  \A e, f \in entries :
    /\ e[1] \in UniqueIndexes /\ f[1] = e[1] /\ e # f
    /\ BuildKey(e[1], tuples[e[2]].row) = BuildKey(e[1], tuples[f[2]].row)
    => Replaces(e[2], f[2]) \/ Replaces(f[2], e[2])

-----------------------------------------------------------------------------
Holds(t) == write_lock = FinishTime(t)

\* Nothing rewrites write_lock_: once taken it stays with its first holder.
LockOK == write_lock = 0 \/ \E h \in Txns : state[h] # "new" /\ Holds(h)

HolderDone == \E h \in Txns : Holds(h) /\ state[h] = "committed"

\* Until the holder of the lock has committed all namespaces and classes are
\* its own.
SharedOwned ==
  \A k \in DOMAIN tuples : tuples[k].table \in Shared =>
    \/ HolderDone
    \/ \E h \in Txns : /\ state[h] # "new" /\ Holds(h)
                       /\ tuples[k].ins[1] = h
                       /\ tuples[k].del = Absent \/ tuples[k].del[1] = h

\* The steps s look at no shared object and create none.
NoExists(s) == \A j \in DOMAIN s : s[j].do # "exists"
NoSharedPut(s) ==
  \A j \in DOMAIN s : s[j].do = "insert" => s[j].table \notin Shared

\* A call takes the lock first, or it is a rename: that looks its object up
\* first, or has found it, which shows that the holder has committed.
Guarded ==
  \A t \in Txns : todo[t] # <<>> =>
    \/ Head(todo[t]).do = "lock"
    \/ Holds(t)
    \/ /\ NoExists(todo[t])
       /\ \/ Head(todo[t]).do = "find" /\ Head(todo[t]).table \in Shared
          \/ HolderDone
          \/ NoSharedPut(todo[t])

CatalogInv ==
  /\ ShapeOK /\ TuplesOK /\ EntriesOK /\ LocalsOK /\ PlansOK /\ ResultsOK
  /\ EnteredSoFar /\ StartsFirst /\ KeysReplaced /\ LockOK /\ SharedOwned /\ Guarded

-----------------------------------------------------------------------------
(* Lemmas on sequences *)

(* Lemma: a sequence of a call's steps, seen as a function. *)
LEMMA SequenceFacts ==
  ASSUME NEW s, IsSequence(s)
  PROVE  /\ Len(s) \in Nat /\ DOMAIN s = 1 .. Len(s)
         /\ s = <<>> <=> Len(s) = 0
BY DEF IsSequence

(* Lemma: the rest of a call's steps after the first. *)
LEMMA TailFacts ==
  ASSUME NEW s, IsSequence(s), s # <<>>
  PROVE  /\ IsSequence(Tail(s)) /\ Len(Tail(s)) = Len(s) - 1 /\ Len(s) \in Nat \ {0}
         /\ \A i \in 1 .. Len(s) - 1 : Tail(s)[i] = s[i + 1]
         /\ Head(s) = s[1] /\ 1 \in DOMAIN s
<1> DEFINE S == {s[i] : i \in DOMAIN s}
           v == Tail(s)
<1>1. s \in Seq(S) /\ Len(s) \in Nat \ {0} /\ DOMAIN s = 1 .. Len(s)
  BY DEF IsSequence
<1>2. /\ Len(Tail(s)) = Len(s) - 1 /\ Head(s) = s[1] /\ Tail(s) \in Seq(S)
      /\ \A i \in 1 .. Len(s) - 1 : Tail(s)[i] = s[i + 1]
  BY <1>1
<1>3. IsSequence(v)
  <2> DEFINE T == {v[i] : i \in DOMAIN v}
  <2>0. v \in Seq(S) /\ Len(v) = Len(s) - 1
    BY <1>2
  <2>1. DOMAIN v = 1 .. Len(s) - 1
    BY <1>1, <2>0
  <2>2. \A i \in 1 .. Len(s) - 1 : v[i] \in T
    BY <2>1
  <2> HIDE DEF T, v
  <2>3. v \in Seq(T)
    BY <1>1, <2>0, <2>1, <2>2
  <2> QED
    BY <2>3 DEF IsSequence, T
<1> QED
  BY <1>1, <1>2, <1>3

(* Lemma: one part of a call's steps after another. *)
LEMMA ConcatFacts ==
  ASSUME NEW s, NEW u, IsSequence(s), IsSequence(u)
  PROVE  /\ IsSequence(s \o u) /\ Len(s \o u) = Len(s) + Len(u)
         /\ \A i \in 1 .. Len(s) : (s \o u)[i] = s[i]
         /\ \A i \in 1 .. Len(u) : (s \o u)[Len(s) + i] = u[i]
<1> DEFINE S == {s[i] : i \in DOMAIN s} \cup {u[i] : i \in DOMAIN u}
           v == s \o u
<1>1. s \in Seq(S) /\ u \in Seq(S)
  <2>1. /\ s \in Seq({s[i] : i \in DOMAIN s}) /\ u \in Seq({u[i] : i \in DOMAIN u})
    BY DEF IsSequence
  <2>2. Len(s) \in Nat /\ DOMAIN s = 1 .. Len(s) /\ Len(u) \in Nat /\ DOMAIN u = 1 .. Len(u)
    BY <2>1
  <2>3. \A i \in 1 .. Len(s) : s[i] \in S
    BY <2>2
  <2>4. \A i \in 1 .. Len(u) : u[i] \in S
    BY <2>2
  <2> HIDE DEF S
  <2> QED
    BY <2>1, <2>2, <2>3, <2>4
<1> HIDE DEF S
<1>2. /\ v \in Seq(S) /\ Len(v) = Len(s) + Len(u) /\ Len(s) \in Nat /\ Len(u) \in Nat
      /\ \A i \in 1 .. Len(s) : v[i] = s[i]
      /\ \A i \in 1 .. Len(u) : v[Len(s) + i] = u[i]
  BY <1>1
<1>3. IsSequence(v)
  <2> DEFINE T == {v[i] : i \in DOMAIN v}
  <2>1. DOMAIN v = 1 .. Len(v)
    BY <1>2
  <2>2. \A i \in 1 .. Len(v) : v[i] \in T
    BY <2>1
  <2> HIDE DEF T, v
  <2>3. v \in Seq(T)
    BY <1>2, <2>1, <2>2
  <2> QED
    BY <2>3 DEF IsSequence, T
<1> QED
  BY <1>2, <1>3

(* Lemma: a tuple id is added to those that a call has made. *)
LEMMA AppendFacts ==
  ASSUME NEW s, IsSequence(s), NEW x
  PROVE  /\ IsSequence(Append(s, x)) /\ Len(Append(s, x)) = Len(s) + 1
         /\ \A i \in 1 .. Len(s) : Append(s, x)[i] = s[i]
         /\ Append(s, x)[Len(s) + 1] = x /\ Append(s, x) # <<>>
<1> DEFINE S == {s[i] : i \in DOMAIN s} \cup {x}
           v == Append(s, x)
<1>1. s \in Seq(S) /\ x \in S
  <2>1. s \in Seq({s[i] : i \in DOMAIN s})
    BY DEF IsSequence
  <2>2. Len(s) \in Nat /\ DOMAIN s = 1 .. Len(s)
    BY <2>1
  <2>3. \A i \in 1 .. Len(s) : s[i] \in S
    BY <2>2
  <2>4. x \in S
    OBVIOUS
  <2> HIDE DEF S
  <2> QED
    BY <2>1, <2>2, <2>3, <2>4
<1> HIDE DEF S
<1>2. /\ v \in Seq(S) /\ Len(v) = Len(s) + 1 /\ Len(s) \in Nat
      /\ \A i \in 1 .. Len(s) : v[i] = s[i]
      /\ v[Len(s) + 1] = x
  BY <1>1
<1>3. IsSequence(v) /\ v # <<>>
  <2> DEFINE T == {v[i] : i \in DOMAIN v}
  <2>1. DOMAIN v = 1 .. Len(v)
    BY <1>2
  <2>2. \A i \in 1 .. Len(v) : v[i] \in T
    BY <2>1
  <2> HIDE DEF T, v
  <2>3. v \in Seq(T)
    BY <1>2, <2>1, <2>2
  <2> QED
    BY <1>2, <2>3 DEF IsSequence, T
<1> QED
  BY <1>2, <1>3

-----------------------------------------------------------------------------
(* Lemmas on the steps of calls *)

(* Lemma: the indexes of each system table. *)
LEMMA TableIndexes ==
  /\ Indexes = {"datoid", "datname", "nspoid", "nspname", "reloid", "relname",
                "relnamespace", "attnum", "attrelid_attname", "indoid", "indrelid",
                "conoid", "conname", "connamespace", "conrelid", "conindid",
                "confrelid"}
  /\ IndexesOn("database") = {"datoid", "datname"}
  /\ IndexesOn("namespace") = {"nspoid", "nspname"}
  /\ IndexesOn("class") = {"reloid", "relname", "relnamespace"}
  /\ IndexesOn("attribute") = {"attnum", "attrelid_attname"}
  /\ IndexesOn("index") = {"indoid", "indrelid"}
  /\ IndexesOn("constraint") = {"conoid", "conname", "connamespace", "conrelid",
                                "conindid", "confrelid"}
<1>1. Indexes = {"datoid", "datname", "nspoid", "nspname", "reloid", "relname",
                "relnamespace", "attnum", "attrelid_attname", "indoid", "indrelid",
                "conoid", "conname", "connamespace", "conrelid", "conindid",
                "confrelid"}
  BY DEF Indexes, AttrsFor
<1>2. /\ AttrsFor["datoid"][1] = "database" /\ AttrsFor["datname"][1] = "database"
      /\ AttrsFor["nspoid"][1] = "namespace" /\ AttrsFor["nspname"][1] = "namespace"
      /\ AttrsFor["reloid"][1] = "class" /\ AttrsFor["relname"][1] = "class"
      /\ AttrsFor["relnamespace"][1] = "class"
      /\ AttrsFor["attnum"][1] = "attribute"
      /\ AttrsFor["attrelid_attname"][1] = "attribute"
      /\ AttrsFor["indoid"][1] = "index" /\ AttrsFor["indrelid"][1] = "index"
      /\ AttrsFor["conoid"][1] = "constraint" /\ AttrsFor["conname"][1] = "constraint"
      /\ AttrsFor["connamespace"][1] = "constraint"
      /\ AttrsFor["conrelid"][1] = "constraint"
      /\ AttrsFor["conindid"][1] = "constraint"
      /\ AttrsFor["confrelid"][1] = "constraint"
  BY DEF AttrsFor
<1>3. IndexesOn("database") = {"datoid", "datname"}
  BY <1>1, <1>2 DEF IndexesOn
<1>4. IndexesOn("namespace") = {"nspoid", "nspname"}
  BY <1>1, <1>2 DEF IndexesOn
<1>5. IndexesOn("class") = {"reloid", "relname", "relnamespace"}
  BY <1>1, <1>2 DEF IndexesOn
<1>6. IndexesOn("attribute") = {"attnum", "attrelid_attname"}
  BY <1>1, <1>2 DEF IndexesOn
<1>7. IndexesOn("index") = {"indoid", "indrelid"}
  BY <1>1, <1>2 DEF IndexesOn
<1>8. IndexesOn("constraint") = {"conoid", "conname", "connamespace", "conrelid",
                                "conindid", "confrelid"}
  BY <1>1, <1>2 DEF IndexesOn
<1> QED
  BY <1>1, <1>3, <1>4, <1>5, <1>6, <1>7, <1>8

\* What the steps of a call have in common, read as a whole.
PlanOK(s) ==
  /\ IsSequence(s) /\ PutsComplete(s) /\ EntersMatch(s, FALSE, "none")
  /\ LookupsOK(s)

\* The kinds D of the steps s, the tables P they insert into and the lookups F
\* they make.
Form(s, D, P, F) ==
  \A j \in DOMAIN s :
    /\ s[j].do \in D
    /\ s[j].do = "insert" => s[j].table \in P
    /\ s[j].do = "find" => s[j] \in F

Part(s, D, P, F) == PlanOK(s) /\ Form(s, D, P, F)

(* Lemma: an index is on the table that IndexesOn lists it under. *)
LEMMA OnTable ==
  ASSUME NEW table, NEW x \in IndexesOn(table)
  PROVE  x \in Indexes /\ AttrsFor[x][1] = table
BY DEF IndexesOn

(* Lemma: a call made of two parts that are in order is in order. *)
LEMMA ConcatPlan ==
  ASSUME NEW s, NEW u, PlanOK(s), PlanOK(u)
  PROVE  PlanOK(s \o u)
<1> DEFINE v == s \o u
           a == Len(s)
           b == Len(u)
<1>1. /\ IsSequence(s) /\ IsSequence(u) /\ a \in Nat /\ b \in Nat
      /\ DOMAIN s = 1 .. a /\ DOMAIN u = 1 .. b
  BY SequenceFacts DEF PlanOK
<1>2. /\ IsSequence(v) /\ DOMAIN v = 1 .. a + b
      /\ \A i \in 1 .. a : v[i] = s[i]
      /\ \A i \in 1 .. b : v[a + i] = u[i]
  BY <1>1, ConcatFacts, SequenceFacts
<1> HIDE DEF v, a, b
<1>3. \A j \in 1 .. a + b :
        \/ j \in 1 .. a /\ v[j] = s[j]
        \/ j > a /\ j - a \in 1 .. b /\ v[j] = u[j - a]
  <2> SUFFICES ASSUME NEW j \in 1 .. a + b, j > a
               PROVE  j - a \in 1 .. b /\ v[j] = u[j - a]
    BY <1>1, <1>2
  <2>1. j - a \in 1 .. b /\ a + (j - a) = j
    BY <1>1
  <2> QED
    BY <1>2, <2>1
<1>4. PutsComplete(v)
  <2> SUFFICES ASSUME NEW j \in 1 .. a + b, v[j].do = "insert",
                      NEW x \in IndexesOn(v[j].table)
               PROVE  \E k \in 1 .. a + b :
                        /\ j < k /\ v[k] = Enter(x)
                        /\ \A m \in j + 1 .. k : v[m].do # "insert"
    BY <1>2 DEF PutsComplete
  <2>1. CASE j \in 1 .. a /\ v[j] = s[j]
    <3>1. PICK k \in 1 .. a : /\ j < k /\ s[k] = Enter(x)
                              /\ \A m \in j + 1 .. k : s[m].do # "insert"
      BY <1>1, <2>1 DEF PlanOK, PutsComplete
    <3>2. \A m \in j + 1 .. k : v[m] = s[m]
      BY <1>1, <1>2, <3>1
    <3>3. k \in 1 .. a + b /\ v[k] = Enter(x) /\ \A m \in j + 1 .. k : v[m].do # "insert"
      BY <1>1, <1>2, <3>1, <3>2
    <3> QED
      BY <3>1, <3>3
  <2>2. CASE j > a /\ j - a \in 1 .. b /\ v[j] = u[j - a]
    <3>1. PICK k \in 1 .. b : /\ j - a < k /\ u[k] = Enter(x)
                              /\ \A m \in (j - a) + 1 .. k : u[m].do # "insert"
      BY <1>1, <2>2 DEF PlanOK, PutsComplete
    <3>2. \A m \in j + 1 .. a + k : v[m].do # "insert"
      <4> SUFFICES ASSUME NEW m \in j + 1 .. a + k PROVE v[m].do # "insert"
        OBVIOUS
      <4>1. m - a \in (j - a) + 1 .. k /\ m \in 1 .. a + b /\ m > a
        BY <1>1, <2>2, <3>1
      <4>2. v[m] = u[m - a]
        BY <1>1, <1>3, <4>1
      <4> QED
        BY <3>1, <4>1, <4>2
    <3>3. a + k \in 1 .. a + b /\ j < a + k /\ v[a + k] = Enter(x)
      BY <1>1, <1>2, <2>2, <3>1
    <3> QED
      BY <3>2, <3>3
  <2> QED
    BY <1>3, <2>1, <2>2
<1>5. EntersMatch(v, FALSE, "none")
  <2> SUFFICES ASSUME NEW j \in 1 .. a + b, v[j].do = "enter"
               PROVE  /\ v[j].index \in Indexes
                      /\ \E i \in 1 .. a + b :
                           /\ i < j /\ v[i].do = "insert"
                           /\ v[i].table = AttrsFor[v[j].index][1]
                           /\ \A m \in i + 1 .. j : v[m].do # "insert"
    BY <1>2 DEF EntersMatch
  <2>1. CASE j \in 1 .. a /\ v[j] = s[j]
    <3>1. s[j].index \in Indexes
      BY <1>1, <2>1 DEF PlanOK, EntersMatch
    <3>2. PICK i \in 1 .. a : /\ i < j /\ s[i].do = "insert"
                              /\ s[i].table = AttrsFor[s[j].index][1]
                              /\ \A m \in i + 1 .. j : s[m].do # "insert"
      BY <1>1, <2>1 DEF PlanOK, EntersMatch
    <3>3. \A m \in i .. j : v[m] = s[m]
      BY <1>1, <1>2, <2>1, <3>2
    <3> QED
      BY <1>1, <2>1, <3>1, <3>2, <3>3
  <2>2. CASE j > a /\ j - a \in 1 .. b /\ v[j] = u[j - a]
    <3>1. u[j - a].index \in Indexes
      BY <1>1, <2>2 DEF PlanOK, EntersMatch
    <3>2. PICK i \in 1 .. b : /\ i < j - a /\ u[i].do = "insert"
                              /\ u[i].table = AttrsFor[u[j - a].index][1]
                              /\ \A m \in i + 1 .. (j - a) : u[m].do # "insert"
      BY <1>1, <2>2 DEF PlanOK, EntersMatch
    <3>3. \A m \in (a + i) + 1 .. j : v[m].do # "insert"
      <4> SUFFICES ASSUME NEW m \in (a + i) + 1 .. j PROVE v[m].do # "insert"
        OBVIOUS
      <4>1. m - a \in i + 1 .. (j - a) /\ m \in 1 .. a + b /\ m > a
        BY <1>1, <2>2, <3>2
      <4>2. v[m] = u[m - a]
        BY <1>1, <1>3, <4>1
      <4> QED
        BY <3>2, <4>1, <4>2
    <3>4. a + i \in 1 .. a + b /\ a + i < j /\ v[a + i] = u[i]
      BY <1>1, <1>2, <2>2, <3>2
    <3> QED
      BY <2>2, <3>1, <3>2, <3>3, <3>4
  <2> QED
    BY <1>3, <2>1, <2>2
<1>6. LookupsOK(v)
  BY <1>1, <1>2, <1>3 DEF LookupsOK, PlanOK
<1> QED
  BY <1>2, <1>4, <1>5, <1>6 DEF PlanOK, v

(* Lemma: a call made of two parts does what the parts do, and begins as   *)
(* the first part does.                                                    *)
LEMMA ConcatPart ==
  ASSUME NEW s, NEW u, NEW D, NEW P, NEW F, NEW E, NEW Q, NEW G,
         Part(s, D, P, F), Part(u, E, Q, G)
  PROVE  /\ Part(s \o u, D \cup E, P \cup Q, F \cup G)
         /\ s # <<>> => s \o u # <<>> /\ (s \o u)[1] = s[1]
<1>1. PlanOK(s \o u)
  BY ConcatPlan DEF Part
<1>2. /\ IsSequence(s) /\ IsSequence(u) /\ Len(s) \in Nat /\ Len(u) \in Nat
      /\ DOMAIN s = 1 .. Len(s) /\ DOMAIN u = 1 .. Len(u)
      /\ s # <<>> => Len(s) # 0
  BY SequenceFacts DEF Part, PlanOK
<1> DEFINE v == s \o u
<1>3. /\ IsSequence(v) /\ Len(v) = Len(s) + Len(u)
      /\ \A i \in 1 .. Len(s) : v[i] = s[i]
      /\ \A i \in 1 .. Len(u) : v[Len(s) + i] = u[i]
  BY <1>2, ConcatFacts
<1> HIDE DEF v
<1>4. DOMAIN v = 1 .. Len(s) + Len(u) /\ (v = <<>> <=> Len(v) = 0)
  BY <1>3, SequenceFacts
<1>5. Form(v, D \cup E, P \cup Q, F \cup G)
  <2> SUFFICES ASSUME NEW j \in 1 .. Len(s) + Len(u)
               PROVE  \/ \E i \in DOMAIN s : v[j] = s[i]
                      \/ \E i \in DOMAIN u : v[j] = u[i]
    BY <1>4 DEF Form, Part
  <2>1. CASE j <= Len(s)
    BY <1>2, <1>3, <2>1
  <2>2. CASE j > Len(s)
    <3>1. j - Len(s) \in 1 .. Len(u) /\ Len(s) + (j - Len(s)) = j
      BY <1>2, <2>2
    <3> QED
      BY <1>2, <1>3, <3>1
  <2> QED
    BY <1>2, <2>1, <2>2
<1>6. s # <<>> => v # <<>> /\ v[1] = s[1]
  BY <1>2, <1>3, <1>4
<1> QED
  BY <1>1, <1>5, <1>6 DEF Part, v

(* Lemma: a tuple of a table with two indexes and its entries. *)
LEMMA TwoEntries ==
  ASSUME NEW table, NEW row, NEW x, NEW y, IndexesOn(table) = {x, y}
  PROVE  Part(<<Put(table, row), Enter(x), Enter(y)>>,
              {"insert", "enter"}, {table}, {})
<1> DEFINE p == Put(table, row)
           s == <<p, Enter(x), Enter(y)>>
<1>1. IsSequence(s)
  BY DEF IsSequence
<1>2. /\ DOMAIN s = 1 .. 3 /\ s[1] = p /\ s[2] = Enter(x) /\ s[3] = Enter(y)
      /\ p.do = "insert" /\ p.table = table
      /\ \A z : Enter(z).do = "enter" /\ Enter(z).index = z
  BY DEF Put, Enter
<1>3. /\ x \in Indexes /\ AttrsFor[x][1] = table
      /\ y \in Indexes /\ AttrsFor[y][1] = table
  BY OnTable
<1> HIDE DEF p, s
<1>4. PutsComplete(s)
  BY <1>2 DEF PutsComplete
<1>5. EntersMatch(s, FALSE, "none")
  BY <1>2, <1>3 DEF EntersMatch
<1>6. LookupsOK(s)
  BY <1>2 DEF LookupsOK
<1>7. Form(s, {"insert", "enter"}, {table}, {})
  BY <1>2 DEF Form
<1> QED
  BY <1>1, <1>4, <1>5, <1>6, <1>7 DEF PlanOK, Part, s, p

(* Lemma: a tuple of a table with three indexes and its entries. *)
LEMMA ThreeEntries ==
  ASSUME NEW table, NEW row, NEW x, NEW y, NEW z, IndexesOn(table) = {x, y, z}
  PROVE  Part(<<Put(table, row), Enter(x), Enter(y), Enter(z)>>,
              {"insert", "enter"}, {table}, {})
<1> DEFINE p == Put(table, row)
           s == <<p, Enter(x), Enter(y), Enter(z)>>
<1>1. IsSequence(s)
  BY DEF IsSequence
<1>2. /\ DOMAIN s = 1 .. 4 /\ s[1] = p /\ s[2] = Enter(x) /\ s[3] = Enter(y)
      /\ s[4] = Enter(z) /\ p.do = "insert" /\ p.table = table
      /\ \A w : Enter(w).do = "enter" /\ Enter(w).index = w
  BY DEF Put, Enter
<1>3. /\ x \in Indexes /\ AttrsFor[x][1] = table
      /\ y \in Indexes /\ AttrsFor[y][1] = table
      /\ z \in Indexes /\ AttrsFor[z][1] = table
  BY OnTable
<1> HIDE DEF p, s
<1>4. PutsComplete(s)
  BY <1>2 DEF PutsComplete
<1>5. EntersMatch(s, FALSE, "none")
  BY <1>2, <1>3 DEF EntersMatch
<1>6. LookupsOK(s)
  BY <1>2 DEF LookupsOK
<1>7. Form(s, {"insert", "enter"}, {table}, {})
  BY <1>2 DEF Form
<1> QED
  BY <1>1, <1>4, <1>5, <1>6, <1>7 DEF PlanOK, Part, s, p

(* Lemma: the steps that insert nothing and enter nothing. *)
LEMMA PlainParts ==
  ASSUME NEW table, NEW oid
  PROVE  /\ Part(<<Lock>>, {"lock"}, {}, {})
         /\ Part(<<Map>>, {"map"}, {}, {})
         /\ Part(<<Unmap(oid)>>, {"unmap"}, {}, {})
         /\ table \in Shared =>
              Part(<<Lock, Exists(table, oid)>>, {"lock", "exists"}, {}, {})
         /\ table \in Shared \cup {"database"} =>
              Part(<<Find(table, oid), Drop>>, {"find", "drop"}, {},
                   {Find(table, oid)})
<1> USE DEF Part, PlanOK, IsSequence, PutsComplete, EntersMatch, LookupsOK, Form
<1>1. Part(<<Lock>>, {"lock"}, {}, {})
  BY DEF Lock
<1>2. Part(<<Map>>, {"map"}, {}, {})
  BY DEF Map
<1>3. Part(<<Unmap(oid)>>, {"unmap"}, {}, {})
  BY DEF Unmap
<1>4. table \in Shared =>
        Part(<<Lock, Exists(table, oid)>>, {"lock", "exists"}, {}, {})
  BY DEF Lock, Exists
<1>5. table \in Shared \cup {"database"} =>
        Part(<<Find(table, oid), Drop>>, {"find", "drop"}, {}, {Find(table, oid)})
  BY DEF Find, Drop
<1> QED
  BY <1>1, <1>2, <1>3, <1>4, <1>5

(* Lemma: a constraint is entered in its six indexes, with the lookups of  *)
(* what it refers to between them.                                         *)
LEMMA ConstraintPart ==
  ASSUME NEW c
  PROVE  Part(CreateConstraintEntry(c), {"insert", "enter", "exists"},
              {"constraint"}, {})
<1> DEFINE p == Put("constraint", BuildConstraintChunk(c))
           s == CreateConstraintEntry(c)
<1>1. IsSequence(s)
  BY DEF IsSequence, CreateConstraintEntry
<1>2. /\ DOMAIN s = 1 .. 11 /\ s[1] = p
      /\ s[2] = Enter("conoid") /\ s[3] = Enter("conname")
      /\ s[4] = Exists("namespace", c.ns) /\ s[5] = Enter("connamespace")
      /\ s[6] = Exists("class", c.rel) /\ s[7] = Enter("conrelid")
      /\ s[8] = Exists("class", c.ind) /\ s[9] = Enter("conindid")
      /\ s[10] = Exists("class", c.for) /\ s[11] = Enter("confrelid")
  BY DEF CreateConstraintEntry
<1>3. /\ p.do = "insert" /\ p.table = "constraint"
      /\ \A z : Enter(z).do = "enter" /\ Enter(z).index = z
      /\ \A t, o : Exists(t, o).do = "exists" /\ Exists(t, o).table = t
  BY DEF Put, Enter, Exists
<1> HIDE DEF p, s
<1>4. \A m \in 2 .. 11 : s[m].do # "insert"
  BY <1>2, <1>3
<1>5. PutsComplete(s)
  <2> SUFFICES ASSUME NEW x \in IndexesOn("constraint")
               PROVE  \E k \in 2 .. 11 : s[k] = Enter(x)
    BY <1>2, <1>3, <1>4 DEF PutsComplete
  <2> QED
    BY <1>2, TableIndexes
<1>6. EntersMatch(s, FALSE, "none")
  <2> SUFFICES ASSUME NEW j \in 1 .. 11, s[j].do = "enter"
               PROVE  s[j].index \in IndexesOn("constraint") /\ 1 < j
    BY <1>2, <1>3, <1>4, OnTable DEF EntersMatch
  <2> QED
    BY <1>2, <1>3, TableIndexes
<1>7. LookupsOK(s)
  BY <1>2, <1>3 DEF LookupsOK, Shared
<1>8. Form(s, {"insert", "enter", "exists"}, {"constraint"}, {})
  BY <1>2, <1>3 DEF Form
<1> QED
  BY <1>1, <1>5, <1>6, <1>7, <1>8 DEF PlanOK, Part, s

(* Lemma: the loop over the columns enters each column in both indexes of  *)
(* pg_attribute before it inserts the next one.                            *)
LEMMA ColumnsPart ==
  ASSUME NEW columns, IsSequence(columns)
  PROVE  Part(CreateColumns(columns), {"insert", "enter"}, {"attribute"}, {})
<1> DEFINE n == Len(columns)
           s == CreateColumns(columns)
           row(i) == BuildAttributeChunk(OfClass, columns[i])
<1>1. n \in Nat
  BY SequenceFacts
<1>2. /\ Len(CreateColumnEntry(New)) = 3
      /\ \A i : /\ CreateColumnEntry(columns[i])[1] = Put("attribute", row(i))
                /\ CreateColumnEntry(columns[i])[2] = Enter("attrelid_attname")
                /\ CreateColumnEntry(columns[i])[3] = Enter("attnum")
  BY DEF CreateColumnEntry
<1>3. s = [i \in 1 .. 3 * n |->
            CreateColumnEntry(columns[(i - 1) \div 3 + 1])[((i - 1) % 3) + 1]]
  BY <1>2 DEF CreateColumns
<1>4. /\ DOMAIN s = 1 .. 3 * n
      /\ \A i \in 1 .. 3 * n :
           s[i] = CreateColumnEntry(columns[(i - 1) \div 3 + 1])[((i - 1) % 3) + 1]
  BY <1>3
<1> HIDE DEF n, s
<1>5. \A q \in 0 .. n - 1 :
        /\ s[3 * q + 1] = Put("attribute", row(q + 1))
        /\ s[3 * q + 2] = Enter("attrelid_attname")
        /\ s[3 * q + 3] = Enter("attnum")
  <2> SUFFICES ASSUME NEW q \in 0 .. n - 1
               PROVE  /\ s[3 * q + 1] = Put("attribute", row(q + 1))
                      /\ s[3 * q + 2] = Enter("attrelid_attname")
                      /\ s[3 * q + 3] = Enter("attnum")
    OBVIOUS
  <2>1. /\ 3 * q + 1 \in 1 .. 3 * n /\ ((3 * q + 1) - 1) \div 3 = q
        /\ ((3 * q + 1) - 1) % 3 = 0
    BY <1>1
  <2>2. /\ 3 * q + 2 \in 1 .. 3 * n /\ ((3 * q + 2) - 1) \div 3 = q
        /\ ((3 * q + 2) - 1) % 3 = 1
    BY <1>1
  <2>3. /\ 3 * q + 3 \in 1 .. 3 * n /\ ((3 * q + 3) - 1) \div 3 = q
        /\ ((3 * q + 3) - 1) % 3 = 2
    BY <1>1
  <2>4. s[3 * q + 1] = CreateColumnEntry(columns[q + 1])[1]
    BY <1>4, <2>1
  <2>5. s[3 * q + 2] = CreateColumnEntry(columns[q + 1])[2]
    BY <1>4, <2>2
  <2>6. s[3 * q + 3] = CreateColumnEntry(columns[q + 1])[3]
    BY <1>4, <2>3
  <2> QED
    BY <1>2, <2>4, <2>5, <2>6
<1>6. \A j \in 1 .. 3 * n : \E q \in 0 .. n - 1 : j \in {3 * q + 1, 3 * q + 2, 3 * q + 3}
  <2> SUFFICES ASSUME NEW j \in 1 .. 3 * n
               PROVE  \E q \in 0 .. n - 1 : j \in {3 * q + 1, 3 * q + 2, 3 * q + 3}
    OBVIOUS
  <2> DEFINE q == (j - 1) \div 3
  <2>1. q \in 0 .. n - 1 /\ j \in {3 * q + 1, 3 * q + 2, 3 * q + 3}
    BY <1>1
  <2> QED
    BY <2>1
<1>7. /\ \A r : Put("attribute", r).do = "insert" /\ Put("attribute", r).table = "attribute"
      /\ \A z : Enter(z).do = "enter" /\ Enter(z).index = z
  BY DEF Put, Enter
<1> HIDE DEF row
<1>8. IsSequence(s)
  <2> DEFINE T == {s[i] : i \in DOMAIN s}
  <2>1. \A i \in 1 .. 3 * n : s[i] \in T
    BY <1>4
  <2>2. 3 * n \in Nat /\ s = [i \in 1 .. 3 * n |-> s[i]]
    BY <1>1, <1>3
  <2> HIDE DEF T
  <2>3. s \in Seq(T)
    BY <2>1, <2>2
  <2> QED
    BY <2>3 DEF IsSequence, T
<1>9. PutsComplete(s)
  <2> SUFFICES ASSUME NEW j \in 1 .. 3 * n, s[j].do = "insert",
                      NEW x \in IndexesOn(s[j].table)
               PROVE  \E k \in 1 .. 3 * n :
                        /\ j < k /\ s[k] = Enter(x)
                        /\ \A m \in j + 1 .. k : s[m].do # "insert"
    BY <1>4 DEF PutsComplete
  <2>1. PICK q \in 0 .. n - 1 : j \in {3 * q + 1, 3 * q + 2, 3 * q + 3}
    BY <1>6
  <2>2. j = 3 * q + 1 /\ s[j].table = "attribute"
    BY <1>5, <1>7, <2>1
  <2>3. x \in {"attnum", "attrelid_attname"}
    BY <2>2, TableIndexes
  <2>4. s[3 * q + 2].do # "insert" /\ s[3 * q + 3].do # "insert"
    BY <1>5, <1>7
  <2>5. CASE x = "attrelid_attname"
    <3>1. 3 * q + 2 \in 1 .. 3 * n /\ j < 3 * q + 2 /\ s[3 * q + 2] = Enter(x)
      BY <1>1, <1>5, <2>2, <2>5
    <3>2. \A m \in j + 1 .. 3 * q + 2 : m = 3 * q + 2
      BY <2>2
    <3> QED
      BY <2>4, <3>1, <3>2
  <2>6. CASE x = "attnum"
    <3>1. 3 * q + 3 \in 1 .. 3 * n /\ j < 3 * q + 3 /\ s[3 * q + 3] = Enter(x)
      BY <1>1, <1>5, <2>2, <2>6
    <3>2. \A m \in j + 1 .. 3 * q + 3 : m \in {3 * q + 2, 3 * q + 3}
      BY <2>2
    <3> QED
      BY <2>4, <3>1, <3>2
  <2> QED
    BY <2>3, <2>5, <2>6
<1>10. EntersMatch(s, FALSE, "none")
  <2> SUFFICES ASSUME NEW j \in 1 .. 3 * n, s[j].do = "enter"
               PROVE  /\ s[j].index \in Indexes
                      /\ \E i \in 1 .. 3 * n :
                           /\ i < j /\ s[i].do = "insert"
                           /\ s[i].table = AttrsFor[s[j].index][1]
                           /\ \A m \in i + 1 .. j : s[m].do # "insert"
    BY <1>4 DEF EntersMatch
  <2>1. PICK q \in 0 .. n - 1 : j \in {3 * q + 1, 3 * q + 2, 3 * q + 3}
    BY <1>6
  <2>2. j \in {3 * q + 2, 3 * q + 3} /\ s[j].index \in IndexesOn("attribute")
    BY <1>5, <1>7, <2>1, TableIndexes
  <2>3. s[j].index \in Indexes /\ AttrsFor[s[j].index][1] = "attribute"
    BY <2>2, OnTable
  <2>4. /\ 3 * q + 1 \in 1 .. 3 * n /\ 3 * q + 1 < j
        /\ \A m \in (3 * q + 1) + 1 .. j : m \in {3 * q + 2, 3 * q + 3}
    BY <1>1, <2>2
  <2>5. /\ s[3 * q + 1].do = "insert" /\ s[3 * q + 1].table = "attribute"
        /\ s[3 * q + 2].do # "insert" /\ s[3 * q + 3].do # "insert"
    BY <1>5, <1>7
  <2> QED
    BY <2>3, <2>4, <2>5
<1>11. \A j \in 1 .. 3 * n :
         /\ s[j].do \in {"insert", "enter"}
         /\ s[j].do = "insert" => s[j].table = "attribute"
  <2> SUFFICES ASSUME NEW j \in 1 .. 3 * n
               PROVE  /\ s[j].do \in {"insert", "enter"}
                      /\ s[j].do = "insert" => s[j].table = "attribute"
    OBVIOUS
  <2>1. PICK q \in 0 .. n - 1 : j \in {3 * q + 1, 3 * q + 2, 3 * q + 3}
    BY <1>6
  <2> QED
    BY <1>5, <1>7, <2>1
<1>12. LookupsOK(s) /\ Form(s, {"insert", "enter"}, {"attribute"}, {})
  BY <1>4, <1>11 DEF LookupsOK, Form
<1> QED
  BY <1>8, <1>9, <1>10, <1>12 DEF PlanOK, Part, s

\* The table in which a rename or a drop looks its object up.
ObjectTable(op) ==
  CASE op \in {"UpdateDatabaseName", "DeleteDatabase"} -> "database"
    [] op \in {"UpdateNamespaceName", "DeleteNamespace"} -> "namespace"
    [] op = "UpdateTableName" -> "class"

\* The first of the steps s takes the lock or looks a shared object up, where
\* the lock is needed.
StartsGuarded(s) ==
  \/ s[1].do = "lock"
  \/ /\ NoExists(s)
     /\ \/ s[1].do = "find" /\ s[1].table \in Shared
        \/ NoSharedPut(s)

\* What is to be shown of the steps s of a call c.
CallOK(c, s) ==
  /\ PlanOK(s) /\ s # <<>> /\ StartsGuarded(s)
  /\ \A j \in DOMAIN s : s[j].do = "find" =>
       c.op \in ObjectOps /\ s[j] = Find(ObjectTable(c.op), c.oid)

(* Lemma: a call that takes the DDL lock first is guarded. *)
LEMMA LockedCall ==
  ASSUME NEW c, NEW s, NEW D, NEW P, NEW F, Part(s, D, P, F),
         s # <<>>, s[1] = Lock,
         F \subseteq {Find(ObjectTable(c.op), c.oid)}, F # {} => c.op \in ObjectOps
  PROVE  CallOK(c, s)
<1>1. StartsGuarded(s)
  BY DEF StartsGuarded, Lock
<1> QED
  BY <1>1 DEF CallOK, Part, Form

(* Lemma: a call without the lock is guarded when it looks at no shared      *)
(* object and creates none, or renames one.                                  *)
LEMMA UnlockedCall ==
  ASSUME NEW c, NEW s, NEW D, NEW P, NEW F, Part(s, D, P, F),
         s # <<>>, "exists" \notin D,
         P \cap Shared = {} \/ (s[1].do = "find" /\ s[1].table \in Shared),
         F \subseteq {Find(ObjectTable(c.op), c.oid)}, F # {} => c.op \in ObjectOps
  PROVE  CallOK(c, s)
<1>1. NoExists(s)
  BY DEF NoExists, Part, Form
<1>2. P \cap Shared = {} => NoSharedPut(s)
  BY DEF NoSharedPut, Part, Form
<1> QED
  BY <1>1, <1>2 DEF CallOK, StartsGuarded, Part, Form

(* Lemma: the entries of databases, namespaces and tables.                   *)
LEMMA EntryParts ==
  ASSUME NEW name, NEW oid, NEW ns, NEW rel
  PROVE  /\ Part(CreateDatabaseEntry(name, oid), {"insert", "enter"}, {"database"}, {})
         /\ Part(CreateNamespaceEntry(name, oid), {"insert", "enter"}, {"namespace"}, {})
         /\ Part(CreateTableEntry(name, oid, ns), {"insert", "enter"}, {"class"}, {})
         /\ Part(CreateIndexEntry(name, rel), {"insert", "enter"}, {"index"}, {})
<1>1. Part(CreateDatabaseEntry(name, oid), {"insert", "enter"}, {"database"}, {})
  <2>1. IndexesOn("database") = {"datname", "datoid"}
    BY TableIndexes
  <2> QED
    BY <2>1, TwoEntries DEF CreateDatabaseEntry
<1>2. Part(CreateNamespaceEntry(name, oid), {"insert", "enter"}, {"namespace"}, {})
  <2>1. IndexesOn("namespace") = {"nspname", "nspoid"}
    BY TableIndexes
  <2> QED
    BY <2>1, TwoEntries DEF CreateNamespaceEntry
<1>3. Part(CreateTableEntry(name, oid, ns), {"insert", "enter"}, {"class"}, {})
  <2>1. IndexesOn("class") = {"relname", "relnamespace", "reloid"}
    BY TableIndexes
  <2> QED
    BY <2>1, ThreeEntries DEF CreateTableEntry
<1>4. Part(CreateIndexEntry(name, rel), {"insert", "enter"}, {"index"}, {})
  <2>1. IndexesOn("index") = {"indoid", "indrelid"}
    BY TableIndexes
  <2> QED
    BY <2>1, TwoEntries DEF CreateIndexEntry
<1> QED
  BY <1>1, <1>2, <1>3, <1>4

(* Lemma: the steps of every call are in order: each tuple is entered in all *)
(* indexes of its table, and the call takes the lock first or needs none.    *)
LEMMA CallPlan ==
  ASSUME NEW c \in Calls
  PROVE  CallOK(c, Steps(c))
<1>1. ASSUME c.op = "CreateDatabase" PROVE CallOK(c, Steps(c))
  <2> DEFINE s == <<Map>>
             u == CreateDatabaseEntry(c.name, Mapped)
  <2>1. Steps(c) = s \o u
    BY <1>1 DEF Steps, CreateDatabase
  <2>2. Part(s, {"map"}, {}, {}) /\ s # <<>>
    BY PlainParts
  <2>3. Part(u, {"insert", "enter"}, {"database"}, {})
    BY EntryParts
  <2> HIDE DEF s, u
  <2>4. /\ Part(s \o u, {"map"} \cup {"insert", "enter"}, {} \cup {"database"}, {} \cup {})
        /\ s \o u # <<>>
    BY <2>2, <2>3, ConcatPart
  <2> QED
    BY <2>1, <2>4, UnlockedCall DEF Shared
<1>2. ASSUME c.op = "DeleteDatabase" PROVE CallOK(c, Steps(c))
  <2> DEFINE s == <<Find("database", c.oid), Drop>>
             u == <<Unmap(c.oid)>>
             f == Find("database", c.oid)
  <2>1. Steps(c) = s \o u
    BY <1>2 DEF Steps, DeleteDatabase, DeleteDatabaseEntry
  <2>2. Part(s, {"find", "drop"}, {}, {f}) /\ s # <<>>
    BY PlainParts
  <2>3. Part(u, {"unmap"}, {}, {})
    BY PlainParts
  <2>4. f = Find(ObjectTable(c.op), c.oid) /\ c.op \in ObjectOps
    BY <1>2 DEF ObjectTable, ObjectOps
  <2> HIDE DEF s, u, f
  <2>5. /\ Part(s \o u, {"find", "drop"} \cup {"unmap"}, {} \cup {}, {f} \cup {})
        /\ s \o u # <<>>
    BY <2>2, <2>3, ConcatPart
  <2> QED
    BY <2>1, <2>4, <2>5, UnlockedCall
<1>3. ASSUME c.op = "UpdateDatabaseName" PROVE CallOK(c, Steps(c))
  <2> DEFINE s == <<Find("database", c.oid), Drop>>
             u == CreateDatabaseEntry(c.name, c.oid)
             f == Find("database", c.oid)
  <2>1. Steps(c) = s \o u
    BY <1>3 DEF Steps, UpdateDatabaseName, DeleteDatabaseEntry
  <2>2. Part(s, {"find", "drop"}, {}, {f}) /\ s # <<>>
    BY PlainParts
  <2>3. Part(u, {"insert", "enter"}, {"database"}, {})
    BY EntryParts
  <2>4. f = Find(ObjectTable(c.op), c.oid) /\ c.op \in ObjectOps
    BY <1>3 DEF ObjectTable, ObjectOps
  <2> HIDE DEF s, u, f
  <2>5. /\ Part(s \o u, {"find", "drop"} \cup {"insert", "enter"}, {} \cup {"database"},
                {f} \cup {})
        /\ s \o u # <<>>
    BY <2>2, <2>3, ConcatPart
  <2> QED
    BY <2>1, <2>4, <2>5, UnlockedCall DEF Shared
<1>4. ASSUME c.op = "CreateNamespace" PROVE CallOK(c, Steps(c))
  <2> DEFINE s == <<Lock>>
             u == CreateNamespaceEntry(c.name, New)
  <2>1. Steps(c) = s \o u
    BY <1>4 DEF Steps, CreateNamespace
  <2>2. Part(s, {"lock"}, {}, {}) /\ s # <<>> /\ s[1] = Lock
    BY PlainParts
  <2>3. Part(u, {"insert", "enter"}, {"namespace"}, {})
    BY EntryParts
  <2> HIDE DEF s, u
  <2>4. /\ Part(s \o u, {"lock"} \cup {"insert", "enter"}, {} \cup {"namespace"}, {} \cup {})
        /\ s \o u # <<>> /\ (s \o u)[1] = Lock
    BY <2>2, <2>3, ConcatPart
  <2> QED
    BY <2>1, <2>4, LockedCall
<1>5. ASSUME c.op = "DeleteNamespace" PROVE CallOK(c, Steps(c))
  <2> DEFINE s == <<Lock>>
             u == <<Find("namespace", c.oid), Drop>>
             f == Find("namespace", c.oid)
  <2>1. Steps(c) = s \o u
    BY <1>5 DEF Steps, DeleteNamespace, DeleteNamespaceEntry
  <2>2. Part(s, {"lock"}, {}, {}) /\ s # <<>> /\ s[1] = Lock
    BY PlainParts
  <2>3. Part(u, {"find", "drop"}, {}, {f})
    BY PlainParts DEF Shared
  <2>4. f = Find(ObjectTable(c.op), c.oid) /\ c.op \in ObjectOps
    BY <1>5 DEF ObjectTable, ObjectOps
  <2> HIDE DEF s, u, f
  <2>5. /\ Part(s \o u, {"lock"} \cup {"find", "drop"}, {} \cup {}, {} \cup {f})
        /\ s \o u # <<>> /\ (s \o u)[1] = Lock
    BY <2>2, <2>3, ConcatPart
  <2> QED
    BY <2>1, <2>4, <2>5, LockedCall
<1>6. ASSUME c.op = "UpdateNamespaceName" PROVE CallOK(c, Steps(c))
  <2> DEFINE s == <<Find("namespace", c.oid), Drop>>
             u == CreateNamespaceEntry(c.name, c.oid)
             f == Find("namespace", c.oid)
  <2>1. Steps(c) = s \o u
    BY <1>6 DEF Steps, UpdateNamespaceName, DeleteNamespaceEntry
  <2>2. Part(s, {"find", "drop"}, {}, {f}) /\ s # <<>> /\ s[1] = f
    BY PlainParts DEF Shared
  <2>3. Part(u, {"insert", "enter"}, {"namespace"}, {})
    BY EntryParts
  <2>4. f = Find(ObjectTable(c.op), c.oid) /\ c.op \in ObjectOps
    BY <1>6 DEF ObjectTable, ObjectOps
  <2>5. f.do = "find" /\ f.table \in Shared
    BY DEF Find, Shared
  <2> HIDE DEF s, u, f
  <2>6. /\ Part(s \o u, {"find", "drop"} \cup {"insert", "enter"}, {} \cup {"namespace"},
                {f} \cup {})
        /\ s \o u # <<>> /\ (s \o u)[1] = f
    BY <2>2, <2>3, ConcatPart
  <2> QED
    BY <2>1, <2>4, <2>5, <2>6, UnlockedCall
<1>7. ASSUME c.op = "UpdateTableName" PROVE CallOK(c, Steps(c))
  <2> DEFINE s == <<Find("class", c.oid), Drop>>
             u == CreateTableEntry(c.name, c.oid, c.ns)
             f == Find("class", c.oid)
  <2>1. Steps(c) = s \o u
    BY <1>7 DEF Steps, UpdateTableName, DeleteTableEntry
  <2>2. Part(s, {"find", "drop"}, {}, {f}) /\ s # <<>> /\ s[1] = f
    BY PlainParts DEF Shared
  <2>3. Part(u, {"insert", "enter"}, {"class"}, {})
    BY EntryParts
  <2>4. f = Find(ObjectTable(c.op), c.oid) /\ c.op \in ObjectOps
    BY <1>7 DEF ObjectTable, ObjectOps
  <2>5. f.do = "find" /\ f.table \in Shared
    BY DEF Find, Shared
  <2> HIDE DEF s, u, f
  <2>6. /\ Part(s \o u, {"find", "drop"} \cup {"insert", "enter"}, {} \cup {"class"},
                {f} \cup {})
        /\ s \o u # <<>> /\ (s \o u)[1] = f
    BY <2>2, <2>3, ConcatPart
  <2> QED
    BY <2>1, <2>4, <2>5, <2>6, UnlockedCall
<1>8. ASSUME c.op \in {"CreateTable", "CreateIndex"}
      PROVE  LET s == CreateIndexClass(c)
             IN  /\ Part(s, {"lock", "exists", "insert", "enter"}, {"class", "attribute"}, {})
                 /\ s # <<>> /\ s[1] = Lock
  <2> DEFINE s == <<Lock, Exists("namespace", c.ns)>>
             u == CreateTableEntry(c.name, New, c.ns)
             v == CreateColumns(c.columns)
  <2>1. CreateIndexClass(c) = (s \o u) \o v
    BY DEF CreateIndexClass
  <2>2. Part(s, {"lock", "exists"}, {}, {}) /\ s # <<>> /\ s[1] = Lock
    BY PlainParts DEF Shared
  <2>3. Part(u, {"insert", "enter"}, {"class"}, {})
    BY EntryParts
  <2>4. Part(v, {"insert", "enter"}, {"attribute"}, {})
    BY <1>8, ColumnsPart, CatalogAssumption
  <2> HIDE DEF s, u, v
  <2> DEFINE w == s \o u
  <2>5. /\ Part(w, {"lock", "exists"} \cup {"insert", "enter"}, {} \cup {"class"}, {} \cup {})
        /\ w # <<>> /\ w[1] = Lock
    BY <2>2, <2>3, ConcatPart
  <2>6. /\ {"lock", "exists"} \cup {"insert", "enter"} = {"lock", "exists", "insert", "enter"}
        /\ {} \cup {"class"} = {"class"} /\ {} \cup {} = {}
    OBVIOUS
  <2>7. Part(w, {"lock", "exists", "insert", "enter"}, {"class"}, {})
    BY <2>5, <2>6
  <2> HIDE DEF w
  <2>8. /\ Part(w \o v, {"lock", "exists", "insert", "enter"} \cup {"insert", "enter"},
                {"class"} \cup {"attribute"}, {} \cup {})
        /\ w \o v # <<>> /\ (w \o v)[1] = Lock
    BY <2>4, <2>5, <2>7, ConcatPart
  <2>9. /\ {"lock", "exists", "insert", "enter"} \cup {"insert", "enter"}
             = {"lock", "exists", "insert", "enter"}
        /\ {"class"} \cup {"attribute"} = {"class", "attribute"} /\ {} \cup {} = {}
    OBVIOUS
  <2>10. Part(w \o v, {"lock", "exists", "insert", "enter"}, {"class", "attribute"}, {})
    BY <2>8, <2>9
  <2> QED
    BY <2>1, <2>8, <2>10 DEF w
<1>9. ASSUME c.op = "CreateTable" PROVE CallOK(c, Steps(c))
  <2>1. Steps(c) = CreateIndexClass(c)
    BY <1>9 DEF Steps, CreateTable, CreateIndexClass
  <2> QED
    BY <1>8, <1>9, <2>1, LockedCall
<1>10. ASSUME c.op = "CreateIndex" PROVE CallOK(c, Steps(c))
  <2> DEFINE s == <<Lock, Exists("class", c.rel)>>
             u == CreateIndexClass(c)
             v == CreateIndexEntry(c.name, c.rel)
  <2>1. Steps(c) = (s \o u) \o v
    BY <1>10 DEF Steps, CreateIndex
  <2>2. Part(s, {"lock", "exists"}, {}, {}) /\ s # <<>> /\ s[1] = Lock
    BY PlainParts DEF Shared
  <2>3. Part(u, {"lock", "exists", "insert", "enter"}, {"class", "attribute"}, {})
    BY <1>8, <1>10
  <2>4. Part(v, {"insert", "enter"}, {"index"}, {})
    BY EntryParts
  <2> HIDE DEF s, u, v
  <2> DEFINE w == s \o u
             A == {"lock", "exists"} \cup {"lock", "exists", "insert", "enter"}
             B == {} \cup {"class", "attribute"}
             C == {} \cup {}
  <2>5. Part(w, A, B, C) /\ w # <<>> /\ w[1] = Lock
    BY <2>2, <2>3, ConcatPart
  <2>6. C = {}
    OBVIOUS
  <2> HIDE DEF w, A, B, C
  <2>7. /\ Part(w \o v, A \cup {"insert", "enter"}, B \cup {"index"}, C \cup {})
        /\ w \o v # <<>> /\ (w \o v)[1] = Lock
    BY <2>4, <2>5, ConcatPart
  <2> QED
    BY <2>1, <2>6, <2>7, LockedCall DEF w
<1>11. ASSUME c.op = "CreateConstraint" PROVE CallOK(c, Steps(c))
  <2> DEFINE s == <<Lock>>
             u == CreateConstraintEntry(c)
  <2>1. Steps(c) = s \o u
    BY <1>11 DEF Steps, CreateConstraint
  <2>2. Part(s, {"lock"}, {}, {}) /\ s # <<>> /\ s[1] = Lock
    BY PlainParts
  <2>3. Part(u, {"insert", "enter", "exists"}, {"constraint"}, {})
    BY ConstraintPart
  <2> HIDE DEF s, u
  <2>4. /\ Part(s \o u, {"lock"} \cup {"insert", "enter", "exists"},
                {} \cup {"constraint"}, {} \cup {})
        /\ s \o u # <<>> /\ (s \o u)[1] = Lock
    BY <2>2, <2>3, ConcatPart
  <2> QED
    BY <2>1, <2>4, LockedCall
<1>12. c.op \in CreateOps \cup ObjectOps
  BY CatalogAssumption
<1> QED
  BY <1>1, <1>2, <1>3, <1>4, <1>5, <1>6, <1>7, <1>9, <1>10, <1>11, <1>12
     DEF CreateOps, ObjectOps

-----------------------------------------------------------------------------
(* Lemmas on a call under way *)

(* Lemma: after its first step the rest of a call is still in order. *)
LEMMA RestInOrder ==
  ASSUME NEW s, IsSequence(s), s # <<>>, NEW done, NEW table,
         PutsComplete(s), EntersMatch(s, done, table), LookupsOK(s)
  PROVE  /\ PutsComplete(Tail(s)) /\ LookupsOK(Tail(s))
         /\ Head(s).do # "insert" => EntersMatch(Tail(s), done, table)
         /\ Head(s).do = "insert" => EntersMatch(Tail(s), TRUE, Head(s).table)
<1> DEFINE v == Tail(s)
           n == Len(s)
<1>1. /\ n \in Nat \ {0} /\ DOMAIN s = 1 .. n /\ Head(s) = s[1]
      /\ IsSequence(v) /\ Len(v) = n - 1
      /\ \A i \in 1 .. n - 1 : v[i] = s[i + 1]
  BY TailFacts, SequenceFacts
<1>2. DOMAIN v = 1 .. n - 1
  BY <1>1, SequenceFacts
<1> HIDE DEF v, n
<1>3. PutsComplete(v)
  <2> SUFFICES ASSUME NEW j \in 1 .. n - 1, v[j].do = "insert",
                      NEW x \in IndexesOn(v[j].table)
               PROVE  \E k \in 1 .. n - 1 :
                        /\ j < k /\ v[k] = Enter(x)
                        /\ \A m \in j + 1 .. k : v[m].do # "insert"
    BY <1>2 DEF PutsComplete
  <2>1. /\ j + 1 \in 1 .. n /\ v[j] = s[j + 1]
        /\ s[j + 1].do = "insert" /\ x \in IndexesOn(s[j + 1].table)
    BY <1>1
  <2>2. PICK k \in 1 .. n : /\ j + 1 < k /\ s[k] = Enter(x)
                            /\ \A m \in (j + 1) + 1 .. k : s[m].do # "insert"
    <3> DEFINE i == j + 1
    <3>1. i \in DOMAIN s /\ s[i].do = "insert" /\ x \in IndexesOn(s[i].table)
      BY <1>1, <2>1
    <3> HIDE DEF i
    <3>2. \E k \in DOMAIN s : /\ i < k /\ s[k] = Enter(x)
                              /\ \A m \in i + 1 .. k : s[m].do # "insert"
      BY <3>1 DEF PutsComplete
    <3> QED
      BY <1>1, <3>2 DEF i
  <2>3. k - 1 \in 1 .. n - 1 /\ j < k - 1 /\ v[k - 1] = s[k]
    BY <1>1, <2>2
  <2>4. ASSUME NEW m \in j + 1 .. (k - 1) PROVE v[m].do # "insert"
    <3>1. m \in 1 .. n - 1 /\ m + 1 \in (j + 1) + 1 .. k
      BY <1>1, <2>2, <2>3
    <3> QED
      BY <1>1, <2>2, <3>1
  <2> QED
    BY <2>2, <2>3, <2>4
<1>4. LookupsOK(v)
  <2> SUFFICES ASSUME NEW j \in 1 .. n - 1
               PROVE  j + 1 \in 1 .. n /\ v[j] = s[j + 1]
    BY <1>1, <1>2 DEF LookupsOK
  <2> QED
    BY <1>1
<1>5. ASSUME NEW j \in 1 .. n - 1, v[j].do = "enter", NEW i \in 2 .. n,
             i < j + 1, s[i].do = "insert",
             s[i].table = AttrsFor[v[j].index][1],
             \A m \in i + 1 .. j + 1 : s[m].do # "insert"
      PROVE  \E h \in DOMAIN v : /\ h < j /\ v[h].do = "insert"
                                 /\ v[h].table = AttrsFor[v[j].index][1]
                                 /\ \A m \in h + 1 .. j : v[m].do # "insert"
  <2>1. i - 1 \in 1 .. n - 1 /\ i - 1 < j /\ v[i - 1] = s[i]
    BY <1>1, <1>5
  <2>2. ASSUME NEW m \in (i - 1) + 1 .. j PROVE v[m].do # "insert"
    <3>1. m \in 1 .. n - 1 /\ m + 1 \in i + 1 .. j + 1
      BY <1>1, <1>5
    <3> QED
      BY <1>1, <1>5, <3>1
  <2> QED
    BY <1>2, <1>5, <2>1, <2>2
<1>6. ASSUME NEW j \in 1 .. n - 1, v[j].do = "enter"
      PROVE  /\ j + 1 \in 1 .. n /\ v[j] = s[j + 1] /\ v[j].index \in Indexes
             /\ \/ /\ done /\ SameTuple(s, j + 1)
                   /\ table = AttrsFor[v[j].index][1]
                \/ \E i \in 1 .. n : /\ i < j + 1 /\ s[i].do = "insert"
                                     /\ s[i].table = AttrsFor[v[j].index][1]
                                     /\ \A m \in i + 1 .. j + 1 : s[m].do # "insert"
  <2> DEFINE i == j + 1
  <2>1. i \in DOMAIN s /\ v[j] = s[i] /\ s[i].do = "enter"
    BY <1>1, <1>6
  <2> HIDE DEF i
  <2>2. /\ s[i].index \in Indexes
        /\ \/ /\ done /\ SameTuple(s, i) /\ table = AttrsFor[s[i].index][1]
           \/ \E h \in DOMAIN s : /\ h < i /\ s[h].do = "insert"
                                  /\ s[h].table = AttrsFor[s[i].index][1]
                                  /\ \A m \in h + 1 .. i : s[m].do # "insert"
    BY <2>1 DEF EntersMatch
  <2> QED
    BY <1>1, <2>1, <2>2 DEF i
<1>7. ASSUME NEW j \in 1 .. n - 1, SameTuple(s, j + 1)
      PROVE  SameTuple(v, j) /\ s[1].do # "insert"
  <2>1. \A m \in 1 .. j : m + 1 \in 1 .. j + 1 /\ v[m] = s[m + 1]
    BY <1>1
  <2>2. 1 \in 1 .. j + 1
    OBVIOUS
  <2> QED
    BY <1>7, <2>1, <2>2 DEF SameTuple
<1>8. ASSUME s[1].do # "insert" PROVE EntersMatch(v, done, table)
  <2> SUFFICES ASSUME NEW j \in 1 .. n - 1, v[j].do = "enter"
               PROVE  /\ v[j].index \in Indexes
                      /\ \/ /\ done /\ SameTuple(v, j)
                            /\ table = AttrsFor[v[j].index][1]
                         \/ \E i \in DOMAIN v :
                              /\ i < j /\ v[i].do = "insert"
                              /\ v[i].table = AttrsFor[v[j].index][1]
                              /\ \A m \in i + 1 .. j : v[m].do # "insert"
    BY <1>2 DEF EntersMatch
  <2>1. CASE done /\ SameTuple(s, j + 1) /\ table = AttrsFor[v[j].index][1]
    BY <1>6, <1>7, <2>1
  <2>2. ASSUME NEW i \in 1 .. n, i < j + 1, s[i].do = "insert",
               s[i].table = AttrsFor[v[j].index][1],
               \A m \in i + 1 .. j + 1 : s[m].do # "insert"
        PROVE  \E h \in DOMAIN v : /\ h < j /\ v[h].do = "insert"
                                   /\ v[h].table = AttrsFor[v[j].index][1]
                                   /\ \A m \in h + 1 .. j : v[m].do # "insert"
    <3>1. i \in 2 .. n
      BY <1>1, <1>8, <2>2
    <3> QED
      BY <1>5, <2>2, <3>1
  <2> QED
    BY <1>6, <2>1, <2>2
<1>9. ASSUME s[1].do = "insert" PROVE EntersMatch(v, TRUE, s[1].table)
  <2> SUFFICES ASSUME NEW j \in 1 .. n - 1, v[j].do = "enter"
               PROVE  /\ v[j].index \in Indexes
                      /\ \/ SameTuple(v, j) /\ s[1].table = AttrsFor[v[j].index][1]
                         \/ \E i \in DOMAIN v :
                              /\ i < j /\ v[i].do = "insert"
                              /\ v[i].table = AttrsFor[v[j].index][1]
                              /\ \A m \in i + 1 .. j : v[m].do # "insert"
    BY <1>2 DEF EntersMatch
  <2>1. ~SameTuple(s, j + 1)
    BY <1>7, <1>9
  <2>2. PICK i \in 1 .. n : /\ i < j + 1 /\ s[i].do = "insert"
                            /\ s[i].table = AttrsFor[v[j].index][1]
                            /\ \A m \in i + 1 .. j + 1 : s[m].do # "insert"
    BY <1>6, <2>1
  <2>3. CASE i = 1
    <3>1. \A m \in 1 .. j : m + 1 \in i + 1 .. j + 1 /\ v[m] = s[m + 1]
      BY <1>1, <2>3
    <3>2. SameTuple(v, j)
      BY <2>2, <3>1 DEF SameTuple
    <3> QED
      BY <1>6, <2>2, <2>3, <3>2
  <2>4. CASE i \in 2 .. n
    BY <1>5, <1>6, <2>2, <2>4
  <2> QED
    BY <1>1, <2>2, <2>3, <2>4
<1> QED
  BY <1>1, <1>3, <1>4, <1>8, <1>9 DEF v

(* Lemma: the entries still to be made for the last tuple, after a step that *)
(* inserts nothing.                                                          *)
LEMMA RestEnters ==
  ASSUME NEW s, IsSequence(s), s # <<>>, NEW x, NEW k \in DOMAIN s,
         s[k] = Enter(x), SameTuple(s, k)
  PROVE  \/ Head(s) = Enter(x)
         \/ /\ Tail(s) # <<>>
            /\ \E h \in DOMAIN Tail(s) : Tail(s)[h] = Enter(x) /\ SameTuple(Tail(s), h)
<1> DEFINE v == Tail(s)
           n == Len(s)
<1>1. /\ n \in Nat \ {0} /\ DOMAIN s = 1 .. n /\ Head(s) = s[1]
      /\ IsSequence(v) /\ Len(v) = n - 1
      /\ \A i \in 1 .. n - 1 : v[i] = s[i + 1]
  BY TailFacts, SequenceFacts
<1>2. DOMAIN v = 1 .. n - 1 /\ (v = <<>> <=> Len(v) = 0)
  BY <1>1, SequenceFacts
<1> HIDE DEF v, n
<1>3. CASE k = 1
  BY <1>1, <1>3
<1>4. CASE k # 1
  <2>1. k - 1 \in 1 .. n - 1 /\ v[k - 1] = s[k] /\ n - 1 # 0
    BY <1>1, <1>4
  <2>2. \A m \in 1 .. (k - 1) : m + 1 \in 1 .. k /\ v[m] = s[m + 1]
    BY <1>1, <1>4
  <2>3. SameTuple(v, k - 1)
    BY <2>2 DEF SameTuple
  <2> QED
    BY <1>1, <1>2, <2>1, <2>3 DEF v
<1> QED
  BY <1>3, <1>4

(* Lemma: the entries still to be made for a tuple just inserted. *)
LEMMA RestCompletes ==
  ASSUME NEW s, IsSequence(s), s # <<>>, PutsComplete(s), Head(s).do = "insert",
         NEW x \in IndexesOn(Head(s).table)
  PROVE  /\ Tail(s) # <<>>
         /\ \E h \in DOMAIN Tail(s) : Tail(s)[h] = Enter(x) /\ SameTuple(Tail(s), h)
<1> DEFINE v == Tail(s)
           n == Len(s)
<1>1. /\ n \in Nat \ {0} /\ DOMAIN s = 1 .. n /\ Head(s) = s[1]
      /\ IsSequence(v) /\ Len(v) = n - 1
      /\ \A i \in 1 .. n - 1 : v[i] = s[i + 1]
  BY TailFacts, SequenceFacts
<1>2. DOMAIN v = 1 .. n - 1 /\ (v = <<>> <=> Len(v) = 0)
  BY <1>1, SequenceFacts
<1> HIDE DEF v, n
<1>3. PICK k \in 1 .. n : /\ 1 < k /\ s[k] = Enter(x)
                          /\ \A m \in 1 + 1 .. k : s[m].do # "insert"
  BY <1>1 DEF PutsComplete
<1>4. k - 1 \in 1 .. n - 1 /\ v[k - 1] = s[k] /\ n - 1 # 0
  BY <1>1, <1>3
<1>5. \A m \in 1 .. (k - 1) : m + 1 \in 1 + 1 .. k /\ v[m] = s[m + 1]
  BY <1>1, <1>3
<1>6. SameTuple(v, k - 1)
  BY <1>3, <1>5 DEF SameTuple
<1> QED
  BY <1>1, <1>2, <1>3, <1>4, <1>6 DEF v

(* Lemma: what the rest of a call never does. *)
LEMMA RestGuarded ==
  ASSUME NEW s, IsSequence(s), s # <<>>
  PROVE  /\ NoExists(s) => NoExists(Tail(s))
         /\ NoSharedPut(s) => NoSharedPut(Tail(s))
         /\ \A j \in DOMAIN Tail(s) : \E i \in DOMAIN s : Tail(s)[j] = s[i]
<1> DEFINE v == Tail(s)
           n == Len(s)
<1>1. /\ n \in Nat \ {0} /\ DOMAIN s = 1 .. n
      /\ IsSequence(v) /\ Len(v) = n - 1
      /\ \A i \in 1 .. n - 1 : v[i] = s[i + 1]
  BY TailFacts, SequenceFacts
<1>2. DOMAIN v = 1 .. n - 1
  BY <1>1, SequenceFacts
<1> HIDE DEF v, n
<1>3. \A j \in DOMAIN v : j + 1 \in DOMAIN s /\ v[j] = s[j + 1]
  BY <1>1, <1>2
<1> QED
  BY <1>3 DEF NoExists, NoSharedPut, v

(* Lemma: DeleteUndoRaw changes one tuple in place. *)
LEMMA ExceptFacts ==
  ASSUME NEW s, IsSequence(s), NEW k \in DOMAIN s, NEW x
  PROVE  LET v == [s EXCEPT ![k] = x]
         IN  /\ IsSequence(v) /\ DOMAIN v = DOMAIN s
             /\ v[k] = x /\ \A i \in DOMAIN s \ {k} : v[i] = s[i]
<1> DEFINE v == [s EXCEPT ![k] = x]
           T == {v[i] : i \in DOMAIN v}
<1>1. Len(s) \in Nat /\ DOMAIN s = 1 .. Len(s)
  BY SequenceFacts
<1>2. DOMAIN v = DOMAIN s /\ v[k] = x /\ \A i \in DOMAIN s \ {k} : v[i] = s[i]
  OBVIOUS
<1>3. v = [i \in 1 .. Len(s) |-> v[i]]
  BY <1>1, <1>2
<1>4. \A i \in 1 .. Len(s) : v[i] \in T
  BY <1>1, <1>2
<1> HIDE DEF v, T
<1>5. v \in Seq(T)
  BY <1>1, <1>3, <1>4
<1> QED
  BY <1>2, <1>5 DEF IsSequence, T, v

-----------------------------------------------------------------------------
(* The kinds of steps and what they have in common *)

\* A step of transaction t as Transactions sees it.
TxnPart(t) ==
  \/ UNCHANGED txnVars
  \/ Begin(t) \/ NewUndoRecord(t) \/ Abort(t) \/ CommitLatch(t) \/ CallStep(t)

\* What no such step takes back.
TxnGrows(t) ==
  \A w \in Txns :
    /\ w # t => state'[w] = state[w]
    /\ records[w] <= records'[w]
    /\ state[w] # "new" => state'[w] # "new" /\ start'[w] = start[w]
    /\ state[w] = "committed" => state'[w] = "committed" /\ commit'[w] = commit[w]

\* A call returns before its end.
Stops(t) ==
  /\ todo[t] # <<>>
  /\ todo' = [todo EXCEPT ![t] = <<>>]
  /\ result' = [result EXCEPT ![t] = result'[t]] /\ result'[t] \notin {"none", "ok"}
  /\ UNCHANGED <<script, made, found, tuples, entries, write_lock>>

\* A step that changes nothing the invariant is about but the call's place.
Passes(t) ==
  /\ todo[t] # <<>> /\ Head(todo[t]).do \notin {"insert", "enter", "lock", "find"}
  /\ Done(t)
  /\ UNCHANGED <<txnVars, made, found, tuples, entries, write_lock>>

(* Lemma: a step of a transaction leaves the others where they are and takes *)
(* back no record, start time or commit.                                     *)
LEMMA TxnPartGrows ==
  ASSUME IInv, NEW t \in Txns, TxnPart(t)
  PROVE  TxnGrows(t)
<1>1. /\ state \in [Txns -> States] /\ start \in [Txns -> 0 .. TxnBit]
      /\ commit \in [Txns -> 0 .. TxnBit] /\ records \in [Txns -> 0 .. MaxRecords]
      /\ MaxRecords \in Nat
  BY TransactionsAssumption DEF IInv, TxnTypeOK
<1>2. \A w \in Txns : records[w] \in Nat
  BY <1>1
<1>3. CASE UNCHANGED txnVars
  BY <1>2, <1>3 DEF txnVars, TxnGrows
<1>4. CASE Begin(t)
  BY <1>1, <1>2, <1>4 DEF Begin, Move, TxnGrows
<1>5. CASE NewUndoRecord(t)
  <2>1. \A w \in Txns : records'[w] \in {records[w], records[w] + 1}
    BY <1>1, <1>5 DEF NewUndoRecord
  <2>2. \A w \in Txns : records[w] <= records'[w]
    BY <1>2, <2>1
  <2>3. UNCHANGED <<state, start, commit>>
    BY <1>5 DEF NewUndoRecord
  <2> QED
    BY <2>2, <2>3 DEF TxnGrows
<1>6. CASE Abort(t)
  BY <1>1, <1>2, <1>6 DEF Abort, Move, TxnGrows
<1>7. CASE CommitLatch(t)
  BY <1>1, <1>2, <1>7 DEF CommitLatch, Move, TxnGrows
<1>8. CASE BeginReturn(t)
  BY <1>1, <1>2, <1>8 DEF BeginReturn, Move, TxnGrows
<1>9. CASE CommitTime(t)
  BY <1>1, <1>2, <1>9 DEF CommitTime, Move, TxnGrows
<1>10. CASE Restamp(t)
  BY <1>1, <1>2, <1>10 DEF Restamp, TxnGrows
<1>11. CASE CommitReturn(t)
  BY <1>1, <1>2, <1>11 DEF CommitReturn, Move, TxnGrows
<1> QED
  BY <1>3, <1>4, <1>5, <1>6, <1>7, <1>8, <1>9, <1>10, <1>11 DEF TxnPart, CallStep

(* Lemma: a step of a call is one of a few kinds, and of its transaction it  *)
(* makes at most a record or an abort.                                       *)
LEMMA StepKinds ==
  ASSUME ShapeOK, NEW t \in Txns, CatalogStep(t)
  PROVE  /\ \/ Stops(t) \/ Passes(t) \/ TryLock(t) \/ InsertTuple(t)
            \/ EnterTuple(t) \/ FindTuple(t) \/ DropTuple(t)
         /\ TxnPart(t) /\ todo[t] # <<>>
<1>0. DOMAIN todo = Txns /\ DOMAIN result = Txns
  BY DEF ShapeOK
<1>1. ASSUME NEW what, Return(t, what), what \notin {"none", "ok"}, todo[t] # <<>>,
             UNCHANGED <<tuples, entries, write_lock>>
      PROVE  Stops(t)
  BY <1>0, <1>1 DEF Return, Stops
<1>2. CASE TryLock(t)
  BY <1>2 DEF TryLock, TxnPart, At
<1>3. CASE TryLockFails(t)
  <2> DEFINE v == IF call[t] \in {"CreateNamespace", "DeleteNamespace"}
                  THEN "fail" ELSE "INVALID_OID"
  <2>1. v \notin {"none", "ok"} /\ Return(t, v) /\ todo[t] # <<>>
        /\ UNCHANGED <<tuples, entries, write_lock>> /\ Abort(t)
    BY <1>3 DEF TryLockFails, dbVars, At
  <2> QED
    BY <1>1, <2>1 DEF TxnPart
<1>4. CASE InsertTuple(t)
  BY <1>4 DEF InsertTuple, TxnPart, At
<1>5. CASE EnterTuple(t)
  BY <1>5 DEF EnterTuple, TxnPart, At
<1>6. CASE EnterFails(t)
  BY <1>1, <1>6 DEF EnterFails, Fail, TxnPart, At
<1>7. CASE ExistsObject(t)
  BY <1>7 DEF ExistsObject, Passes, TxnPart, At, dbVars
<1>8. CASE ExistsFails(t)
  BY <1>1, <1>8 DEF ExistsFails, Fail, TxnPart, At
<1>9. CASE FindTuple(t)
  BY <1>9 DEF FindTuple, TxnPart, At
<1>10. CASE FindFails(t)
  BY <1>1, <1>10 DEF FindFails, Fail, TxnPart, At
<1>11. CASE DropNothing(t)
  BY <1>11 DEF DropNothing, Passes, TxnPart, At, dbVars
<1>12. CASE DropTuple(t)
  BY <1>12 DEF DropTuple, TxnPart, At
<1>13. CASE DropFails(t)
  BY <1>1, <1>13 DEF DropFails, Fail, TxnPart, At
<1>14. CASE MapDatabase(t)
  BY <1>14 DEF MapDatabase, Passes, TxnPart, At
<1>15. CASE RemoveMapping(t)
  BY <1>15 DEF RemoveMapping, Passes, TxnPart, At
<1>16. CASE RemoveMappingFails(t)
  BY <1>1, <1>16 DEF RemoveMappingFails, Fail, TxnPart, At
<1> QED
  BY <1>2, <1>3, <1>4, <1>5, <1>6, <1>7, <1>8, <1>9, <1>10, <1>11, <1>12, <1>13,
     <1>14, <1>15, <1>16 DEF CatalogStep

\* What no step of the catalog takes back: tuples are never overwritten, a
\* deletion stays, entries stay, and the lock is never released.
CatalogGrows ==
  /\ DOMAIN tuples \subseteq DOMAIN tuples'
  /\ \A k \in DOMAIN tuples :
       /\ DOMAIN tuples'[k] = {"table", "row", "ins", "del"}
       /\ tuples'[k].table = tuples[k].table
       /\ tuples'[k].row = tuples[k].row
       /\ tuples'[k].ins = tuples[k].ins
       /\ tuples[k].del # Absent => tuples'[k].del = tuples[k].del
  /\ entries \subseteq entries'
  /\ write_lock # 0 => write_lock' = write_lock

\* The calls of the other transactions stay where they are.
OthersStay(t) ==
  \A u \in Txns \ {t} :
    /\ todo'[u] = todo[u] /\ made'[u] = made[u] /\ found'[u] = found[u]
    /\ result'[u] = result[u]

\* A step of transaction t, by kind.
StepOf(t) ==
  \/ Stops(t) \/ Passes(t) \/ TryLock(t) \/ InsertTuple(t) \/ EnterTuple(t)
  \/ FindTuple(t) \/ DropTuple(t) \/ StartCall(t)
  \/ todo[t] = <<>> /\ UNCHANGED <<dbVars, callVars>>

(* Lemma: InsertTuple appends one tuple of the step's table. *)
LEMMA InsertFacts ==
  ASSUME ShapeOK, NEW t \in Txns, InsertTuple(t)
  PROVE  LET n == Len(tuples) + 1
         IN  /\ Len(tuples) \in Nat /\ DOMAIN tuples = 1 .. Len(tuples)
             /\ n \notin DOMAIN tuples /\ DOMAIN tuples' = DOMAIN tuples \cup {n}
             /\ IsSequence(tuples')
             /\ \A k \in DOMAIN tuples : tuples'[k] = tuples[k]
             /\ DOMAIN tuples'[n] = {"table", "row", "ins", "del"}
             /\ tuples'[n].table = Head(todo[t]).table
             /\ tuples'[n].ins = <<t, records[t] + 1>> /\ tuples'[n].del = Absent
<1>1. PICK r : tuples' = Append(tuples, [table |-> Step(t).table, row |-> r,
                                         ins |-> <<t, records[t] + 1>>, del |-> Absent])
  BY DEF InsertTuple
<1> DEFINE n == Len(tuples) + 1
           x == [table |-> Step(t).table, row |-> r,
                 ins |-> <<t, records[t] + 1>>, del |-> Absent]
<1>2. /\ DOMAIN x = {"table", "row", "ins", "del"} /\ x.table = Head(todo[t]).table
      /\ x.ins = <<t, records[t] + 1>> /\ x.del = Absent
  BY DEF Step
<1>3. tuples' = Append(tuples, x)
  BY <1>1
<1> HIDE DEF x
<1>4. IsSequence(tuples) /\ Len(tuples) \in Nat /\ DOMAIN tuples = 1 .. Len(tuples)
  BY SequenceFacts DEF ShapeOK
<1> DEFINE v == Append(tuples, x)
<1>5. /\ IsSequence(v) /\ Len(v) = Len(tuples) + 1
      /\ \A i \in 1 .. Len(tuples) : v[i] = tuples[i]
      /\ v[Len(tuples) + 1] = x
  BY <1>4, AppendFacts
<1> HIDE DEF v
<1>6. DOMAIN v = 1 .. Len(tuples) + 1
  BY <1>5, SequenceFacts
<1>7. n \notin DOMAIN tuples /\ DOMAIN v = DOMAIN tuples \cup {n}
  BY <1>4, <1>6
<1>8. tuples' = v
  BY <1>3 DEF v
<1> QED
  BY <1>2, <1>4, <1>5, <1>7, <1>8

(* Lemma: DeleteUndoRaw sets the deletion of one tuple that had none. *)
LEMMA DropFacts ==
  ASSUME ShapeOK, TuplesOK, LocalsOK, NEW t \in Txns, DropTuple(t)
  PROVE  LET d == found[t]
         IN  /\ d \in DOMAIN tuples /\ tuples[d].del = Absent
             /\ IsSequence(tuples') /\ DOMAIN tuples' = DOMAIN tuples
             /\ \A k \in DOMAIN tuples \ {d} : tuples'[k] = tuples[k]
             /\ DOMAIN tuples'[d] = {"table", "row", "ins", "del"}
             /\ tuples'[d].table = tuples[d].table /\ tuples'[d].row = tuples[d].row
             /\ tuples'[d].ins = tuples[d].ins
             /\ tuples'[d].del = <<t, records[t] + 1>>
<1> DEFINE d == found[t]
           x == [tuples[d] EXCEPT !.del = <<t, records[t] + 1>>]
<1>1. d \in DOMAIN tuples /\ tuples[d].del = Absent
  BY DEF DropTuple, LocalsOK, IsDeleted
<1>2. DOMAIN tuples[d] = {"table", "row", "ins", "del"}
  BY <1>1 DEF TuplesOK
<1>3. /\ DOMAIN x = {"table", "row", "ins", "del"} /\ x.table = tuples[d].table
      /\ x.row = tuples[d].row /\ x.ins = tuples[d].ins
      /\ x.del = <<t, records[t] + 1>>
  BY <1>2
<1>4. tuples' = [tuples EXCEPT ![d] = x]
  BY DEF DropTuple
<1> HIDE DEF x, d
<1> DEFINE v == [tuples EXCEPT ![d] = x]
<1>5. /\ IsSequence(v) /\ DOMAIN v = DOMAIN tuples
      /\ v[d] = x /\ \A i \in DOMAIN tuples \ {d} : v[i] = tuples[i]
  BY <1>1, ExceptFacts DEF ShapeOK
<1> HIDE DEF v
<1>6. tuples' = v
  BY <1>4 DEF v
<1> QED
  BY <1>1, <1>3, <1>5, <1>6 DEF d

(* Lemma: the DDL lock goes to its first taker and stays with it. *)
LEMMA LockStays ==
  ASSUME IInv, LockOK, NEW t \in Txns, TryLock(t)
  PROVE  write_lock # 0 => write_lock' = write_lock
<1> SUFFICES ASSUME write_lock # 0 PROVE write_lock' = write_lock
  OBVIOUS
<1>1. PICK h \in Txns : write_lock = FinishTime(h)
  BY DEF LockOK, Holds
<1>2. start[h] \in Nat /\ TxnBit \in Nat
  BY TransactionsAssumption DEF IInv, TxnTypeOK
<1>3. ~IsCommitted(write_lock)
  BY <1>1, <1>2 DEF FinishTime, IsCommitted
<1> QED
  BY <1>3 DEF TryLock, LockConflict, HasConflict

(* Lemma: every step has one of the kinds; it takes nothing back and leaves  *)
(* the calls of the other transactions alone.                                *)
LEMMA NextKinds ==
  ASSUME IInv, CatalogInv, CatalogNext
  PROVE  \E t \in Txns : /\ StepOf(t) /\ TxnPart(t) /\ TxnGrows(t)
                         /\ CatalogGrows /\ OthersStay(t)
                         /\ todo[t] # <<>> => state[t] = "active"
                         /\ todo'[t] # <<>> => state'[t] = "active"
<1>0. ShapeOK /\ TuplesOK /\ LocalsOK /\ LockOK
  BY DEF CatalogInv
<1>1. PICK t \in Txns : TxnStep(t) \/ StartCall(t) \/ CatalogStep(t)
  BY DEF CatalogNext
<1>2. StepOf(t) /\ TxnPart(t)
  <2>1. CASE TxnStep(t)
    BY <2>1 DEF TxnStep, StepOf, TxnPart, CallStep
  <2>2. CASE StartCall(t)
    BY <2>2 DEF StartCall, StepOf, TxnPart
  <2>3. CASE CatalogStep(t)
    BY <1>0, <2>3, StepKinds DEF StepOf
  <2> QED
    BY <1>1, <2>1, <2>2, <2>3
<1>3. TxnGrows(t)
  BY <1>2, TxnPartGrows
<1>4. CatalogGrows
  <2>1. CASE UNCHANGED <<tuples, entries, write_lock>>
    BY <1>0, <2>1 DEF CatalogGrows, TuplesOK
  <2>2. CASE TryLock(t)
    <3>1. write_lock # 0 => write_lock' = write_lock
      BY <1>0, <2>2, LockStays
    <3>2. UNCHANGED <<tuples, entries>>
      BY <2>2 DEF TryLock
    <3> QED
      BY <1>0, <3>1, <3>2 DEF CatalogGrows, TuplesOK
  <2>3. CASE InsertTuple(t)
    <3>1. UNCHANGED <<entries, write_lock>>
      BY <2>3 DEF InsertTuple
    <3>2. /\ DOMAIN tuples \subseteq DOMAIN tuples'
          /\ \A k \in DOMAIN tuples : tuples'[k] = tuples[k]
      BY <1>0, <2>3, InsertFacts
    <3> QED
      BY <1>0, <3>1, <3>2 DEF CatalogGrows, TuplesOK
  <2>4. CASE DropTuple(t)
    <3> DEFINE d == found[t]
    <3>1. UNCHANGED <<entries, write_lock>>
      BY <2>4 DEF DropTuple
    <3>2. /\ d \in DOMAIN tuples /\ tuples[d].del = Absent
          /\ DOMAIN tuples' = DOMAIN tuples
          /\ \A k \in DOMAIN tuples \ {d} : tuples'[k] = tuples[k]
          /\ DOMAIN tuples'[d] = {"table", "row", "ins", "del"}
          /\ tuples'[d].table = tuples[d].table /\ tuples'[d].row = tuples[d].row
          /\ tuples'[d].ins = tuples[d].ins
      BY <1>0, <2>4, DropFacts
    <3> HIDE DEF d
    <3> QED
      BY <1>0, <3>1, <3>2 DEF CatalogGrows, TuplesOK
  <2>5. CASE EnterTuple(t)
    <3>1. UNCHANGED <<tuples, write_lock>> /\ entries \subseteq entries'
      BY <2>5 DEF EnterTuple
    <3> QED
      BY <1>0, <3>1 DEF CatalogGrows, TuplesOK
  <2> QED
    BY <1>2, <2>1, <2>2, <2>3, <2>4, <2>5
       DEF StepOf, Stops, Passes, FindTuple, StartCall, dbVars
<1>5. OthersStay(t)
  <2>0. DOMAIN todo = Txns /\ DOMAIN made = Txns /\ DOMAIN found = Txns /\ DOMAIN result = Txns
    BY <1>0 DEF ShapeOK
  <2>1. CASE Stops(t)
    BY <2>0, <2>1 DEF OthersStay, Stops
  <2>2. CASE Passes(t)
    BY <2>0, <2>2 DEF OthersStay, Passes, Done
  <2>3. CASE TryLock(t)
    BY <2>0, <2>3 DEF OthersStay, TryLock, Done
  <2>4. CASE InsertTuple(t)
    BY <2>0, <2>4 DEF OthersStay, InsertTuple, Done
  <2>5. CASE EnterTuple(t)
    BY <2>0, <2>5 DEF OthersStay, EnterTuple, Done
  <2>6. CASE FindTuple(t)
    BY <2>0, <2>6 DEF OthersStay, FindTuple, Done
  <2>7. CASE DropTuple(t)
    BY <2>0, <2>7 DEF OthersStay, DropTuple, Done
  <2>8. CASE StartCall(t)
    BY <2>0, <2>8 DEF OthersStay, StartCall
  <2>9. CASE UNCHANGED callVars
    BY <2>9 DEF OthersStay, callVars
  <2> QED
    BY <1>2, <2>1, <2>2, <2>3, <2>4, <2>5, <2>6, <2>7, <2>8, <2>9 DEF StepOf
<1>6. todo[t] # <<>> => state[t] = "active"
  BY <1>0 DEF LocalsOK
<1>7. todo'[t] # <<>> => state'[t] = "active"
  <2>0. DOMAIN todo = Txns
    BY <1>0 DEF ShapeOK
  <2>1. CASE Stops(t)
    BY <2>0, <2>1 DEF Stops
  <2>2. CASE UNCHANGED txnVars /\ todo[t] # <<>>
    BY <1>6, <2>2 DEF txnVars
  <2>3. CASE NewUndoRecord(t) /\ todo[t] # <<>>
    BY <1>6, <2>3 DEF NewUndoRecord
  <2>4. CASE StartCall(t)
    BY <2>4 DEF StartCall, txnVars
  <2>5. CASE todo[t] = <<>> /\ UNCHANGED callVars
    BY <2>5 DEF callVars
  <2> QED
    BY <1>2, <2>1, <2>2, <2>3, <2>4, <2>5
       DEF StepOf, Passes, TryLock, InsertTuple, EnterTuple, FindTuple, DropTuple, At
<1> QED
  BY <1>2, <1>3, <1>4, <1>5, <1>6, <1>7

-----------------------------------------------------------------------------
(* Each part of the invariant is preserved *)

\* A step of transaction t with what it has in common with all others.
Stepping(t) ==
  /\ StepOf(t) /\ TxnPart(t) /\ TxnGrows(t) /\ CatalogGrows /\ OthersStay(t)
  /\ todo[t] # <<>> => state[t] = "active"
  /\ todo'[t] # <<>> => state'[t] = "active"

(* Lemma: GetTidForModify's first tuple is one of those it looked at. *)
LEMMA FirstFacts ==
  ASSUME NEW S \in SUBSET Nat, S # {}
  PROVE  First(S) \in S
<1> DEFINE R == OpToRel(<, Nat)
<1>1. IsWellFoundedOn(R, Nat)
  BY NatLessThanWellFounded
<1>2. \A a, b \in Nat : <<a, b>> \in R <=> a < b
  BY DEF OpToRel
<1> HIDE DEF R
<1>3. PICK k \in S : \A j \in S : ~(<<j, k>> \in R)
  BY <1>1, WFMin
<1>4. ASSUME NEW j \in S PROVE k <= j
  <2>1. j \in Nat /\ k \in Nat
    OBVIOUS
  <2>2. ~(j < k)
    BY <1>2, <1>3, <2>1
  <2> QED
    BY <2>1, <2>2
<1> QED
  BY <1>4 DEF First

(* Lemma: the records of an undo buffer stay in it. *)
LEMMA RecordsStay ==
  ASSUME IInv, IInv', NEW t \in Txns, TxnGrows(t)
  PROVE  \A w \in Txns : \A i \in 1 .. records[w] : i \in 1 .. records'[w]
<1>1. \A w \in Txns : /\ records[w] \in Nat /\ records'[w] \in Nat
                       /\ records[w] <= records'[w]
  BY TransactionsAssumption DEF IInv, TxnTypeOK, TxnGrows
<1> QED
  BY <1>1

(* Lemma: the record that a step makes. *)
LEMMA RecordMade ==
  ASSUME IInv, NEW t \in Txns, NewUndoRecord(t)
  PROVE  records[t] \in Nat /\ records[t] + 1 \in 1 .. records'[t]
<1>1. records[t] \in Nat /\ records'[t] = records[t] + 1
  BY TransactionsAssumption DEF IInv, TxnTypeOK, NewUndoRecord
<1> QED
  BY <1>1

(* Lemma: the variables keep their shape. *)
LEMMA ShapeNext ==
  ASSUME CatalogInv, NEW t \in Txns, StepOf(t)
  PROVE  ShapeOK'
<1>0. ShapeOK /\ TuplesOK /\ LocalsOK
  BY DEF CatalogInv
<1>1. IsSequence(tuples')
  <2>1. CASE UNCHANGED tuples
    BY <1>0, <2>1 DEF ShapeOK
  <2>2. CASE InsertTuple(t)
    BY <1>0, <2>2, InsertFacts
  <2>3. CASE DropTuple(t)
    BY <1>0, <2>3, DropFacts
  <2> QED
    BY <2>1, <2>2, <2>3
       DEF StepOf, Stops, Passes, TryLock, EnterTuple, FindTuple, StartCall, dbVars
<1>2. script' \in [Txns -> Seq(Calls)]
  <2>1. CASE UNCHANGED script
    BY <1>0, <2>1 DEF ShapeOK
  <2>2. CASE StartCall(t)
    <3>1. script \in [Txns -> Seq(Calls)] /\ script[t] # <<>>
      BY <1>0, <2>2 DEF ShapeOK, StartCall
    <3>2. Tail(script[t]) \in Seq(Calls)
      BY <3>1
    <3> QED
      BY <2>2, <3>1, <3>2 DEF StartCall
  <2> QED
    BY <2>1, <2>2
       DEF StepOf, Stops, Passes, TryLock, InsertTuple, EnterTuple, FindTuple,
           DropTuple, Done, callVars
<1>3. DOMAIN todo' = Txns /\ DOMAIN result' = Txns
  BY <1>0 DEF ShapeOK, StepOf, Stops, Passes, TryLock, InsertTuple, EnterTuple,
              FindTuple, DropTuple, StartCall, Done, callVars
<1>4. DOMAIN made' = Txns /\ DOMAIN found' = Txns
  BY <1>0 DEF ShapeOK, StepOf, Stops, Passes, TryLock, InsertTuple, EnterTuple,
              FindTuple, DropTuple, StartCall, Done, callVars
<1> QED
  BY <1>1, <1>2, <1>3, <1>4 DEF ShapeOK

(* Lemma: every version of a catalog tuple is a record of its transaction. *)
LEMMA TuplesNext ==
  ASSUME IInv, IInv', CatalogInv, NEW t \in Txns, Stepping(t)
  PROVE  TuplesOK'
<1>0. /\ ShapeOK /\ TuplesOK /\ LocalsOK
      /\ StepOf(t) /\ TxnGrows(t) /\ CatalogGrows
  BY DEF CatalogInv, Stepping
<1>1. \A w \in Txns : \A i \in 1 .. records[w] : i \in 1 .. records'[w]
  BY <1>0, RecordsStay
<1>2. ASSUME NEW k \in DOMAIN tuples
      PROVE  /\ DOMAIN tuples'[k] = {"table", "row", "ins", "del"}
             /\ \E w \in Txns : \E i \in 1 .. records'[w] : tuples'[k].ins = <<w, i>>
             /\ tuples[k].del # Absent =>
                  \E w \in Txns : \E i \in 1 .. records'[w] : tuples'[k].del = <<w, i>>
  <2>1. /\ DOMAIN tuples'[k] = {"table", "row", "ins", "del"}
        /\ tuples'[k].ins = tuples[k].ins
        /\ tuples[k].del # Absent => tuples'[k].del = tuples[k].del
    BY <1>0 DEF CatalogGrows
  <2>2. PICK w \in Txns : \E i \in 1 .. records[w] : tuples[k].ins = <<w, i>>
    BY <1>0 DEF TuplesOK, IsRecord
  <2>3. ASSUME tuples[k].del # Absent
        PROVE  \E u \in Txns : \E i \in 1 .. records'[u] : tuples'[k].del = <<u, i>>
    <3>1. PICK u \in Txns : \E i \in 1 .. records[u] : tuples[k].del = <<u, i>>
      BY <1>0, <2>3 DEF TuplesOK, IsRecord
    <3> QED
      BY <1>1, <2>1, <2>3, <3>1
  <2> QED
    BY <1>1, <2>1, <2>2, <2>3
<1>3. ASSUME InsertTuple(t) \/ DropTuple(t)
      PROVE  \E w \in Txns : \E i \in 1 .. records'[w] : <<t, records[t] + 1>> = <<w, i>>
  <2>1. NewUndoRecord(t)
    BY <1>3 DEF InsertTuple, DropTuple
  <2> QED
    BY <2>1, RecordMade
<1> SUFFICES ASSUME NEW k \in DOMAIN tuples'
             PROVE  /\ DOMAIN tuples'[k] = {"table", "row", "ins", "del"}
                    /\ \E w \in Txns : \E i \in 1 .. records'[w] : tuples'[k].ins = <<w, i>>
                    /\ \/ tuples'[k].del = Absent
                       \/ \E w \in Txns : \E i \in 1 .. records'[w] : tuples'[k].del = <<w, i>>
  BY DEF TuplesOK, IsRecord
<1>4. CASE UNCHANGED tuples
  BY <1>2, <1>4
<1>5. CASE InsertTuple(t)
  <2> DEFINE n == Len(tuples) + 1
  <2>1. /\ DOMAIN tuples' = DOMAIN tuples \cup {n}
        /\ \A h \in DOMAIN tuples : tuples'[h] = tuples[h]
        /\ DOMAIN tuples'[n] = {"table", "row", "ins", "del"}
        /\ tuples'[n].ins = <<t, records[t] + 1>> /\ tuples'[n].del = Absent
    BY <1>0, <1>5, InsertFacts
  <2> HIDE DEF n
  <2>2. CASE k = n
    BY <1>3, <1>5, <2>1, <2>2
  <2>3. CASE k \in DOMAIN tuples
    BY <1>2, <2>1, <2>3
  <2> QED
    BY <2>1, <2>2, <2>3
<1>6. CASE DropTuple(t)
  <2> DEFINE d == found[t]
  <2>1. /\ DOMAIN tuples' = DOMAIN tuples
        /\ \A h \in DOMAIN tuples \ {d} : tuples'[h] = tuples[h]
        /\ tuples'[d].del = <<t, records[t] + 1>>
    BY <1>0, <1>6, DropFacts
  <2> HIDE DEF d
  <2>2. CASE k = d
    BY <1>2, <1>3, <1>6, <2>1, <2>2
  <2>3. CASE k # d
    BY <1>2, <2>1, <2>3
  <2> QED
    BY <2>2, <2>3
<1> QED
  BY <1>0, <1>4, <1>5, <1>6
     DEF StepOf, Stops, Passes, TryLock, EnterTuple, FindTuple, StartCall, dbVars

(* Lemma: an entry is made for the last tuple of the call, which is of the   *)
(* index's table and the transaction's own.                                  *)
LEMMA EnterFacts ==
  ASSUME LocalsOK, PlansOK, NEW t \in Txns, EnterTuple(t)
  PROVE  LET x == Head(todo[t]).index
         IN  /\ x \in Indexes /\ Tup(t) \in DOMAIN tuples
             /\ tuples[Tup(t)].table = AttrsFor[x][1]
             /\ tuples[Tup(t)].ins[1] = t /\ Len(made[t]) \in DOMAIN made[t]
<1> DEFINE s == todo[t]
           m == made[t]
           tab == tuples[Tup(t)].table
<1>1. s # <<>> /\ Head(s).do = "enter" /\ IsSequence(s) /\ IsSequence(m)
  BY DEF EnterTuple, At, LocalsOK
<1>2. 1 \in DOMAIN s /\ Head(s) = s[1] /\ DOMAIN s = 1 .. Len(s)
  BY <1>1, TailFacts, SequenceFacts
<1>3. EntersMatch(s, m # <<>>, tab)
  BY DEF PlansOK
<1> HIDE DEF s, tab
<1>4. ~\E i \in DOMAIN s : i < 1
  BY <1>2
<1>5. /\ s[1].index \in Indexes /\ m # <<>> /\ tab = AttrsFor[s[1].index][1]
  BY <1>1, <1>2, <1>3, <1>4 DEF EntersMatch
<1>6. Len(m) \in DOMAIN m
  BY <1>1, <1>5, SequenceFacts
<1>7. m[Len(m)] \in DOMAIN tuples /\ tuples[m[Len(m)]].ins[1] = t
  BY <1>6 DEF LocalsOK
<1> QED
  BY <1>2, <1>5, <1>6, <1>7 DEF Tup, s, tab

(* Lemma: an index entry refers to a tuple of the index's table.        *)
LEMMA EntriesNext ==
  ASSUME CatalogInv, NEW t \in Txns, Stepping(t)
  PROVE  EntriesOK'
<1>0. /\ ShapeOK /\ EntriesOK /\ LocalsOK /\ PlansOK
      /\ StepOf(t) /\ CatalogGrows
  BY DEF CatalogInv, Stepping
<1>1. ASSUME NEW e \in entries
      PROVE  \E x \in Indexes, k \in DOMAIN tuples' :
               e = <<x, k>> /\ tuples'[k].table = AttrsFor[x][1]
  <2>1. PICK x \in Indexes, k \in DOMAIN tuples :
          e = <<x, k>> /\ tuples[k].table = AttrsFor[x][1]
    BY <1>0 DEF EntriesOK
  <2>2. k \in DOMAIN tuples' /\ tuples'[k].table = tuples[k].table
    BY <1>0 DEF CatalogGrows
  <2> QED
    BY <2>1, <2>2
<1>2. CASE UNCHANGED entries
  BY <1>1, <1>2 DEF EntriesOK
<1>3. CASE EnterTuple(t)
  <2> DEFINE x == Head(todo[t]).index
             k == Tup(t)
  <2>1. entries' = entries \cup {<<x, k>>} /\ tuples' = tuples
    BY <1>3 DEF EnterTuple, Step
  <2>2. x \in Indexes /\ k \in DOMAIN tuples /\ tuples[k].table = AttrsFor[x][1]
    BY <1>0, <1>3, EnterFacts
  <2> HIDE DEF x, k
  <2> QED
    BY <1>1, <2>1, <2>2 DEF EntriesOK
<1> QED
  BY <1>0, <1>2, <1>3
     DEF StepOf, Stops, Passes, TryLock, InsertTuple, FindTuple, DropTuple,
         StartCall, dbVars

(* Lemma: the tuple that GetTidForModify settles on exists, and conflicts    *)
(* when all that it looked at do.                                            *)
LEMMA FindFacts ==
  ASSUME ShapeOK, NEW t \in Txns, FindTuple(t)
  PROVE  LET tids == TidsOf(Head(todo[t]).table, Head(todo[t]).oid)
         IN  /\ found'[t] # 0 => found'[t] \in DOMAIN tuples
             /\ tids # {} => \E k \in tids : ~Conflicting(t, k)
<1> DEFINE tids == TidsOf(Head(todo[t]).table, Head(todo[t]).oid)
           some == Candidates(t, tids)
<1>1. Len(tuples) \in Nat /\ DOMAIN tuples = 1 .. Len(tuples)
  BY SequenceFacts DEF ShapeOK
<1>2. tids \subseteq DOMAIN tuples
  BY DEF TidsOf, GetTids
<1>3. some \subseteq tids
  BY DEF Candidates
<1>4. /\ some # {} => ~Conflicting(t, First(some))
      /\ found'[t] = IF some = {} THEN 0 ELSE First(some)
  BY DEF FindTuple, ShapeOK, Step
<1>5. \A k \in tids : k \notin some => ~Conflicting(t, k)
  BY DEF Candidates
<1> HIDE DEF tids, some
<1>6. some \in SUBSET Nat
  BY <1>1, <1>2, <1>3
<1>7. some # {} => First(some) \in some
  BY <1>6, FirstFacts
<1> QED
  BY <1>2, <1>3, <1>4, <1>5, <1>7 DEF tids

(* Lemma: a call runs in an active transaction, and what it has made and     *)
(* found are tuples.                                                         *)
LEMMA LocalsNext ==
  ASSUME CatalogInv, NEW t \in Txns, Stepping(t)
  PROVE  LocalsOK'
<1>0. /\ ShapeOK /\ LocalsOK /\ StepOf(t) /\ TxnGrows(t) /\ CatalogGrows /\ OthersStay(t)
      /\ todo'[t] # <<>> => state'[t] = "active"
      /\ DOMAIN todo = Txns /\ DOMAIN made = Txns /\ DOMAIN found = Txns
  BY DEF CatalogInv, Stepping, ShapeOK
<1>1. ASSUME NEW k \in DOMAIN tuples
      PROVE  k \in DOMAIN tuples' /\ tuples'[k].ins = tuples[k].ins
  BY <1>0 DEF CatalogGrows
<1>2. ASSUME NEW u \in Txns
      PROVE  /\ IsSequence(todo[u]) /\ IsSequence(made[u])
             /\ \A i \in DOMAIN made[u] :
                  made[u][i] \in DOMAIN tuples' /\ tuples'[made[u][i]].ins[1] = u
             /\ found[u] # 0 => found[u] \in DOMAIN tuples'
  BY <1>0, <1>1 DEF LocalsOK
<1>3. ASSUME NEW u \in Txns \ {t}, todo'[u] # <<>> PROVE state'[u] = "active"
  BY <1>0, <1>3 DEF OthersStay, TxnGrows, LocalsOK
<1>4. IsSequence(todo'[t])
  <2>1. CASE todo'[t] = <<>>
    BY <2>1 DEF IsSequence
  <2>2. CASE todo[t] # <<>> /\ todo'[t] = Tail(todo[t])
    BY <1>2, <2>2, TailFacts
  <2>3. CASE StartCall(t)
    <3>1. Head(script[t]) \in Calls /\ todo'[t] = Steps(Head(script[t]))
      BY <1>0, <2>3 DEF StartCall, ShapeOK
    <3> QED
      BY <3>1, CallPlan DEF CallOK, PlanOK
  <2>4. CASE todo'[t] = todo[t]
    BY <1>2, <2>4
  <2> QED
    BY <1>0, <2>1, <2>2, <2>3, <2>4
       DEF StepOf, Stops, Passes, TryLock, InsertTuple, EnterTuple, FindTuple,
           DropTuple, Done, At, callVars
<1>5. /\ IsSequence(made'[t])
      /\ \A i \in DOMAIN made'[t] :
           made'[t][i] \in DOMAIN tuples' /\ tuples'[made'[t][i]].ins[1] = t
  <2>1. CASE made'[t] = made[t]
    BY <1>2, <2>1
  <2>2. CASE StartCall(t)
    <3>1. made'[t] = <<>>
      BY <1>0, <2>2 DEF StartCall
    <3> QED
      BY <3>1 DEF IsSequence
  <2>3. CASE InsertTuple(t)
    <3> DEFINE n == Len(tuples) + 1
               v == Append(made[t], n)
    <3>1. made'[t] = v
      BY <1>0, <2>3 DEF InsertTuple
    <3>2. n \in DOMAIN tuples' /\ tuples'[n].ins[1] = t
      BY <1>0, <2>3, InsertFacts
    <3> HIDE DEF n
    <3>3. /\ IsSequence(v) /\ Len(v) = Len(made[t]) + 1
          /\ \A i \in 1 .. Len(made[t]) : v[i] = made[t][i]
          /\ v[Len(made[t]) + 1] = n
      BY <1>2, AppendFacts
    <3>4. Len(made[t]) \in Nat /\ DOMAIN made[t] = 1 .. Len(made[t])
      BY <1>2, SequenceFacts
    <3>5. DOMAIN v = 1 .. Len(made[t]) + 1
      BY <3>3, SequenceFacts
    <3> HIDE DEF v
    <3>6. ASSUME NEW i \in DOMAIN v
          PROVE  v[i] \in DOMAIN tuples' /\ tuples'[v[i]].ins[1] = t
      <4>1. CASE i = Len(made[t]) + 1
        BY <3>2, <3>3, <4>1
      <4>2. CASE i \in 1 .. Len(made[t])
        BY <1>2, <3>3, <3>4, <4>2
      <4> QED
        BY <3>4, <3>5, <4>1, <4>2
    <3> QED
      BY <3>1, <3>3, <3>6
  <2> QED
    BY <1>0, <2>1, <2>2, <2>3
       DEF StepOf, Stops, Passes, TryLock, EnterTuple, FindTuple, DropTuple, callVars
<1>6. found'[t] # 0 => found'[t] \in DOMAIN tuples'
  <2>1. CASE found'[t] = found[t]
    BY <1>2, <2>1
  <2>2. CASE FindTuple(t)
    BY <1>0, <1>1, <2>2, FindFacts
  <2> QED
    BY <1>0, <2>1, <2>2
       DEF StepOf, Stops, Passes, TryLock, InsertTuple, EnterTuple, DropTuple,
           StartCall, callVars
<1> SUFFICES ASSUME NEW u \in Txns
             PROVE  /\ todo'[u] # <<>> => state'[u] = "active"
                    /\ IsSequence(todo'[u]) /\ IsSequence(made'[u])
                    /\ \A i \in DOMAIN made'[u] :
                         made'[u][i] \in DOMAIN tuples' /\ tuples'[made'[u][i]].ins[1] = u
                    /\ found'[u] # 0 => found'[u] \in DOMAIN tuples'
  BY DEF LocalsOK, IsSequence
<1>7. CASE u = t
  BY <1>0, <1>4, <1>5, <1>6, <1>7
<1>8. CASE u # t
  <2>1. todo'[u] = todo[u] /\ made'[u] = made[u] /\ found'[u] = found[u]
    BY <1>0, <1>8 DEF OthersStay
  <2> QED
    BY <1>2, <1>3, <1>8, <2>1
<1> QED
  BY <1>7, <1>8

(* Lemma: an object is known when the index on its oid has an entry. *)
LEMMA KnownFacts ==
  ASSUME NEW table, NEW oid
  PROVE  TidsOf(table, oid) # {} <=> KnownIn(tuples, entries, table, oid)
BY DEF TidsOf, GetTids, KnownIn

(* Lemma: the objects that a call is to look up are still known. *)
LEMMA KnownStays ==
  ASSUME CatalogGrows, NEW s, FindsKnown(s, tuples, entries)
  PROVE  FindsKnown(s, tuples', entries')
<1>1. /\ entries \subseteq entries'
      /\ \A k \in DOMAIN tuples : k \in DOMAIN tuples' /\ tuples'[k].row = tuples[k].row
  BY DEF CatalogGrows
<1>2. ASSUME NEW table, NEW oid, KnownIn(tuples, entries, table, oid)
      PROVE  KnownIn(tuples', entries', table, oid)
  BY <1>1, <1>2 DEF KnownIn, BuildKey
<1> QED
  BY <1>2 DEF FindsKnown

(* Lemma: the rest of every call is in order after every step. *)
LEMMA PlansNext ==
  ASSUME CatalogInv, NEW t \in Txns, Stepping(t)
  PROVE  PlansOK'
<1>0. /\ ShapeOK /\ LocalsOK /\ PlansOK /\ StepOf(t) /\ CatalogGrows /\ OthersStay(t)
      /\ DOMAIN todo = Txns /\ DOMAIN made = Txns
  BY DEF CatalogInv, Stepping, ShapeOK
<1>1. ASSUME NEW u \in Txns, made[u] # <<>>
      PROVE  tuples'[made[u][Len(made[u])]].table = tuples[Tup(u)].table
  <2>1. IsSequence(made[u]) /\ Len(made[u]) \in DOMAIN made[u]
    BY <1>0, <1>1, SequenceFacts DEF LocalsOK
  <2>2. made[u][Len(made[u])] \in DOMAIN tuples
    BY <1>0, <2>1 DEF LocalsOK
  <2> QED
    BY <1>0, <2>2 DEF CatalogGrows, Tup
<1>2. ASSUME NEW s, NEW a, NEW b, EntersMatch(s, FALSE, a)
      PROVE  EntersMatch(s, FALSE, b)
  BY <1>2 DEF EntersMatch
\* A plan s, after the tuples m, with the tuples of the next state.
<1> DEFINE Plan(s, m) ==
             /\ PutsComplete(s) /\ LookupsOK(s)
             /\ EntersMatch(s, m # <<>>, tuples'[m[Len(m)]].table)
             /\ FindsKnown(s, tuples', entries')
<1>3. ASSUME NEW u \in Txns PROVE Plan(todo[u], made[u])
  <2>1. /\ EntersMatch(todo[u], made[u] # <<>>, tuples[Tup(u)].table)
        /\ PutsComplete(todo[u]) /\ LookupsOK(todo[u])
        /\ FindsKnown(todo[u], tuples, entries)
    BY <1>0 DEF PlansOK
  <2>2. EntersMatch(todo[u], made[u] # <<>>, tuples'[made[u][Len(made[u])]].table)
    <3>1. CASE made[u] # <<>>
      BY <1>1, <2>1, <3>1
    <3>2. CASE made[u] = <<>>
      <4>1. (made[u] # <<>>) = FALSE
        BY <3>2
      <4> QED
        BY <1>2, <2>1, <4>1
    <3> QED
      BY <3>1, <3>2
  <2>3. FindsKnown(todo[u], tuples', entries')
    BY <1>0, <2>1, KnownStays
  <2> QED
    BY <2>1, <2>2, <2>3
<1>4. Plan(todo'[t], made'[t])
  <2>1. CASE todo'[t] = <<>>
    BY <2>1 DEF PutsComplete, LookupsOK, EntersMatch, FindsKnown
  <2>2. CASE todo'[t] = todo[t] /\ made'[t] = made[t]
    BY <1>3, <2>2
  <2>3. CASE StartCall(t)
    <3> DEFINE c == Head(script[t])
               s == Steps(c)
    <3>1. c \in Calls /\ todo'[t] = s /\ made'[t] = <<>> /\ Known(c)
          /\ UNCHANGED <<tuples, entries>>
      BY <1>0, <2>3 DEF StartCall, ShapeOK, dbVars
    <3>2. CallOK(c, s)
      BY <3>1, CallPlan
    <3>3. /\ PutsComplete(s) /\ LookupsOK(s) /\ EntersMatch(s, FALSE, "none")
      BY <3>2 DEF CallOK, PlanOK
    <3> HIDE DEF c, s
    <3>4. (<<>> # <<>>) = FALSE
      OBVIOUS
    <3>5. EntersMatch(s, <<>> # <<>>, tuples'[made'[t][Len(made'[t])]].table)
      BY <1>2, <3>3, <3>4
    <3>6. ASSUME NEW j \in DOMAIN s, s[j].do = "find"
          PROVE  KnownIn(tuples, entries, s[j].table, s[j].oid)
      <4>1. c.op \in ObjectOps /\ s[j] = Find(ObjectTable(c.op), c.oid)
        BY <3>2, <3>6 DEF CallOK
      <4>2. s[j].table = ObjectTable(c.op) /\ s[j].oid = c.oid
        BY <4>1 DEF Find
      <4>3. "oid" \in DOMAIN c
        BY <3>1, <4>1, CatalogAssumption
      <4>4. TidsOf(ObjectTable(c.op), c.oid) # {}
        BY <3>1, <4>3 DEF Known, ObjectTable
      <4> QED
        BY <4>2, <4>4, KnownFacts
    <3>7. FindsKnown(s, tuples', entries')
      BY <3>1, <3>6 DEF FindsKnown
    <3> QED
      BY <3>1, <3>3, <3>5, <3>7
  <2>4. ASSUME todo[t] # <<>>, todo'[t] = Tail(todo[t])
        PROVE  /\ PutsComplete(todo'[t]) /\ LookupsOK(todo'[t])
               /\ FindsKnown(todo'[t], tuples', entries')
               /\ Head(todo[t]).do # "insert" =>
                    EntersMatch(Tail(todo[t]), made[t] # <<>>,
                                tuples'[made[t][Len(made[t])]].table)
               /\ Head(todo[t]).do = "insert" =>
                    EntersMatch(Tail(todo[t]), TRUE, Head(todo[t]).table)
    <3>1. IsSequence(todo[t]) /\ Plan(todo[t], made[t])
      BY <1>0, <1>3 DEF LocalsOK
    <3>2. \A j \in DOMAIN Tail(todo[t]) : \E i \in DOMAIN todo[t] :
            Tail(todo[t])[j] = todo[t][i]
      BY <2>4, <3>1, RestGuarded
    <3>3. FindsKnown(todo'[t], tuples', entries')
      BY <2>4, <3>1, <3>2 DEF FindsKnown
    <3> QED
      BY <2>4, <3>1, <3>3, RestInOrder
  <2>5. CASE InsertTuple(t)
    <3> DEFINE n == Len(tuples) + 1
               m == Append(made[t], n)
    <3>1. /\ made'[t] = m /\ todo'[t] = Tail(todo[t]) /\ todo[t] # <<>>
          /\ Head(todo[t]).do = "insert"
      BY <1>0, <2>5 DEF InsertTuple, Done, At
    <3>2. tuples'[n].table = Head(todo[t]).table
      BY <1>0, <2>5, InsertFacts
    <3> HIDE DEF n
    <3>3. m # <<>> /\ m[Len(m)] = n
      <4>1. IsSequence(made[t])
        BY <1>0 DEF LocalsOK
      <4> QED
        BY <4>1, AppendFacts
    <3> HIDE DEF m
    <3>4. EntersMatch(Tail(todo[t]), TRUE, tuples'[m[Len(m)]].table)
      BY <2>4, <3>1, <3>2, <3>3
    <3>5. (m # <<>>) = TRUE
      BY <3>3
    <3>6. EntersMatch(todo'[t], m # <<>>, tuples'[m[Len(m)]].table)
      BY <3>1, <3>4, <3>5
    <3> QED
      BY <2>4, <3>1, <3>6
  <2>6. ASSUME todo[t] # <<>>, todo'[t] = Tail(todo[t]), made'[t] = made[t],
               Head(todo[t]).do # "insert"
        PROVE  Plan(todo'[t], made'[t])
    BY <2>4, <2>6
  <2> QED
    BY <1>0, <2>1, <2>2, <2>3, <2>5, <2>6
       DEF StepOf, Stops, Passes, TryLock, EnterTuple, FindTuple, DropTuple, Done,
           At, callVars
<1>5. ASSUME NEW u \in Txns PROVE Plan(todo'[u], made'[u])
  <2>1. CASE u = t
    BY <1>4, <2>1
  <2>2. CASE u # t
    <3>1. todo'[u] = todo[u] /\ made'[u] = made[u]
      BY <1>0, <2>2 DEF OthersStay
    <3> QED
      BY <1>3, <3>1
  <2> QED
    BY <2>1, <2>2
<1> QED
  BY <1>5 DEF PlansOK, Tup

(* Lemma: a call that is still running has reported nothing. *)
LEMMA ResultsNext ==
  ASSUME CatalogInv, NEW t \in Txns, Stepping(t)
  PROVE  ResultsOK'
<1>0. /\ ShapeOK /\ LocalsOK /\ ResultsOK /\ StepOf(t) /\ OthersStay(t)
      /\ DOMAIN todo = Txns /\ DOMAIN result = Txns
  BY DEF CatalogInv, Stepping, ShapeOK
<1> SUFFICES ASSUME NEW u \in Txns, todo'[u] # <<>>
             PROVE  result'[u] = "none"
  BY DEF ResultsOK
<1>1. CASE u # t
  BY <1>0, <1>1 DEF OthersStay, ResultsOK
<1>2. CASE u = t
  <2>1. CASE todo'[t] = <<>>
    BY <1>2, <2>1
  <2>2. CASE todo'[t] = todo[t] /\ result'[t] = result[t]
    BY <1>0, <1>2, <2>2 DEF ResultsOK
  <2>3. CASE StartCall(t)
    BY <1>0, <1>2, <2>3 DEF StartCall
  <2>4. CASE todo[t] # <<>> /\ Done(t)
    <3>1. IsSequence(todo[t])
      BY <1>0 DEF LocalsOK
    <3>2. /\ todo'[t] = Tail(todo[t])
          /\ result'[t] = IF Len(todo[t]) = 1 THEN "ok" ELSE result[t]
      BY <1>0, <2>4 DEF Done
    <3>3. /\ IsSequence(Tail(todo[t])) /\ Len(todo[t]) \in Nat
          /\ Len(Tail(todo[t])) = Len(todo[t]) - 1
      BY <2>4, <3>1, TailFacts
    <3>4. Tail(todo[t]) = <<>> <=> Len(Tail(todo[t])) = 0
      BY <3>3, SequenceFacts
    <3>5. Len(todo[t]) # 1
      BY <1>2, <3>2, <3>3, <3>4
    <3> QED
      BY <1>0, <1>2, <2>4, <3>2, <3>5 DEF ResultsOK
  <2> QED
    BY <1>0, <2>1, <2>2, <2>3, <2>4
       DEF StepOf, Stops, Passes, TryLock, InsertTuple, EnterTuple, FindTuple,
           DropTuple, At, callVars
<1> QED
  BY <1>1, <1>2

(* Lemma: every tuple of a call is in its indexes or about to be entered. *)
LEMMA EnteredNext ==
  ASSUME CatalogInv, NEW t \in Txns, Stepping(t)
  PROVE  EnteredSoFar'
<1>0. /\ ShapeOK /\ LocalsOK /\ PlansOK /\ ResultsOK /\ EnteredSoFar
      /\ StepOf(t) /\ CatalogGrows /\ OthersStay(t)
      /\ DOMAIN todo = Txns /\ DOMAIN made = Txns /\ DOMAIN result = Txns
  BY DEF CatalogInv, Stepping, ShapeOK
\* What has to be shown for position i of the tuples m that a call with the
\* remaining steps s has made.
<1> DEFINE Awaits(s, x) == s # <<>> /\ \E k \in DOMAIN s : s[k] = Enter(x) /\ SameTuple(s, k)
           Entered(m, s) ==
             \A i \in DOMAIN m : \A x \in IndexesOn(tuples'[m[i]].table) :
               <<x, m[i]>> \in entries' \/ (i = Len(m) /\ Awaits(s, x))
<1>1. ASSUME NEW u \in Txns, NEW i \in DOMAIN made[u]
      PROVE  /\ made[u][i] \in DOMAIN tuples
             /\ tuples'[made[u][i]].table = tuples[made[u][i]].table
  BY <1>0 DEF LocalsOK, CatalogGrows
<1>2. ASSUME NEW u \in Txns, result[u] \in {"none", "ok"},
             NEW i \in DOMAIN made[u], NEW x \in IndexesOn(tuples'[made[u][i]].table)
      PROVE  \/ <<x, made[u][i]>> \in entries
             \/ i = Len(made[u]) /\ Awaits(todo[u], x)
  BY <1>0, <1>1, <1>2 DEF EnteredSoFar
<1>3. ASSUME NEW u \in Txns, result[u] \in {"none", "ok"}
      PROVE  Entered(made[u], todo[u])
  BY <1>0, <1>2, <1>3 DEF CatalogGrows
<1>4. ASSUME result'[t] \in {"none", "ok"} PROVE Entered(made'[t], todo'[t])
  <2>1. CASE Stops(t)
    BY <1>4, <2>1 DEF Stops
  <2>2. CASE UNCHANGED callVars
    BY <1>3, <1>4, <2>2 DEF callVars
  <2>3. CASE StartCall(t)
    <3>1. made'[t] = <<>>
      BY <1>0, <2>3 DEF StartCall
    <3> QED
      BY <3>1
  <2>4. ASSUME todo[t] # <<>> PROVE IsSequence(todo[t]) /\ result[t] = "none"
    BY <1>0, <2>4 DEF LocalsOK, ResultsOK
  <2>5. ASSUME todo[t] # <<>>, todo'[t] = Tail(todo[t]), NEW x, Awaits(todo[t], x)
        PROVE  Head(todo[t]) = Enter(x) \/ Awaits(todo'[t], x)
    BY <2>4, <2>5, RestEnters
  <2>6. CASE InsertTuple(t)
    <3> DEFINE n == Len(tuples) + 1
               m == Append(made[t], n)
    <3>1. /\ made'[t] = m /\ todo'[t] = Tail(todo[t]) /\ todo[t] # <<>>
          /\ Head(todo[t]).do = "insert"
      BY <1>0, <2>6 DEF InsertTuple, Done, At
    <3>2. tuples'[n].table = Head(todo[t]).table
      BY <1>0, <2>6, InsertFacts
    <3> HIDE DEF n
    <3>3. IsSequence(made[t]) /\ Len(made[t]) \in Nat /\ DOMAIN made[t] = 1 .. Len(made[t])
      BY <1>0, SequenceFacts DEF LocalsOK
    <3>4. /\ IsSequence(m) /\ Len(m) = Len(made[t]) + 1
          /\ \A i \in 1 .. Len(made[t]) : m[i] = made[t][i]
          /\ m[Len(made[t]) + 1] = n
      BY <3>3, AppendFacts
    <3>5. DOMAIN m = 1 .. Len(made[t]) + 1
      BY <3>4, SequenceFacts
    <3> HIDE DEF m
    <3>6. ASSUME NEW x, Awaits(todo[t], x) PROVE FALSE
      <4>1. PICK k \in DOMAIN todo[t] : SameTuple(todo[t], k)
        BY <3>6
      <4>2. k \in Nat \ {0} /\ Head(todo[t]) = todo[t][1]
        BY <2>4, <3>1, TailFacts, SequenceFacts
      <4> QED
        BY <3>1, <4>1, <4>2 DEF SameTuple
    <3>7. ASSUME NEW i \in DOMAIN m, NEW x \in IndexesOn(tuples'[m[i]].table)
          PROVE  <<x, m[i]>> \in entries' \/ (i = Len(m) /\ Awaits(todo'[t], x))
      <4>1. CASE i \in DOMAIN made[t]
        <5>1. m[i] = made[t][i]
          BY <3>3, <3>4, <4>1
        <5>2. <<x, made[t][i]>> \in entries
          BY <1>2, <2>4, <3>1, <3>6, <3>7, <4>1, <5>1
        <5> QED
          BY <1>0, <5>1, <5>2 DEF CatalogGrows
      <4>2. CASE i = Len(made[t]) + 1
        <5>1. x \in IndexesOn(Head(todo[t]).table)
          BY <3>2, <3>4, <3>7, <4>2
        <5>2. PutsComplete(todo[t])
          BY <1>0 DEF PlansOK
        <5>3. Awaits(Tail(todo[t]), x)
          BY <2>4, <3>1, <5>1, <5>2, RestCompletes
        <5> QED
          BY <3>1, <3>4, <4>2, <5>3
      <4> QED
        BY <3>3, <3>5, <4>1, <4>2
    <3> QED
      BY <3>1, <3>7
  <2>7. CASE EnterTuple(t)
    <3>1. /\ todo[t] # <<>> /\ todo'[t] = Tail(todo[t]) /\ made'[t] = made[t]
          /\ entries' = entries \cup {<<Head(todo[t]).index, made[t][Len(made[t])]>>}
      BY <1>0, <2>7 DEF EnterTuple, Done, At, Step, Tup
    <3>2. ASSUME NEW i \in DOMAIN made[t], NEW x \in IndexesOn(tuples'[made[t][i]].table)
          PROVE  \/ <<x, made[t][i]>> \in entries'
                 \/ i = Len(made[t]) /\ Awaits(todo'[t], x)
      <4>1. \/ <<x, made[t][i]>> \in entries
            \/ i = Len(made[t]) /\ Awaits(todo[t], x)
        BY <1>2, <2>4, <3>1, <3>2
      <4>2. CASE <<x, made[t][i]>> \in entries
        BY <3>1, <4>2
      <4>3. CASE i = Len(made[t]) /\ Awaits(todo[t], x)
        <5>1. Head(todo[t]) = Enter(x) \/ Awaits(todo'[t], x)
          BY <2>5, <3>1, <4>3
        <5>2. Head(todo[t]) = Enter(x) => <<x, made[t][i]>> \in entries'
          BY <3>1, <4>3 DEF Enter
        <5> QED
          BY <4>3, <5>1, <5>2
      <4> QED
        BY <4>1, <4>2, <4>3
    <3> QED
      BY <3>1, <3>2
  <2>8. ASSUME todo[t] # <<>>, todo'[t] = Tail(todo[t]), made'[t] = made[t],
               Head(todo[t]).do # "enter"
        PROVE  Entered(made'[t], todo'[t])
    <3>1. ASSUME NEW x, Awaits(todo[t], x) PROVE Awaits(todo'[t], x)
      <4>1. Head(todo[t]) # Enter(x)
        BY <2>8 DEF Enter
      <4> QED
        BY <2>5, <2>8, <3>1, <4>1
    <3>2. Entered(made[t], todo[t])
      BY <1>3, <2>4, <2>8
    <3> HIDE DEF Awaits
    <3> QED
      BY <2>8, <3>1, <3>2
  <2>9. CASE Passes(t)
    BY <1>0, <2>8, <2>9 DEF Passes, Done
  <2>10. CASE TryLock(t)
    BY <1>0, <2>8, <2>10 DEF TryLock, Done, At
  <2>11. CASE FindTuple(t)
    BY <1>0, <2>8, <2>11 DEF FindTuple, Done, At
  <2>12. CASE DropTuple(t)
    BY <1>0, <2>8, <2>12 DEF DropTuple, Done, At
  <2> QED
    BY <1>0, <2>1, <2>2, <2>3, <2>6, <2>7, <2>9, <2>10, <2>11, <2>12 DEF StepOf
<1>5. ASSUME NEW u \in Txns, result'[u] \in {"none", "ok"}
      PROVE  Entered(made'[u], todo'[u])
  <2>1. CASE u = t
    BY <1>4, <1>5, <2>1
  <2>2. CASE u # t
    <3>1. todo'[u] = todo[u] /\ made'[u] = made[u] /\ result'[u] = result[u]
      BY <1>0, <2>2 DEF OthersStay
    <3> QED
      BY <1>3, <1>5, <3>1
  <2> QED
    BY <2>1, <2>2
<1> QED
  BY <1>5 DEF EnteredSoFar

(* Lemma: a transaction commits after it began. *)
LEMMA StartsNext ==
  ASSUME IInv, StartsFirst, NEW t \in Txns, TxnPart(t)
  PROVE  StartsFirst'
<1>1. /\ state \in [Txns -> States] /\ start \in [Txns -> 0 .. TxnBit]
      /\ commit \in [Txns -> 0 .. TxnBit]
  BY DEF IInv, TxnTypeOK
<1>2. CASE UNCHANGED <<state, start, commit>>
  BY <1>2 DEF StartsFirst
<1>3. CASE CommitTime(t)
  <2>1. start[t] < time
    BY <1>3 DEF CommitTime, Move, IInv, Clock
  <2> QED
    BY <1>1, <1>3, <2>1 DEF CommitTime, Move, StartsFirst
<1>4. CASE Begin(t)
  BY <1>1, <1>4 DEF Begin, Move, StartsFirst
<1>5. CASE Abort(t) \/ CommitLatch(t) \/ BeginReturn(t) \/ CommitReturn(t)
  BY <1>1, <1>5 DEF Abort, CommitLatch, BeginReturn, CommitReturn, Move, StartsFirst
<1> QED
  BY <1>2, <1>3, <1>4, <1>5 DEF TxnPart, txnVars, NewUndoRecord, CallStep, Restamp

(* Lemma: what a transaction may write over is its own or committed before   *)
(* it began.                                                                 *)
LEMMA NoConflictFollows ==
  ASSUME IInv, TuplesOK, NEW t \in Txns, state[t] = "active",
         NEW k \in DOMAIN tuples, ~Conflicting(t, k)
  PROVE  Newest(k)[1] \in Txns /\ Follows(t, Newest(k)[1])
<1>1. IsRecord(Newest(k))
  BY DEF TuplesOK, Newest
<1>w. PICK w \in Txns : \E i \in 1 .. records[w] : Newest(k) = <<w, i>>
  BY <1>1 DEF IsRecord
<1>2. PICK i \in 1 .. records[w] : Newest(k) = <<w, i>>
  BY <1>w
<1>3. ~HasConflict(RecordTs(w, i), FinishTime(t), start[t])
  BY <1>2 DEF Conflicting, Timestamp
<1>4. CASE w = t
  BY <1>2, <1>4 DEF Follows
<1>5. CASE w # t
  <2>1. Sees(t, w, i)
    BY <1>3, <1>5, NoConflictSees
  <2>2. state[w] = "committed" /\ commit[w] <= start[t]
    BY <2>1, SeesCommitted
  <2> QED
    BY <1>2, <2>2 DEF Follows
<1> QED
  BY <1>4, <1>5

(* Lemma: a transaction that has made a record has begun. *)
LEMMA WritersBegun ==
  ASSUME IInv, TuplesOK, NEW k \in DOMAIN tuples
  PROVE  /\ tuples[k].ins[1] \in Txns /\ state[tuples[k].ins[1]] # "new"
         /\ tuples[k].del # Absent => tuples[k].del[1] \in Txns
<1>w. PICK w \in Txns : \E i \in 1 .. records[w] : tuples[k].ins = <<w, i>>
  BY DEF TuplesOK, IsRecord
<1>1. PICK i \in 1 .. records[w] : tuples[k].ins = <<w, i>>
  BY <1>w
<1>2. records[w] # 0
  BY <1>1
<1>3. state[w] # "new"
  BY <1>2 DEF IInv, Stamps
<1>4. tuples[k].del # Absent => tuples[k].del[1] \in Txns
  BY DEF TuplesOK, IsRecord
<1> QED
  BY <1>1, <1>3, <1>4

(* Lemma: a tuple that has replaced another has replaced it for ever. *)
LEMMA ReplacesStays ==
  ASSUME IInv, TuplesOK, NEW t \in Txns, TxnGrows(t), CatalogGrows,
         NEW n \in DOMAIN tuples, NEW k \in DOMAIN tuples, Replaces(n, k)
  PROVE  Replaces(n, k)'
<1> DEFINE w == tuples[n].ins[1]
           d == tuples[k].del[1]
<1>1. tuples[k].del # Absent /\ Follows(w, d)
  BY DEF Replaces
<1>2. w \in Txns /\ state[w] # "new" /\ d \in Txns
  BY <1>1, WritersBegun
<1>3. tuples'[n].ins = tuples[n].ins /\ tuples'[k].del = tuples[k].del
  BY <1>1 DEF CatalogGrows
<1>4. /\ start'[w] = start[w]
      /\ state[d] = "committed" => state'[d] = "committed" /\ commit'[d] = commit[d]
  BY <1>2 DEF TxnGrows
<1> QED
  BY <1>1, <1>3, <1>4 DEF Replaces, Follows

(* Lemma: InsertUnique lets a tuple in only when it replaces all the others  *)
(* under its key.                                                            *)
LEMMA KeysNext ==
  ASSUME IInv, CatalogInv, NEW t \in Txns, Stepping(t)
  PROVE  KeysReplaced'
<1>0. /\ ShapeOK /\ TuplesOK /\ EntriesOK /\ LocalsOK /\ PlansOK /\ KeysReplaced
      /\ StepOf(t) /\ TxnGrows(t) /\ CatalogGrows
  BY DEF CatalogInv, Stepping
<1>1. \A n, k \in DOMAIN tuples : Replaces(n, k) => Replaces(n, k)'
  BY <1>0, ReplacesStays
<1>2. ASSUME NEW e \in entries
      PROVE  e[2] \in DOMAIN tuples /\ tuples'[e[2]].row = tuples[e[2]].row
  BY <1>0 DEF EntriesOK, CatalogGrows
<1>3. ASSUME NEW e \in entries, NEW f \in entries,
             e[1] \in UniqueIndexes, f[1] = e[1], e # f,
             BuildKey(e[1], tuples'[e[2]].row) = BuildKey(e[1], tuples'[f[2]].row)
      PROVE  Replaces(e[2], f[2])' \/ Replaces(f[2], e[2])'
  <2>1. BuildKey(e[1], tuples[e[2]].row) = BuildKey(e[1], tuples[f[2]].row)
    BY <1>2, <1>3
  <2>2. Replaces(e[2], f[2]) \/ Replaces(f[2], e[2])
    BY <1>0, <1>3, <2>1 DEF KeysReplaced
  <2> QED
    BY <1>1, <1>2, <2>2
<1>4. CASE UNCHANGED entries
  BY <1>3, <1>4 DEF KeysReplaced
<1>5. CASE EnterTuple(t)
  <2> DEFINE x == Head(todo[t]).index
  <2>0. PICK n : n = Tup(t)
    OBVIOUS
  <2>1. /\ entries' = entries \cup {<<x, n>>} /\ ~Refused(t) /\ todo[t] # <<>>
        /\ UNCHANGED <<txnVars, tuples>>
    BY <1>5, <2>0 DEF EnterTuple, Step, At
  <2>2. n \in DOMAIN tuples /\ tuples[n].ins[1] = t
    BY <1>0, <1>5, <2>0, EnterFacts
  <2>3. state[t] = "active"
    BY <1>0, <2>1 DEF LocalsOK
  <2>4. ASSUME NEW k \in DOMAIN tuples, <<x, k>> \in entries, x \in UniqueIndexes,
               BuildKey(x, tuples[k].row) = BuildKey(x, tuples[n].row)
        PROVE  Replaces(n, k)
    <3>1. k \in SameKey(t)
      BY <2>0, <2>4 DEF SameKey, GetTids, Step
    <3>2. IsDeleted(k) /\ ~Conflicting(t, k)
      BY <2>1, <2>4, <3>1 DEF Refused, HasUniqueConflict, Step
    <3>3. Follows(t, Newest(k)[1])
      BY <1>0, <2>3, <3>2, NoConflictFollows
    <3> QED
      BY <2>2, <3>2, <3>3 DEF Replaces, IsDeleted, Newest
  <2> HIDE DEF x
  <2>5. ASSUME NEW e \in entries, e[1] \in UniqueIndexes, e[1] = x,
               BuildKey(x, tuples'[e[2]].row) = BuildKey(x, tuples'[n].row)
        PROVE  Replaces(n, e[2])'
    <3>1. e[2] \in DOMAIN tuples /\ <<x, e[2]>> \in entries
      BY <1>0, <2>5 DEF EntriesOK
    <3>2. BuildKey(x, tuples[e[2]].row) = BuildKey(x, tuples[n].row)
      BY <2>1, <2>5
    <3>3. Replaces(n, e[2])
      BY <2>4, <2>5, <3>1, <3>2
    <3> QED
      BY <1>1, <2>2, <3>1, <3>3
  <2> SUFFICES ASSUME NEW e \in entries', NEW f \in entries',
                      e[1] \in UniqueIndexes, f[1] = e[1], e # f,
                      BuildKey(e[1], tuples'[e[2]].row) = BuildKey(e[1], tuples'[f[2]].row)
               PROVE  Replaces(e[2], f[2])' \/ Replaces(f[2], e[2])'
    BY DEF KeysReplaced
  <2>6. CASE e \in entries /\ f \in entries
    BY <1>3, <2>6
  <2>7. CASE e \in entries /\ f = <<x, n>>
    BY <2>5, <2>7
  <2>8. CASE f \in entries /\ e = <<x, n>>
    <3>1. f[1] = x /\ e[2] = n /\ f[1] \in UniqueIndexes
      BY <2>8
    <3>2. BuildKey(x, tuples'[f[2]].row) = BuildKey(x, tuples'[n].row)
      BY <3>1
    <3> QED
      BY <2>5, <2>8, <3>1, <3>2
  <2> QED
    BY <2>1, <2>6, <2>7, <2>8
<1> QED
  BY <1>0, <1>4, <1>5
     DEF StepOf, Stops, Passes, TryLock, InsertTuple, FindTuple, DropTuple,
         StartCall, dbVars

-----------------------------------------------------------------------------
(* The DDL lock *)

(* Lemma: two transactions never have the lock. *)
LEMMA OneHolder ==
  ASSUME IInv, NEW h \in Txns, NEW g \in Txns, state[h] # "new", state[g] # "new",
         Holds(h), Holds(g)
  PROVE  h = g
<1>1. start[h] \in Nat /\ start[g] \in Nat /\ TxnBit \in Nat
  BY TransactionsAssumption DEF IInv, TxnTypeOK
<1>2. start[h] = start[g]
  BY <1>1 DEF Holds, FinishTime
<1> QED
  BY <1>2 DEF IInv, StartsDiffer

(* Lemma: who has the lock keeps it, committed or not. *)
LEMMA HoldsStays ==
  ASSUME IInv, NEW t \in Txns, TxnGrows(t), CatalogGrows,
         NEW h \in Txns, state[h] # "new", Holds(h)
  PROVE  /\ Holds(h)' /\ state'[h] # "new"
         /\ state[h] = "committed" => state'[h] = "committed"
<1>1. start[h] \in Nat /\ TxnBit \in Nat \ {0}
  BY TransactionsAssumption DEF IInv, TxnTypeOK
<1>2. write_lock # 0
  BY <1>1 DEF Holds, FinishTime
<1>3. write_lock' = write_lock /\ start'[h] = start[h]
  BY <1>2 DEF CatalogGrows, TxnGrows
<1> QED
  BY <1>3 DEF Holds, FinishTime, TxnGrows

(* Lemma: once the holder has committed it has done so for ever. *)
LEMMA HolderDoneStays ==
  ASSUME IInv, NEW t \in Txns, TxnGrows(t), CatalogGrows, HolderDone
  PROVE  HolderDone'
<1>1. PICK h \in Txns : Holds(h) /\ state[h] = "committed"
  BY DEF HolderDone
<1>2. Holds(h)' /\ state'[h] = "committed"
  BY <1>1, HoldsStays
<1> QED
  BY <1>2 DEF HolderDone

(* Lemma: the lock is free or some transaction's that has begun. *)
LEMMA LockNext ==
  ASSUME IInv, CatalogInv, NEW t \in Txns, Stepping(t)
  PROVE  LockOK'
<1>0. /\ LocalsOK /\ LockOK /\ StepOf(t) /\ TxnGrows(t) /\ CatalogGrows
  BY DEF CatalogInv, Stepping
<1>1. CASE UNCHANGED write_lock
  BY <1>0, <1>1, HoldsStays DEF LockOK
<1>2. CASE TryLock(t)
  <2>1. write_lock' = FinishTime(t) /\ start' = start /\ state' = state
    BY <1>2 DEF TryLock, txnVars
  <2>2. state[t] # "new"
    BY <1>0, <1>2 DEF TryLock, At, LocalsOK
  <2> QED
    BY <2>1, <2>2 DEF LockOK, Holds, FinishTime
<1> QED
  BY <1>0, <1>1, <1>2
     DEF StepOf, Stops, Passes, InsertTuple, EnterTuple, FindTuple, DropTuple,
         StartCall, dbVars

(* Lemma: until the holder has committed nobody else can touch a namespace   *)
(* or a class without a conflict.                                            *)
LEMMA SharedConflicts ==
  ASSUME IInv, TuplesOK, SharedOwned, ~HolderDone, NEW t \in Txns, state[t] = "active",
         NEW k \in DOMAIN tuples, tuples[k].table \in Shared, ~Conflicting(t, k)
  PROVE  Holds(t) /\ tuples[k].ins[1] = t
<1>1. PICK h \in Txns : /\ state[h] # "new" /\ Holds(h) /\ tuples[k].ins[1] = h
                        /\ tuples[k].del = Absent \/ tuples[k].del[1] = h
  BY DEF SharedOwned
<1>2. Newest(k)[1] = h
  BY <1>1 DEF Newest
<1>3. Follows(t, h)
  BY <1>2, NoConflictFollows
<1>4. state[h] # "committed"
  BY <1>1 DEF HolderDone
<1> QED
  BY <1>1, <1>3, <1>4 DEF Follows

(* Lemma: until the holder has committed all namespaces and classes are its  *)
(* own.                                                                      *)
LEMMA SharedNext ==
  ASSUME IInv, CatalogInv, NEW t \in Txns, Stepping(t)
  PROVE  SharedOwned'
<1>0. /\ ShapeOK /\ TuplesOK /\ LocalsOK /\ SharedOwned /\ Guarded
      /\ StepOf(t) /\ TxnGrows(t) /\ CatalogGrows
      /\ todo[t] # <<>> => state[t] = "active"
  BY DEF CatalogInv, Stepping
<1>1. CASE HolderDone
  <2>1. HolderDone'
    BY <1>0, <1>1, HolderDoneStays
  <2> QED
    BY <2>1 DEF SharedOwned
<1>2. CASE ~HolderDone
  <2>1. ASSUME NEW k \in DOMAIN tuples, tuples'[k].table \in Shared,
               tuples'[k].del = tuples[k].del
        PROVE  \E h \in Txns : /\ state'[h] # "new" /\ Holds(h)'
                               /\ tuples'[k].ins[1] = h
                               /\ tuples'[k].del = Absent \/ tuples'[k].del[1] = h
    <3>1. tuples'[k].table = tuples[k].table /\ tuples'[k].ins = tuples[k].ins
      BY <1>0 DEF CatalogGrows
    <3>2. PICK h \in Txns : /\ state[h] # "new" /\ Holds(h) /\ tuples[k].ins[1] = h
                            /\ tuples[k].del = Absent \/ tuples[k].del[1] = h
      BY <1>0, <1>2, <2>1, <3>1 DEF SharedOwned
    <3>3. state'[h] # "new" /\ Holds(h)'
      BY <1>0, <3>2, HoldsStays
    <3> QED
      BY <2>1, <3>1, <3>2, <3>3
  <2>2. ASSUME Holds(t), todo[t] # <<>> PROVE Holds(t)' /\ state'[t] # "new"
    BY <1>0, <2>2, HoldsStays
  <2> SUFFICES ASSUME NEW k \in DOMAIN tuples', tuples'[k].table \in Shared
               PROVE  \E h \in Txns : /\ state'[h] # "new" /\ Holds(h)'
                                      /\ tuples'[k].ins[1] = h
                                      /\ tuples'[k].del = Absent \/ tuples'[k].del[1] = h
    BY DEF SharedOwned
  <2>3. CASE UNCHANGED tuples
    BY <2>1, <2>3
  <2>4. CASE InsertTuple(t)
    <3> DEFINE n == Len(tuples) + 1
    <3>1. /\ DOMAIN tuples' = DOMAIN tuples \cup {n}
          /\ \A h \in DOMAIN tuples : tuples'[h] = tuples[h]
          /\ tuples'[n].table = Head(todo[t]).table
          /\ tuples'[n].ins = <<t, records[t] + 1>> /\ tuples'[n].del = Absent
      BY <1>0, <2>4, InsertFacts
    <3> HIDE DEF n
    <3>2. CASE k \in DOMAIN tuples
      BY <2>1, <3>1, <3>2
    <3>3. CASE k = n
      <4>1. todo[t] # <<>> /\ Head(todo[t]).do = "insert" /\ Head(todo[t]).table \in Shared
        BY <2>4, <3>1, <3>3 DEF InsertTuple, At
      <4>2. IsSequence(todo[t])
        BY <1>0 DEF LocalsOK
      <4>3. 1 \in DOMAIN todo[t] /\ Head(todo[t]) = todo[t][1]
        BY <4>1, <4>2, TailFacts
      <4>4. ~NoSharedPut(todo[t])
        BY <4>1, <4>3 DEF NoSharedPut
      <4>5. Holds(t)
        BY <1>0, <1>2, <4>1, <4>4 DEF Guarded
      <4> QED
        BY <2>2, <3>1, <3>3, <4>1, <4>5
    <3> QED
      BY <3>1, <3>2, <3>3
  <2>5. CASE DropTuple(t)
    <3> DEFINE d == found[t]
    <3>1. /\ d \in DOMAIN tuples /\ DOMAIN tuples' = DOMAIN tuples
          /\ \A h \in DOMAIN tuples \ {d} : tuples'[h] = tuples[h]
          /\ tuples'[d].table = tuples[d].table /\ tuples'[d].ins = tuples[d].ins
          /\ tuples'[d].del[1] = t
      BY <1>0, <2>5, DropFacts
    <3>2. ~Conflicting(t, d) /\ todo[t] # <<>> /\ state[t] = "active"
      BY <1>0, <2>5 DEF DropTuple, At
    <3> HIDE DEF d
    <3>3. CASE k # d
      BY <2>1, <3>1, <3>3
    <3>4. CASE k = d
      <4>1. Holds(t) /\ tuples[d].ins[1] = t
        BY <1>0, <1>2, <3>1, <3>2, <3>4, SharedConflicts
      <4> QED
        BY <2>2, <3>1, <3>2, <3>4, <4>1
    <3> QED
      BY <3>3, <3>4
  <2> QED
    BY <1>0, <2>3, <2>4, <2>5
       DEF StepOf, Stops, Passes, TryLock, EnterTuple, FindTuple, StartCall, dbVars
<1> QED
  BY <1>1, <1>2

(* Lemma: a rename that finds its namespace or table without the lock shows  *)
(* that the holder of the lock has committed.                                *)
LEMMA FindShowsDone ==
  ASSUME IInv, CatalogInv, NEW t \in Txns, FindTuple(t), ~Holds(t),
         Head(todo[t]).table \in Shared
  PROVE  HolderDone
<1>0. /\ ShapeOK /\ TuplesOK /\ EntriesOK /\ LocalsOK /\ PlansOK /\ SharedOwned
  BY DEF CatalogInv
<1> DEFINE tab == Head(todo[t]).table
           tids == TidsOf(tab, Head(todo[t]).oid)
<1>1. todo[t] # <<>> /\ Head(todo[t]).do = "find" /\ state[t] = "active"
  BY <1>0 DEF FindTuple, At, LocalsOK
<1>2. 1 \in DOMAIN todo[t] /\ Head(todo[t]) = todo[t][1]
  BY <1>0, <1>1, TailFacts DEF LocalsOK
<1>3. KnownIn(tuples, entries, tab, Head(todo[t]).oid)
  BY <1>0, <1>1, <1>2 DEF PlansOK, FindsKnown
<1>4. tids # {}
  BY <1>3, KnownFacts
<1>5. PICK k \in tids : ~Conflicting(t, k)
  BY <1>0, <1>4, FindFacts
<1>6. k \in DOMAIN tuples /\ <<OidIndex[tab], k>> \in entries
  BY DEF TidsOf, GetTids
<1>7. AttrsFor[OidIndex[tab]][1] = tab
  <2>1. tab \in {"namespace", "class"}
    BY DEF Shared
  <2> HIDE DEF tab
  <2> QED
    BY <2>1 DEF AttrsFor, OidIndex
<1>8. tuples[k].table = tab
  BY <1>0, <1>6, <1>7 DEF EntriesOK
<1> QED
  BY <1>0, <1>1, <1>5, <1>6, <1>8, SharedConflicts

(* Lemma: every call stays guarded. *)
LEMMA GuardedNext ==
  ASSUME IInv, CatalogInv, NEW t \in Txns, Stepping(t)
  PROVE  Guarded'
<1>0. /\ ShapeOK /\ LocalsOK /\ Guarded
      /\ StepOf(t) /\ TxnGrows(t) /\ CatalogGrows /\ OthersStay(t) /\ DOMAIN todo = Txns
  BY DEF CatalogInv, Stepping, ShapeOK
<1>1. HolderDone => HolderDone'
  BY <1>0, HolderDoneStays
<1>2. ASSUME NEW u \in Txns, todo[u] # <<>>, Holds(u) PROVE Holds(u)'
  <2>1. state[u] # "new"
    BY <1>0, <1>2 DEF LocalsOK
  <2> QED
    BY <1>0, <1>2, <2>1, HoldsStays
<1> SUFFICES ASSUME NEW u \in Txns, todo'[u] # <<>>
             PROVE  \/ Head(todo'[u]).do = "lock"
                    \/ Holds(u)'
                    \/ /\ NoExists(todo'[u])
                       /\ \/ Head(todo'[u]).do = "find" /\ Head(todo'[u]).table \in Shared
                          \/ HolderDone'
                          \/ NoSharedPut(todo'[u])
  BY DEF Guarded
<1>3. CASE todo'[u] = todo[u]
  BY <1>0, <1>1, <1>2, <1>3 DEF Guarded
<1>4. ASSUME u = t, todo[t] # <<>>, todo'[t] = Tail(todo[t]), Head(todo[t]).do # "lock",
             ~Holds(t),
             Head(todo[t]).do = "find" /\ Head(todo[t]).table \in Shared => HolderDone
      PROVE  NoExists(todo'[t]) /\ (HolderDone' \/ NoSharedPut(todo'[t]))
  <2>1. /\ NoExists(todo[t])
        /\ HolderDone \/ NoSharedPut(todo[t])
    BY <1>0, <1>4 DEF Guarded
  <2>2. IsSequence(todo[t])
    BY <1>0 DEF LocalsOK
  <2> QED
    BY <1>1, <1>4, <2>1, <2>2, RestGuarded
<1>5. ASSUME u = t, todo[t] # <<>>, todo'[t] = Tail(todo[t]), Head(todo[t]).do # "lock",
             Head(todo[t]).do # "find"
      PROVE  Holds(t)' \/ (NoExists(todo'[t]) /\ (HolderDone' \/ NoSharedPut(todo'[t])))
  BY <1>2, <1>4, <1>5
<1>6. CASE u = t
  <2>1. CASE Stops(t)
    BY <1>0, <1>6, <2>1 DEF Stops
  <2>2. CASE Passes(t)
    BY <1>0, <1>5, <1>6, <2>2 DEF Passes, Done
  <2>3. CASE TryLock(t)
    BY <1>6, <2>3 DEF TryLock, txnVars, Holds, FinishTime
  <2>4. CASE InsertTuple(t)
    BY <1>0, <1>5, <1>6, <2>4 DEF InsertTuple, Done, At
  <2>5. CASE EnterTuple(t)
    BY <1>0, <1>5, <1>6, <2>5 DEF EnterTuple, Done, At
  <2>6. CASE DropTuple(t)
    BY <1>0, <1>5, <1>6, <2>6 DEF DropTuple, Done, At
  <2>7. CASE FindTuple(t)
    <3>1. todo[t] # <<>> /\ todo'[t] = Tail(todo[t]) /\ Head(todo[t]).do = "find"
      BY <1>0, <2>7 DEF FindTuple, Done, At
    <3>2. CASE Holds(t)
      BY <1>2, <1>6, <3>1, <3>2
    <3>3. CASE ~Holds(t)
      <4>1. Head(todo[t]).table \in Shared => HolderDone
        BY <2>7, <3>3, FindShowsDone
      <4> QED
        BY <1>4, <1>6, <3>1, <3>3, <4>1
    <3> QED
      BY <3>2, <3>3
  <2>8. CASE StartCall(t)
    <3> DEFINE c == Head(script[t])
               s == Steps(c)
    <3>1. c \in Calls /\ todo'[t] = s
      BY <1>0, <2>8 DEF StartCall, ShapeOK
    <3>2. CallOK(c, s)
      BY <3>1, CallPlan
    <3> HIDE DEF c, s
    <3>3. IsSequence(s) /\ s # <<>> /\ StartsGuarded(s)
      BY <3>2 DEF CallOK, PlanOK
    <3>4. Head(s) = s[1]
      BY <3>3, TailFacts
    <3> QED
      BY <1>6, <3>1, <3>3, <3>4 DEF StartsGuarded
  <2>9. CASE UNCHANGED callVars
    BY <1>3, <2>9 DEF callVars
  <2> QED
    BY <1>0, <2>1, <2>2, <2>3, <2>4, <2>5, <2>6, <2>7, <2>8, <2>9 DEF StepOf
<1>7. CASE u # t
  BY <1>0, <1>3, <1>7 DEF OthersStay
<1> QED
  BY <1>6, <1>7

-----------------------------------------------------------------------------
(* The invariant and the theorems *)

(* Lemma: the invariant holds at first: there are no tuples and no calls. *)
LEMMA InitCatalogInv == CatalogInit => CatalogInv
<1> SUFFICES ASSUME CatalogInit PROVE CatalogInv
  OBVIOUS
<1>1. /\ tuples = <<>> /\ entries = {} /\ write_lock = 0 /\ script \in Scenarios
      /\ todo = [t \in Txns |-> <<>>] /\ made = [t \in Txns |-> <<>>]
      /\ found = [t \in Txns |-> 0] /\ result = [t \in Txns |-> "none"]
      /\ state = [t \in Txns |-> "new"]
  BY DEF CatalogInit, TxnInit
<1>2. IsSequence(<<>>) /\ DOMAIN <<>> = {}
  BY DEF IsSequence
<1>3. ShapeOK
  BY <1>1, <1>2, CatalogAssumption DEF ShapeOK
<1>4. TuplesOK /\ EntriesOK /\ KeysReplaced /\ SharedOwned /\ LockOK
  BY <1>1, <1>2 DEF TuplesOK, EntriesOK, KeysReplaced, SharedOwned, LockOK
<1>5. ResultsOK /\ Guarded /\ StartsFirst
  BY <1>1 DEF ResultsOK, Guarded, StartsFirst
<1>6. LocalsOK
  BY <1>1, <1>2 DEF LocalsOK
<1>7. EnteredSoFar
  BY <1>1, <1>2 DEF EnteredSoFar
<1>8. PlansOK
  <2>1. \A a, b : EntersMatch(<<>>, a, b)
    BY <1>2 DEF EntersMatch
  <2>2. PutsComplete(<<>>) /\ LookupsOK(<<>>) /\ \A a, b : FindsKnown(<<>>, a, b)
    BY <1>2 DEF PutsComplete, LookupsOK, FindsKnown
  <2> QED
    BY <1>1, <2>1, <2>2 DEF PlansOK
<1> QED
  BY <1>3, <1>4, <1>5, <1>6, <1>7, <1>8 DEF CatalogInv

(* Lemma: a step of the catalog is a step of its transactions or leaves      *)
(* their state alone.                                                        *)
LEMMA CatalogTxnStep ==
  ASSUME IInv, CatalogInv, [CatalogNext]_vars
  PROVE  [TxnNext]_txnVars
<1>1. CASE CatalogNext
  <2>1. PICK t \in Txns : TxnPart(t)
    BY <1>1, NextKinds
  <2> QED
    BY <2>1 DEF TxnPart, TxnNext
<1>2. CASE UNCHANGED vars
  BY <1>2 DEF vars
<1> QED
  BY <1>1, <1>2

(* Lemma: every step preserves the invariant. *)
LEMMA NextCatalogInv ==
  ASSUME IInv, IInv', CatalogInv, [CatalogNext]_vars
  PROVE  CatalogInv'
<1>1. CASE CatalogNext
  <2>1. PICK t \in Txns : Stepping(t)
    BY <1>1, NextKinds DEF Stepping
  <2>2. ShapeOK'
    BY <2>1, ShapeNext DEF Stepping
  <2>3. TuplesOK' /\ EntriesOK' /\ LocalsOK'
    BY <2>1, TuplesNext, EntriesNext, LocalsNext
  <2>4. PlansOK' /\ ResultsOK' /\ EnteredSoFar'
    BY <2>1, PlansNext, ResultsNext, EnteredNext
  <2>5. StartsFirst'
    BY <2>1, StartsNext DEF Stepping, CatalogInv
  <2>6. KeysReplaced' /\ LockOK' /\ SharedOwned' /\ Guarded'
    BY <2>1, KeysNext, LockNext, SharedNext, GuardedNext
  <2> QED
    BY <2>2, <2>3, <2>4, <2>5, <2>6 DEF CatalogInv
<1>2. CASE UNCHANGED vars
  <2> USE <1>2 DEF vars, txnVars, dbVars, callVars
  <2>0. /\ UNCHANGED <<tuples, entries, write_lock, script, todo, made, found, result>>
        /\ UNCHANGED <<time, latch, state, start, commit, records, stamped>>
    OBVIOUS
  <2>1. ShapeOK' /\ TuplesOK' /\ EntriesOK' /\ LocalsOK'
    BY <2>0 DEF CatalogInv, ShapeOK, TuplesOK, IsRecord, EntriesOK, LocalsOK
  <2>2. PlansOK' /\ ResultsOK' /\ EnteredSoFar'
    BY <2>0 DEF CatalogInv, PlansOK, Tup, ResultsOK, EnteredSoFar
  <2>3. StartsFirst' /\ KeysReplaced'
    BY <2>0 DEF CatalogInv, StartsFirst, KeysReplaced, Replaces, Follows
  <2>4. LockOK' /\ SharedOwned' /\ Guarded'
    BY <2>0 DEF CatalogInv, LockOK, SharedOwned, Guarded, Holds, HolderDone, FinishTime
  <2> QED
    BY <2>1, <2>2, <2>3, <2>4 DEF CatalogInv
<1> QED
  BY <1>1, <1>2

(* Theorem: CatalogInv, with the invariant of the transactions, holds in     *)
(* every reachable state, whatever calls the clients make.                   *)
THEOREM CatalogInvAlways == CatalogSpec => [](IInv /\ CatalogInv)
<1>1. CatalogInit => IInv /\ CatalogInv
  BY InitIInv, InitCatalogInv DEF CatalogInit
<1>2. IInv /\ CatalogInv /\ [CatalogNext]_vars => (IInv /\ CatalogInv)'
  <2> SUFFICES ASSUME IInv, CatalogInv, [CatalogNext]_vars PROVE IInv' /\ CatalogInv'
    OBVIOUS
  <2>1. IInv'
    BY CatalogTxnStep, NextIInv
  <2> QED
    BY <2>1, NextCatalogInv
<1> QED
  BY <1>1, <1>2, PTL DEF CatalogSpec

(* Theorem: a client of the catalog goes through the states of a transaction *)
(* that TransactionManager allows, so all that is proved of Transactions     *)
(* holds under DDL.                                                          *)
THEOREM CatalogImplementsTransactions == CatalogSpec => TxnSpec
<1>1. CatalogInit => TxnInit
  BY DEF CatalogInit
<1>2. IInv /\ CatalogInv /\ [CatalogNext]_vars => [TxnNext]_txnVars
  BY CatalogTxnStep
<1> QED
  BY <1>1, <1>2, CatalogInvAlways, PTL DEF CatalogSpec, TxnSpec

(* Theorem: a catalog call that reports success has entered every tuple it   *)
(* made in every index of the tuple's table, for tables with any number of   *)
(* columns.                                                                  *)
THEOREM IndexesCompleteAlways == CatalogSpec => []IndexesComplete
<1>1. CatalogInv => IndexesComplete
  <2> SUFFICES ASSUME ResultsOK, EnteredSoFar,
                      NEW t \in Txns, result[t] = "ok", NEW i \in DOMAIN made[t],
                      NEW x \in IndexesOn(tuples[made[t][i]].table)
               PROVE  <<x, made[t][i]>> \in entries
    BY DEF CatalogInv, IndexesComplete
  <2>1. todo[t] = <<>>
    BY DEF ResultsOK
  <2> QED
    BY <2>1 DEF EnteredSoFar
<1> QED
  BY <1>1, CatalogInvAlways, PTL

(* Lemma: what a running transaction sees of a tuple's version. *)
LEMMA VisibleCommitted ==
  ASSUME IInv, NEW r \in Txns, state[r] = "active", NEW rec, IsRecord(rec)
  PROVE  /\ rec[1] \in Txns
         /\ VisibleTo(r, rec) <=>
              rec[1] = r \/ (state[rec[1]] = "committed" /\ commit[rec[1]] <= start[r])
<1>1. PICK w \in Txns : \E i \in 1 .. records[w] : rec = <<w, i>>
  BY DEF IsRecord
<1>2. PICK i \in 1 .. records[w] : rec = <<w, i>>
  BY <1>1
<1>3. rec[1] = w /\ rec[2] = i
  BY <1>2
<1>4. Sees(r, w, i) <=> state[w] = "committed" /\ commit[w] <= start[r]
  BY SeesCommitted
<1> QED
  BY <1>3, <1>4 DEF VisibleTo

(* Theorem: InsertUnique under snapshot isolation keeps names and oids       *)
(* unique in every snapshot, for any number of transactions that create,     *)
(* rename and drop, with or without the lock.                                *)
THEOREM UniqueNamesAlways == CatalogSpec => []UniqueNames
<1>1. IInv /\ CatalogInv => UniqueNames
  <2> SUFFICES ASSUME IInv, CatalogInv PROVE UniqueNames
    OBVIOUS
  <2>0. TuplesOK /\ EntriesOK /\ StartsFirst /\ KeysReplaced
    BY DEF CatalogInv
  <2>1. ASSUME NEW r \in Txns, state[r] = "active",
               NEW n \in DOMAIN tuples, NEW k \in DOMAIN tuples, Replaces(n, k),
               LiveFor(r, n), LiveFor(r, k)
        PROVE  FALSE
    <3> DEFINE w == tuples[n].ins[1]
               d == tuples[k].del[1]
    <3>1. tuples[k].del # Absent /\ Follows(w, d)
      BY <2>1 DEF Replaces
    <3>2. /\ VisibleTo(r, tuples[n].ins) /\ ~VisibleTo(r, tuples[k].del)
      BY <2>1, <3>1 DEF LiveFor
    <3>3. IsRecord(tuples[n].ins) /\ IsRecord(tuples[k].del)
      BY <2>0, <3>1 DEF TuplesOK
    <3>4. w \in Txns /\ (w = r \/ (state[w] = "committed" /\ commit[w] <= start[r]))
      BY <2>1, <3>2, <3>3, VisibleCommitted
    <3>5. d \in Txns /\ d # r /\ ~(state[d] = "committed" /\ commit[d] <= start[r])
      BY <2>1, <3>2, <3>3, VisibleCommitted
    <3>6. \A u \in Txns : start[u] \in Nat /\ commit[u] \in Nat
      BY TransactionsAssumption DEF IInv, TxnTypeOK
    <3>7. state[w] = "committed" => start[w] < commit[w]
      BY <2>0, <3>4 DEF StartsFirst
    <3> HIDE DEF w, d
    <3>8. w # d
      BY <3>4, <3>5
    <3>9. state[d] = "committed" /\ commit[d] <= start[w]
      BY <3>1, <3>8 DEF Follows
    <3> QED
      BY <2>1, <3>4, <3>5, <3>6, <3>7, <3>9
  <2>2. ASSUME NEW e \in entries PROVE e[2] \in DOMAIN tuples
    BY <2>0 DEF EntriesOK
  <2> SUFFICES ASSUME NEW r \in Txns, state[r] = "active", NEW x \in UniqueIndexes,
                      NEW e \in entries, NEW f \in entries,
                      e[1] = x, f[1] = x, e # f,
                      BuildKey(x, tuples[e[2]].row) = BuildKey(x, tuples[f[2]].row),
                      LiveFor(r, e[2]), LiveFor(r, f[2])
               PROVE  FALSE
    BY DEF UniqueNames
  <2>3. Replaces(e[2], f[2]) \/ Replaces(f[2], e[2])
    BY <2>0 DEF KeysReplaced
  <2> QED
    BY <2>1, <2>2, <2>3
<1> QED
  BY <1>1, CatalogInvAlways, PTL

(* Theorem: ExistsNamespace and ExistsTable look at no timestamp, and still  *)
(* a call under the DDL lock accepts only an object its transaction sees.    *)
THEOREM ExistsMeansVisibleAlways == CatalogSpec => []ExistsMeansVisible
<1>1. IInv /\ CatalogInv => ExistsMeansVisible
  <2> SUFFICES ASSUME IInv, CatalogInv, NEW t \in Txns, At(t, "exists"),
                      GetTidExists(TidsOf(Step(t).table, Step(t).oid))
               PROVE  \E k \in TidsOf(Step(t).table, Step(t).oid) : LiveFor(t, k)
    BY DEF ExistsMeansVisible
  <2>0. TuplesOK /\ EntriesOK /\ LocalsOK /\ PlansOK /\ SharedOwned /\ Guarded
    BY DEF CatalogInv
  <2> DEFINE tab == Head(todo[t]).table
  <2>1. /\ todo[t] # <<>> /\ Head(todo[t]).do = "exists" /\ state[t] = "active"
        /\ IsSequence(todo[t])
    BY <2>0 DEF At, LocalsOK
  <2>2. 1 \in DOMAIN todo[t] /\ Head(todo[t]) = todo[t][1]
    BY <2>1, TailFacts
  <2>3. ~NoExists(todo[t]) /\ tab \in Shared
    <3>1. LookupsOK(todo[t])
      BY <2>0 DEF PlansOK
    <3> QED
      BY <2>1, <2>2, <3>1 DEF NoExists, LookupsOK
  <2>4. Holds(t)
    BY <2>0, <2>1, <2>3 DEF Guarded
  <2>5. PICK k \in TidsOf(Step(t).table, Step(t).oid) : ~IsDeleted(k)
    BY DEF GetTidExists
  <2>6. k \in DOMAIN tuples /\ <<OidIndex[tab], k>> \in entries /\ tuples[k].del = Absent
    BY <2>5 DEF TidsOf, GetTids, Step, IsDeleted
  <2>7. tuples[k].table \in Shared
    <3>1. tab \in {"namespace", "class"}
      BY <2>3 DEF Shared
    <3> HIDE DEF tab
    <3>2. AttrsFor[OidIndex[tab]][1] = tab
      BY <3>1 DEF AttrsFor, OidIndex
    <3> QED
      BY <2>0, <2>3, <2>6, <3>2 DEF EntriesOK
  <2>8. ~HolderDone
    <3> SUFFICES ASSUME NEW h \in Txns, Holds(h), state[h] = "committed" PROVE FALSE
      BY DEF HolderDone
    <3> QED
      BY <2>1, <2>4, OneHolder
  <2>9. PICK h \in Txns : state[h] # "new" /\ Holds(h) /\ tuples[k].ins[1] = h
    BY <2>0, <2>6, <2>7, <2>8 DEF SharedOwned
  <2>10. tuples[k].ins[1] = t
    BY <2>1, <2>4, <2>9, OneHolder
  <2> QED
    BY <2>6, <2>10 DEF LiveFor, VisibleTo
<1> QED
  BY <1>1, CatalogInvAlways, PTL
=============================================================================
