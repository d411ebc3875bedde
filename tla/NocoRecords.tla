----------------------------- MODULE NocoRecords -----------------------------
(***************************************************************************)
(* Rows of the NocoDB base as NocoStore (server/src/nocodb/repos.ts) and   *)
(* the API under it (nocodb/api.ts) read and write them.  A table is the   *)
(* sequence of its rows in the order they were created, None where one was *)
(* deleted; a row's id is its place in it.  A row is                       *)
(*   [tenant, key, value, revision, by]                                    *)
(* with by, for the properties, the call that wrote it last (0 for none).  *)
(***************************************************************************)
LOCAL INSTANCE Sequences
LOCAL INSTANCE Naturals

CONSTANT None

Ids(table) == {i \in DOMAIN table : table[i] # None}
First(ids) == IF ids = {} THEN None ELSE CHOOSE i \in ids : \A j \in ids : i <= j

(* listRecords: every page of the tenant's rows, the oldest first.         *)
List(table, tenant) == {i \in Ids(table) : table[i].tenant = tenant}

(* getById: the row of the tenant; another tenant's looks like none.       *)
GetById(table, id, tenant) == First(List(table, tenant) \cap {id})

(* The rows with a key, given that of each row, whoever they belong to.    *)
WithKey(keys, key) == {i \in DOMAIN keys : keys[i] = key}

(* assertUnique: another row with the same key.                            *)
Clashes(keys, key, id) == WithKey(keys, key) \ {id}

Create(table, tenant, key, value, by) ==
    Append(table, [tenant |-> tenant, key |-> key, value |-> value, revision |-> 1, by |-> by])

(* A patch by primary key: neither the revision nor the tenant is a        *)
(* condition of it.                                                        *)
Patch(table, id, value, revision, by) ==
    [table EXCEPT ![id] = [@ EXCEPT !.value = value, !.revision = revision, !.by = by]]

Delete(table, id) == [table EXCEPT ![id] = None]
=============================================================================
