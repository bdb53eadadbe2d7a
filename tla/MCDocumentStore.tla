-------------------------- MODULE MCDocumentStore --------------------------
\* DocumentStore for TLC: a save of two changes, the same save sent again, a
\* later one of its partition, one of another partition, and a save of
\* another process that deletes what the first changes.
EXTENDS DocumentStore

Patch(e, v) == [op |-> "patch", entity |-> e, expected |-> v, create |-> FALSE]
Upsert(e) == [op |-> "patch", entity |-> e, expected |-> 0, create |-> TRUE]
Insert(e) == [op |-> "insert", entity |-> e, expected |-> -1, create |-> FALSE]
Delete(e, v) == [op |-> "delete", entity |-> e, expected |-> v, create |-> FALSE]

Save(id, sig, p, changes) ==
  [id |-> id, sig |-> sig, partition |-> p, changes |-> changes]
Twice == Save("r1", "x", "p", <<Patch("hero", -1), Upsert("item")>>)
MCRequest == [
  first |-> Twice,
  again |-> Twice,
  next |-> Save("r2", "y", "p", <<Patch("hero", 1)>>),
  other |-> Save("r1", "z", "q", <<Insert("hero")>>),
  void |-> Save("r3", "v", "p", << >>),
  away |-> Save("r4", "w", "q", <<Delete("hero", 1)>>)]
MCRows == [hero |-> 1, item |-> -1]
MCSlot == [p |-> 1, q |-> 2]
=============================================================================
