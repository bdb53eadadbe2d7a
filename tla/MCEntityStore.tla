--------------------------- MODULE MCEntityStore ---------------------------
\* EntityStore for TLC: a save of two changes, the same save sent again,
\* another content under its request id, a save of another partition that
\* deletes an entity of the first, and an empty batch.
EXTENDS EntityStore

Patch(e, v) == [op |-> "patch", entity |-> e, expected |-> v, create |-> FALSE]
Upsert(e) == [op |-> "patch", entity |-> e, expected |-> 0, create |-> TRUE]
Insert(e) == [op |-> "insert", entity |-> e, expected |-> -1, create |-> FALSE]
Delete(e, v) == [op |-> "delete", entity |-> e, expected |-> v, create |-> FALSE]

Save(id, sig, p, changes) ==
  [id |-> id, sig |-> sig, partition |-> p, changes |-> changes]
Twice == Save("r1", "x", "p", <<Patch("hero", -1), Upsert("item")>>)
MCRequest == [
  first |-> Twice,
  again |-> Twice,
  clash |-> Save("r1", "y", "p", <<Insert("hero")>>),
  other |-> Save("r2", "z", "q", <<Delete("hero", 1)>>),
  void |-> Save("r3", "v", "p", << >>)]
MCRows == [hero |-> 1, item |-> 0]
=============================================================================
