\* Documents of at most five events, taken at any time, from five vocabularies.
CONSTANTS
  Names = {"a", "b"}
  TableRefs = {"t", "u"}
  MaxSpanSlots = 5
  MaxEvents = 5
  Vocabularies <- MCVocabularies
SPECIFICATION Spec
INVARIANTS TypeOK Sound EveryItemOnce ParentByLevel ListsContiguous NamesAnswered GridsPacked SpansWithinBudget
PROPERTIES ReadsInOrder
