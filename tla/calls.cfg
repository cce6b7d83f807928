CONSTANTS
  Calls <- MCCalls
  Tables <- MCTables
  Names <- MCNames
  Reads <- MCReads
  Resolves <- MCResolves
  None = None
  MaxChanges = 1
  MaxEntries = 2
SPECIFICATION CallsSpec
INVARIANTS AnswersAreRight FirstTableIsFresh StatementsStayApart SpellingsShare
