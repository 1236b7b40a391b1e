SPECIFICATION FairSpec
CONSTANTS
  add = add
  load = load
  Inst <- MCInst
  ISSUEWIDTH = 2
  ROB_BANK_DEPTH = 2
  ROB_LATCH_OUTPUT = TRUE
INVARIANT TypeOK
INVARIANT NoEnqueueIntoFullCell
INVARIANT TagNamesRow
INVARIANT IInv
INVARIANT HeadIsOldestUncommitted
PROPERTY InOrder
PROPERTY RowsUndisturbed
PROPERTY EveryTagLeaves
