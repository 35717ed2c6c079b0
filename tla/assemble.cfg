SPECIFICATION FairSpec
CONSTANTS
  LeaderFrames = 2
  TrailerFrames = 1
  Programs <- MCPrograms
  Options <- MCOptions
  Tables <- MCTables
INVARIANTS
  TypeOK
  LoaderAccepts
  LoadedAsListed
  OneWordPerLocation
  OperandsReached
  LiteralsIntact
  LabelsSettled
  SourceSymbolsDecideAlike
  NumbersRepresented
  MergeKeepsFieldZero
  PoolsApart
PROPERTY Terminates
