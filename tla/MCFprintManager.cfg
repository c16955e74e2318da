SPECIFICATION Spec
CONSTANTS
  Modules = {arat, zk, third}
  NoModule = NoModule
  MaxInits = 3
SYMMETRY ModuleSymmetry
INVARIANTS
  LoadedIffCurrent
  OpenIffLeased
  LeasedInitialised
  HandlesOfLoaded
  WorkerCallsOnOpen
