SPECIFICATION LinkSpec
CONSTANTS
  promptCmd = promptCmd
  abortCmd = abortCmd
  modelCmd = modelCmd
  acquirer = acquirer
  MaxGens = 2
  Cmds <- PromptAbortModel
  Kind <- Kinds
  HostCmds <- PromptAbort
  LocalCmds <- Model
  Acquirers <- OneAcquirer
  MaxVersions = 0
  MayDispose = FALSE
  OutLimit = 2
  OutReserve = 1
  MaxPendingLocal = 2
  MaxPending = 2
  HostLimit = 3
  HostReserve = 1
INVARIANTS PeersNeverAccuse PendingIsCurrent DoneMeansRunOnce
CHECK_DEADLOCK FALSE
