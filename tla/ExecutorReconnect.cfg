SPECIFICATION FairLinkSpec
CONSTANTS
  promptCmd = promptCmd
  abortCmd = abortCmd
  modelCmd = modelCmd
  acquirer = acquirer
  MaxGens = 2
  Cmds <- Prompt
  Kind <- Kinds
  HostCmds <- Prompt
  LocalCmds <- NoCommands
  Acquirers <- OneAcquirer
  MaxVersions = 1
  MayDispose = TRUE
  OutLimit = 2
  OutReserve = 1
  MaxPendingLocal = 2
  MaxPending = 2
  HostLimit = 3
  HostReserve = 1
INVARIANT ServedAfterBootstrap
PROPERTIES NeverBackwards HandshakeSettles LostCommandsSettle
CHECK_DEADLOCK FALSE
