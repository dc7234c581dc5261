--------------------------- MODULE MCExecutorLink ---------------------------
(* Instances of ExecutorLink for TLC.                                        *)
EXTENDS ExecutorLink

CONSTANTS promptCmd, abortCmd, modelCmd, acquirer   \* model values for commands and an acquirer
NoCommands == {}
Prompt == {promptCmd}
PromptAbort == {promptCmd, abortCmd}
Model == {modelCmd}
PromptAbortModel == {promptCmd, abortCmd, modelCmd}
Kinds == [c \in {promptCmd, abortCmd, modelCmd} |-> CASE c = promptCmd -> "prompt" [] c = abortCmd -> "abort" [] c = modelCmd -> "config"]
OneAcquirer == {acquirer}
=============================================================================
