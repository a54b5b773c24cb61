CONSTANT MaxStreams = 2
SPECIFICATION FairShellSpec
INVARIANTS WritesWhereTold HandlersLeftBehind
PROPERTIES LosesOnlyThere BackToPrompt
