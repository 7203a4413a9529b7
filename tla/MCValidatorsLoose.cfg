SPECIFICATION Spec
CONSTANT Texts <- LooseTokenTexts
CHECK_DEADLOCK FALSE
INVARIANT LooseTokensWhole
