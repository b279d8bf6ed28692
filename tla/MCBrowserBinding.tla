--------------------------- MODULE MCBrowserBinding ---------------------------
EXTENDS BrowserBinding, TLC

Symmetry ==
    Permutations(Browsers) \cup Permutations(Handles) \cup Permutations(States)
        \cup Permutations(CSRFTokens) \cup Permutations(Calls) \cup Permutations(Flows)
===============================================================================
