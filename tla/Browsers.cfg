SPECIFICATION BindingSpec
CONSTANTS
    Browsers = {alice, bob}
    Flows = {login, consent}
    Handles = {h1, h2, h3}
    CSRFTokens = {t1, t2, t3}
    States = {s1, s2}
    Calls = {c1, c2}
    None = None
SYMMETRY Symmetry
INVARIANT CompletedByStarter
PROPERTY TabsCoexist
