SPECIFICATION Spec
CONSTANTS
    Layouts <- Seven
    Bytes = {1, 2}
    Quote = 3
    Sign = 64
    Partials = {0, 1, 2}
INVARIANTS SelectsRight OrderRight RewriteWhole
CHECK_DEADLOCK FALSE
