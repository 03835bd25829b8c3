CONSTANTS
    Sessions = {s1}
    Handlers = {h1}
    NoSession = NoSession
SPECIFICATION Spec
PROPERTIES
    OrderlyExitCleans
