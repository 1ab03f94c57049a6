SPECIFICATION Spec
CONSTANTS
    Releases = {1, 2}
PROPERTIES
    ResultIsTrue
    BoxSurvives
CHECK_DEADLOCK FALSE
