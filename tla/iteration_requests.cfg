\* One command at a time, failing anywhere, while people edit their comments.
SPECIFICATION Spec
CONSTANTS
    Procs <- MCProcs
    NumComments = 2
    Instructions <- MCInstructions
INVARIANTS
    TypeOK
    RecordedRequestsExist
    LinkedRequestHasInput
PROPERTIES
    RequestsAreNotForgotten
