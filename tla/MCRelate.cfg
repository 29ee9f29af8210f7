CONSTANT Mesh <- MCMesh
CONSTANT Operands <- MCOperands
CONSTANT Suspects <- MCSuspects
CONSTANT Squares <- MCSquares
SPECIFICATION AskSpec
INVARIANTS RelateSound MatrixIsExact PredicatesAgree ValidExactly
CHECK_DEADLOCK FALSE
