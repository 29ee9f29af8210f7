CONSTANT Mesh <- MCMesh
CONSTANT Operands <- MCOperands
CONSTANT Suspects <- MCSuspects
CONSTANT Squares <- MCSquares
SPECIFICATION AskSpec
INVARIANT MatrixIsTrue
CHECK_DEADLOCK FALSE
