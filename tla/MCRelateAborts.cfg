CONSTANT Mesh <- MCMesh
CONSTANT Operands <- MCOperands
CONSTANT Suspects <- MCSuspects
CONSTANT Squares <- MCSquares
SPECIFICATION AskSpec
INVARIANT NeverAborts
CHECK_DEADLOCK FALSE
