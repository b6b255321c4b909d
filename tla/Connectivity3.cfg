CONSTANTS
    K = 3
    Owners = {"SERVER", "CLIENT", "BOTH"}
    Datas <- MCDatas
SPECIFICATION Spec
INVARIANTS MatrixIsConnectivity ComponentsRight
