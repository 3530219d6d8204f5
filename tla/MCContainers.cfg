SPECIFICATION ContainersSpec
CONSTANTS
    low = low
    high1 = high1
    high2 = high2
    Nothing = Nothing
    x = x
    y = y
    label = label
    Size = 3
    Byte = {x, y}
    Inputs <- MCInputs
    MaxRequest = 3
    QueueSize = 7
SYMMETRY Alike

PROPERTIES
    ImplementsPriorityFifo
    ImplementsByteFifo
    ImplementsElementFifo
